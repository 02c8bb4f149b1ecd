------------------------------- MODULE TcpNet -------------------------------
(***************************************************************************)
(* The kernel's TCP with one peer across a network, and modules that use   *)
(* the sockets.  The peer is external: a correct TCP that numbers what it  *)
(* sends, accepts only the segment that comes next, acknowledges what it   *)
(* has and sends again what was not acknowledged.  The network may lose,   *)
(* repeat and reorder.  A stranger sends single segments of its own.       *)
(*                                                                         *)
(* The peer numbers its SYN 0, then its bytes from 1, then its FIN.  The   *)
(* k-th byte of either direction has the value k, so that order and loss   *)
(* show in the data.                                                       *)
(***************************************************************************)
EXTENDS TcpStack

CONSTANTS
    Peer, Stranger,
    PeerPort, StrangerPort,
    PeerIsn,                 \* sequence number of the peer's SYN
    PeerLen, KernelLen,      \* bound: bytes each side sends
    MaxWire,                 \* bound: frames under way
    MaxEvents                \* bound: disturbances and segments of the stranger

VARIABLES
    rx,          \* frames under way to the kernel
    pst,         \* peer: "Closed", "Listen", "SynSent", "SynRecv", "Open", "Reset"
    una, nxt,    \* peer: first item not acknowledged, next item to send
    rcv,         \* peer: the sequence number it expects
    finSent, finRcvd,
    given,       \* bytes the peer's TCP passed on
    kport,       \* the kernel's port the peer talks to
    sent,        \* how many bytes modules sent to the peer
    got,         \* bytes modules received from the peer
    strange,     \* how many segments the stranger has sent
    faults       \* how often something was lost, repeated, cut off or did not fit

numVars  == <<una, nxt, rcv, kport>>
peerVars == <<pst, numVars, finSent, finRcvd, given>>
histVars == <<sent, got, strange, faults>>
disturbed == faults > 0
allVars  == <<vars, rx, peerVars, histVars>>

PeerSeq(k) == (PeerIsn + k) % SeqMod
Count(m, n) == [k \in 1 .. n - m + 1 |-> m + k - 1]

NetInit ==
    /\ Init
    /\ rx = <<>>
    /\ pst \in {"Closed", "Listen"}
    /\ una = 0 /\ nxt = 0 /\ rcv = 0 /\ kport = 0
    /\ finSent = FALSE /\ finRcvd = FALSE
    /\ given = <<>>
    /\ sent = 0 /\ got = <<>> /\ strange = 0 /\ faults = 0

\* Room for a frame nobody waited for; a reply takes the place of what it answers.
Room == Len(rx) + Len(tx) < MaxWire

Fault == faults + strange < MaxEvents /\ faults' = faults + 1

\* The kernel loses data of its own accord.
OwnFault(happens) == faults' = IF happens /\ ~disturbed THEN 1 ELSE faults

-----------------------------------------------------------------------------
(* The network *)

Without(s, k) == SubSeq(s, 1, k - 1) \o SubSeq(s, k + 1, Len(s))

Lose ==
    /\ \/ \E k \in 1..Len(rx) : rx' = Without(rx, k) /\ UNCHANGED tx
       \/ \E k \in 1..Len(tx) : tx' = Without(tx, k) /\ UNCHANGED rx
    /\ Fault
    /\ UNCHANGED <<tcp_sockets, arp, peerVars, sent, got, strange>>

\* With the loss of the first copy this reorders, too.
Repeat ==
    /\ Room
    /\ \/ \E k \in 1..Len(rx) : rx' = Append(rx, rx[k]) /\ UNCHANGED tx
       \/ \E k \in 1..Len(tx) : tx' = Append(tx, tx[k]) /\ UNCHANGED rx
    /\ Fault
    /\ UNCHANGED <<tcp_sockets, arp, peerVars, sent, got, strange>>

-----------------------------------------------------------------------------
(* The peer *)

PeerFrame(flags, k, payload) ==
    [type |-> "tcp",
     seg  |-> [src |-> Peer, src_port |-> PeerPort, dst_port |-> kport', flags |-> flags,
               seq |-> PeerSeq(k), ack_no |-> rcv', payload |-> payload]]

PeerSends(flags, k, payload) == rx' = Append(rx, PeerFrame(flags, k, payload))

PeerConnects(port) ==
    /\ pst = "Closed" /\ Room
    /\ pst' = "SynSent" /\ nxt' = 1 /\ kport' = port
    /\ UNCHANGED <<vars, una, rcv, finSent, finRcvd, given, histVars>>
    /\ PeerSends({"SYN"}, 0, <<>>)

PeerData(n) ==
    /\ pst = "Open" /\ ~finSent /\ Room
    /\ nxt + n <= PeerLen + 1
    /\ nxt' = nxt + n
    /\ UNCHANGED <<vars, pst, una, rcv, kport, finSent, finRcvd, given, histVars>>
    /\ PeerSends({"PSH", "ACK"}, nxt, Count(nxt, nxt + n - 1))

PeerCloses ==
    /\ pst = "Open" /\ ~finSent /\ Room
    /\ finSent' = TRUE
    /\ nxt' = nxt + 1
    /\ UNCHANGED <<vars, pst, una, rcv, kport, finRcvd, given, histVars>>
    /\ PeerSends({"FIN", "ACK"}, nxt, <<>>)

PeerAborts ==
    /\ pst \in {"SynSent", "SynRecv", "Open"} /\ Room
    /\ pst' = "Reset"
    /\ UNCHANGED <<vars, numVars, finSent, finRcvd, given, histVars>>
    /\ PeerSends({"RST"}, nxt, <<>>)

PeerRepeats ==
    /\ pst \in {"SynSent", "SynRecv", "Open"} /\ Room
    /\ una < nxt
    /\ UNCHANGED <<vars, peerVars, sent, got, strange>>
    /\ IF una = 0
       THEN PeerSends(IF pst = "SynSent" THEN {"SYN"} ELSE {"SYN", "ACK"}, 0, <<>>)
       ELSE IF finSent /\ una = nxt - 1 THEN PeerSends({"FIN", "ACK"}, una, <<>>)
       ELSE PeerSends({"PSH", "ACK"}, una, <<una>>)
    /\ Fault

\* The items acknowledged when the acknowledgement says `number`.
Acked(number) ==
    IF \E k \in una + 1 .. nxt : PeerSeq(k) = number
    THEN CHOOSE k \in una + 1 .. nxt : PeerSeq(k) = number
    ELSE una

\* The peer's connection has a use for segment s.
Expects(s) ==
    \/ pst = "Listen" /\ "SYN" \in s.flags /\ "ACK" \notin s.flags
    \/ pst = "SynSent" /\ {"SYN", "ACK"} \subseteq s.flags /\ s.ack_no = PeerSeq(1)
    \/ pst \in {"SynRecv", "Open"} /\ s.src_port = kport

PeerSyn(s) ==
    /\ pst = "Listen" /\ Expects(s)
    /\ pst' = "SynRecv" /\ nxt' = 1
    /\ rcv' = wrapping_add(s.seq, 1)
    /\ kport' = s.src_port
    /\ UNCHANGED <<una, finSent, finRcvd, given>>
    /\ PeerSends({"SYN", "ACK"}, 0, <<>>)

PeerSynAck(s) ==
    /\ pst = "SynSent" /\ Expects(s)
    /\ pst' = "Open" /\ una' = 1
    /\ rcv' = wrapping_add(s.seq, 1)
    /\ UNCHANGED <<nxt, kport, finSent, finRcvd, given>>
    /\ PeerSends({"ACK"}, nxt, <<>>)

\* The next segment is taken; any other one is only answered.
PeerInOrder(s) ==
    /\ pst \in {"SynRecv", "Open"} /\ Expects(s)
    /\ s.seq = rcv /\ "SYN" \notin s.flags
    /\ una' = Acked(s.ack_no)
    /\ pst' = IF una' > 0 THEN "Open" ELSE pst
    /\ given' = given \o s.payload
    /\ finRcvd' = (finRcvd \/ "FIN" \in s.flags)
    /\ rcv' = wrapping_add(rcv, Len(s.payload) + (IF "FIN" \in s.flags THEN 1 ELSE 0))
    /\ UNCHANGED <<nxt, kport, finSent>>
    /\ IF rcv' # rcv THEN PeerSends({"ACK"}, nxt, <<>>) ELSE UNCHANGED rx

PeerOutOfOrder(s) ==
    /\ pst \in {"SynRecv", "Open"} /\ Expects(s)
    /\ s.seq # rcv \/ "SYN" \in s.flags
    /\ UNCHANGED peerVars
    /\ PeerSends({"ACK"}, nxt, <<>>)

PeerIgnores(s) == ~Expects(s) /\ UNCHANGED <<rx, peerVars>>

PeerAnswersArp ==
    /\ rx' = Append(rx, [type |-> "arp_reply"])
    /\ UNCHANGED peerVars

\* The first frame from the kernel arrives; those to the stranger just go.
PeerReceives ==
    /\ tx # <<>>
    /\ tx' = Tail(tx)
    /\ LET f == Head(tx) IN
         \/ f.to = Stranger /\ UNCHANGED <<rx, peerVars>>
         \/ f.to = Peer /\ f.type = "arp_reply" /\ UNCHANGED <<rx, peerVars>>
         \/ f.to = Peer /\ f.type = "arp_request" /\ PeerAnswersArp
         \/ /\ f.to = Peer /\ f.type = "tcp"
            /\ \/ PeerSyn(f.seg) \/ PeerSynAck(f.seg) \/ PeerInOrder(f.seg)
               \/ PeerOutOfOrder(f.seg) \/ PeerIgnores(f.seg)
    /\ UNCHANGED <<tcp_sockets, arp, histVars>>

\* Before it opens a connection the peer asks for the kernel's hardware address.
PeerAsksArp ==
    /\ pst = "Closed" /\ rx = <<>> /\ Room
    /\ rx' = <<[type |-> "arp_request"]>>
    /\ UNCHANGED <<vars, peerVars, histVars>>

-----------------------------------------------------------------------------
(* The kernel *)

ToPeer(i) == /\ i \in Used
             /\ tcp_sockets[i].rip = Peer
             /\ tcp_sockets[i].rport = PeerPort

\* The payload of p goes to a socket whose buffer has no room for all of it.
Overflows(p) ==
    \E i \in Candidates(p.dst_port, p.src_port) :
        /\ IsFirst(Candidates(p.dst_port, p.src_port), i)
        /\ tcp_sockets[i].state = "Established"
        /\ Len(tcp_sockets[i].buf) + Len(p.payload) > MAX_TCP_PAYLOAD

KernelReceives ==
    /\ rx # <<>>
    /\ rx' = Tail(rx)
    /\ LET f == Head(rx) IN
         \/ f.type = "tcp" /\ HandleTcp(f.seg) /\ OwnFault(Overflows(f.seg))
         \/ f.type = "arp_reply" /\ HandleArpReply(Peer) /\ UNCHANGED faults
         \/ f.type = "arp_request" /\ HandleArpRequest(Peer) /\ UNCHANGED faults
    /\ UNCHANGED <<peerVars, sent, got, strange>>

StrangerSends(port, flags) ==
    /\ Room
    /\ faults + strange < MaxEvents
    /\ strange' = strange + 1
    /\ HandleTcp([src |-> Stranger, src_port |-> StrangerPort, dst_port |-> port,
                  flags |-> flags, seq |-> 0, ack_no |-> 0, payload |-> <<>>])
    /\ UNCHANGED <<rx, peerVars, sent, got, faults>>

ModuleListens(port)  == tcp_listen(port) /\ UNCHANGED <<rx, peerVars, histVars>>
ModuleConnects       == Room /\ tcp_connect(Peer, PeerPort) /\ UNCHANGED <<rx, peerVars, histVars>>
ModuleAccepts(i)     == tcp_accept(i) /\ UNCHANGED <<rx, peerVars, histVars>>
ModuleCloses(i)      == Room /\ tcp_close(i) /\ UNCHANGED <<rx, peerVars, histVars>>

ModuleSends(i, n) ==
    /\ Room /\ ToPeer(i)
    /\ sent + n <= KernelLen
    /\ tcp_send(i, Count(sent + 1, sent + n))
    /\ sent' = sent + n
    /\ UNCHANGED <<rx, peerVars, got, strange, faults>>

ModuleReceives(i, n) ==
    /\ ToPeer(i)
    /\ n <= Len(tcp_sockets[i].buf)
    /\ tcp_recv(i)
    /\ got' = got \o SubSeq(tcp_sockets[i].buf, 1, n)
    /\ OwnFault(n < Len(tcp_sockets[i].buf))
    /\ UNCHANGED <<rx, peerVars, sent, strange>>

NetNext ==
    \/ Lose \/ Repeat
    \/ \E port \in ListenPorts : PeerConnects(port) \/ ModuleListens(port)
    \/ \E n \in 1..PeerLen : PeerData(n)
    \/ PeerCloses \/ PeerAborts \/ PeerRepeats \/ PeerReceives \/ PeerAsksArp
    \/ KernelReceives
    \/ \E port \in ListenPorts, flags \in {{"SYN"}, {"ACK"}, {"RST"}} : StrangerSends(port, flags)
    \/ ModuleConnects
    \/ \E i \in Socks : ModuleAccepts(i) \/ ModuleCloses(i)
    \/ \E i \in Socks, n \in 1..KernelLen : ModuleSends(i, n)
    \/ \E i \in Socks, n \in 1..MAX_TCP_PAYLOAD : ModuleReceives(i, n)

\* The receive pump runs in every turn of the main loop; while nothing is lost,
\* what is under way arrives.
NetSpec == NetInit /\ [][NetNext]_allVars /\ WF_allVars(KernelReceives) /\ WF_allVars(PeerReceives)

-----------------------------------------------------------------------------
(* Properties *)

\* Whatever the network loses, repeats or reorders, the bytes the peer's TCP passes
\* on are the first ones modules sent, in order: every byte is sent under the number
\* that follows its predecessor's, from the handshake on (tcp_send, handle_pkt).
PeerGetsPrefix == Len(given) <= sent /\ given = Count(1, Len(given))

\* As long as nothing was lost, repeated, cut off or too much for the buffer, the
\* bytes modules receive are the first ones the peer sent, in order, across the
\* handshake, an accept that moves the socket, and a close.
ModuleGetsPrefix == ~disturbed => Len(got) <= nxt /\ got = Count(1, Len(got))

\* The kernel never acknowledges what the peer has not sent.
AcksOnlySent ==
    \A k \in 1..Len(tx) :
        /\ tx[k].type = "tcp" /\ tx[k].to = Peer /\ "ACK" \in tx[k].seg.flags
        => \E n \in 1..nxt : tx[k].seg.ack_no = PeerSeq(n)

\* One side is waiting for the other to answer its SYN.
HalfOpen ==
    \/ pst \in {"Listen", "SynRecv"} /\ \E i \in Socks : ToPeer(i)
    \/ \E i \in Socks : ToPeer(i) /\ tcp_sockets[i].state = "SynRecv"

\* Undisturbed, an open finishes on both sides, whichever side starts it, also when
\* the SYN has to wait for the neighbour's address.
HandshakeCompletes == []<>(~HalfOpen \/ disturbed)

\* The peer's FIN reached the kernel before a module closed.
PeerClosedFirst == \E i \in Socks : ToPeer(i) /\ tcp_sockets[i].state = "CloseWait"

\* The kernel's end of the peer's connection is there and not closed.
KernelEndOpen ==
    \E i \in Socks : ToPeer(i) /\ tcp_sockets[i].lport = kport /\ tcp_sockets[i].state # "Closed"

\* Undisturbed, a connection both sides have closed gets to Closed in the kernel if a
\* module closed before the peer's FIN came, also when the two FINs cross (handle_pkt,
\* FinWait1 and FinWait2).  A socket that was in CloseWait is left out: tcp_close takes
\* it to FinWait1, where it waits for a FIN that has already come.
ActiveCloseCompletes ==
    []~PeerClosedFirst => []<>(~(finSent /\ finRcvd /\ KernelEndOpen) \/ disturbed)

=============================================================================
