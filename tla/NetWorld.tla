------------------------------ MODULE NetWorld ------------------------------
(***************************************************************************)
(* The network stack among DHCP servers and other hosts (which are not     *)
(* part of the kernel): frames on their way to the kernel may be           *)
(* overtaken, lost or duplicated, hosts speak when they like and may       *)
(* change their hardware address, and modules call the UDP functions.      *)
(* What may happen in a behaviour, and how often, is chosen at its start.  *)
(***************************************************************************)
EXTENDS NetServices

CONSTANTS
    Lease,                     \* the address a host offers if it is a DHCP server
    Budgets,                   \* bounds: what may happen how often, and who takes part
    MaxQueue,                  \* bound: frames at the device
    Payloads, Pads,            \* lengths of datagrams, padding of short frames
    FirstMac,                  \* the hardware address of each host at first
    Caps                       \* sizes of the buffers modules read into

Happenings == {"naks", "dups", "losses", "frames", "datagrams", "moves", "calls", "reads", "sets"}

ASSUME WorldAssumption ==
    /\ Lease \in [Ips -> Addresses] /\ FirstMac \in [Ips -> Macs]
    /\ Payloads \subseteq Nat /\ Pads \subseteq Nat
    /\ Budgets \subseteq [servers : SUBSET Ips, speakers : SUBSET Ips, left : [Happenings -> Nat]]
    /\ \A b \in Budgets : 0 .. b.left["datagrams"] \subseteq Bytes

VARIABLES
    air,         \* frames on their way to the kernel
    mac,         \* the hardware address of each host
    budget,      \* what may still happen
    leased,      \* history: addresses a server has granted the kernel
    heard,       \* history: the address each host was last heard with
    arrived,     \* history: datagrams the stack was handed, in order
    got,         \* history: reads of modules, in order
    lost         \* history: a frame was lost

worldVars == <<air, mac, budget, leased, heard, arrived, got, lost>>
vars == <<linkVars, stackVars, worldVars>>

Spend(what) == budget.left[what] > 0 /\ budget' = [budget EXCEPT !.left[what] = @ - 1]

-----------------------------------------------------------------------------
(* Other hosts *)

FromHost(h, kind, dst, x) == [kind |-> kind, dst |-> dst, src |-> mac[h], ip |-> h, x |-> x]
FromServer(s, type, xid, addr) ==
    FromHost(s, "dhcp", Broadcast, [type |-> type, xid |-> xid, yiaddr |-> addr, server |-> s])

\* The hosts answer the frame that has gone out first.
Answer(f) ==
    \/ /\ f.kind = "dhcp" /\ f.x.type = "discover"
       /\ air' = air \cup {FromServer(s, "offer", Xid, Lease[s]) : s \in budget.servers}
       /\ UNCHANGED <<leased, budget>>
    \/ /\ f.kind = "dhcp" /\ f.x.type = "request"
       /\ air' = air \cup {FromServer(f.x.server, "ack", Xid, f.x.yiaddr)}
       /\ leased' = leased \cup {f.x.yiaddr}
       /\ UNCHANGED budget
    \/ /\ f.kind = "dhcp" /\ f.x.type = "request"
       /\ air' = air \cup {FromServer(f.x.server, "nak", Xid, Zero)}
       /\ Spend("naks")
       /\ UNCHANGED leased
    \/ /\ f.kind = "arp_request" /\ f.x \in Ips
       /\ air' = air \cup {FromHost(f.x, "arp_reply", Me, f.ip)}
       /\ UNCHANGED <<leased, budget>>
    \/ /\ f.kind = "arp_request" => f.x \notin Ips
       /\ f.kind # "dhcp"
       /\ UNCHANGED <<air, leased, budget>>

HostsHear ==
    /\ out # <<>>
    /\ Answer(Head(out))
    /\ out' = Tail(out)
    /\ UNCHANGED <<rxVars, tx_last_used, tx_avail, TX_BUF, waiting, tx_used, tx_seen, late,
                   stackVars, mac, heard, arrived, got, lost>>

Unasked(h) ==
    {FromHost(h, "ping", dst, 0) : dst \in {Me, Broadcast}}
    \cup {FromHost(h, "pong", Me, 0), FromHost(h, "ping", h, 0)}
    \cup {FromHost(h, "arp_request", Broadcast, a) : a \in Addresses}
    \cup {FromHost(h, "arp_reply", Broadcast, Zero)}
    \cup {FromServer(h, "ack", OtherXid, a) : a \in Addresses}

Speaks(h) ==
    /\ Spend("frames")
    /\ air' \in {air \cup {f} : f \in Unasked(h)}
    /\ UNCHANGED <<linkVars, stackVars, mac, leased, heard, arrived, got, lost>>

\* The bytes of a datagram are all the same and tell it from every other.
SendsDatagram(h) ==
    /\ Spend("datagrams")
    /\ \E port \in Ports, n \in Payloads, pad \in Pads :
         air' = air \cup {FromHost(h, "udp", Me,
                    Datagram(port, port, [k \in 1 .. n |-> budget.left["datagrams"]], pad))}
    /\ UNCHANGED <<linkVars, stackVars, mac, leased, heard, arrived, got, lost>>

Moves(h) ==
    /\ Spend("moves")
    /\ mac' \in {[mac EXCEPT ![h] = m] : m \in Macs}
    /\ UNCHANGED <<linkVars, stackVars, air, leased, heard, arrived, got, lost>>

-----------------------------------------------------------------------------
(* The network *)

Arrives(f) ==
    /\ Len(inq) < MaxQueue
    /\ inq' = Append(inq, f)
    /\ UNCHANGED <<rx_last_used, rx_avail, RX_BUF, rx_used, rx_seen, buf, txVars, stackVars,
                   mac, leased, heard, arrived, got>>

Delivers == \E f \in air : Arrives(f) /\ air' = air \ {f} /\ UNCHANGED <<budget, lost>>
Duplicates == \E f \in air : Arrives(f) /\ Spend("dups") /\ UNCHANGED <<air, lost>>
Loses ==
    /\ Spend("losses")
    /\ \E f \in air : air' = air \ {f}
    /\ lost' = TRUE
    /\ UNCHANGED <<linkVars, stackVars, mac, leased, heard, arrived, got>>

-----------------------------------------------------------------------------
(* The kernel, and what the histories record of its steps.                 *)

Teaches(f) == ForUs(f) /\ (f.kind = "arp_reply" \/ (f.kind \in IpKinds /\ f.dst # Broadcast))

Polls ==
    /\ poll
    /\ heard' = IF Teaches(RX_BUF) THEN [heard EXCEPT ![RX_BUF.ip] = RX_BUF.src] ELSE heard
    /\ arrived' = IF ForUs(RX_BUF) /\ RX_BUF.kind = "udp"
                  THEN Append(arrived, RX_BUF.x) ELSE arrived
    /\ UNCHANGED <<air, mac, budget, leased, got, lost>>

Starts == dhcp_start /\ UNCHANGED worldVars
LinkSteps == Link /\ UNCHANGED <<stackVars, worldVars>>

\* What came before the port was bound counts for nothing.
Binds(port) ==
    /\ udp_bind(port)
    /\ IF At(port) # {} THEN UNCHANGED <<arrived, got>>
       ELSE /\ arrived' = SelectSeq(arrived, LAMBDA d : d.dport # port)
            /\ got' = SelectSeq(got, LAMBDA r : r.port # port)
    /\ UNCHANGED leased

Reads(i, cap) ==
    /\ udp_recv(i)
    /\ got' = Append(got, [sock |-> i, port |-> udp_sockets[i].local_port,
                           cap |-> cap, bytes |-> Read(i, cap)])
    /\ UNCHANGED <<leased, arrived>>

SetsIp(a) == set_ip(a) /\ leased' = leased \cup {a} /\ UNCHANGED <<arrived, got>>

Calls ==
    /\ \/ Spend("reads") /\ \E i \in Socks, cap \in Caps : Reads(i, cap)
       \/ Spend("sets") /\ \E a \in Addresses : SetsIp(a)
       \/ Spend("calls") /\ \E port \in Ports : Binds(port)
       \/ /\ Spend("calls")
          /\ \/ \E i \in Socks, a \in Ips \cup {AllHosts}, port \in Ports : udp_connect(i, a, port)
             \/ \E i \in Socks, n \in Payloads : udp_send(i, [k \in 1 .. n |-> 0])
             \/ \E i \in Socks : udp_close(i)
          /\ UNCHANGED <<leased, arrived, got>>
    /\ UNCHANGED <<air, mac, heard, lost>>

-----------------------------------------------------------------------------
NetInit ==
    /\ Init
    /\ air = {}
    /\ mac = FirstMac
    /\ budget \in Budgets
    /\ leased = {}
    /\ heard = [h \in Ips |-> NoEntry]
    /\ arrived = <<>> /\ got = <<>>
    /\ lost = FALSE

Environment ==
    \/ HostsHear \/ Delivers \/ Duplicates \/ Loses
    \/ \E h \in budget.speakers : Speaks(h) \/ SendsDatagram(h) \/ Moves(h)

Next == Starts \/ Polls \/ LinkSteps \/ Calls \/ Environment

\* The main loop polls in every turn, and every send and every wait in it ends;
\* the device and the network go on.
Fairness ==
    /\ WF_vars(Starts) /\ WF_vars(Polls) /\ WF_vars(LinkSteps)
    /\ WF_vars(HostsHear) /\ WF_vars(Delivers)

Spec == NetInit /\ [][Next]_vars /\ Fairness

-----------------------------------------------------------------------------
(* Properties *)

\* Every variable of the stack stays in its type: an address, a DHCP state, at
\* most MAX_ARP_ENTRIES neighbours, sockets whose waiting bytes fit the buffer.
TypeOK ==
    /\ ip \in Addresses \cup {Zero}
    /\ dhcp \in [state : DhcpStates, offered_ip : Addresses \cup {Zero}, server_ip : Ips \cup {Zero}]
    /\ arp \in [Slots -> [ip : Ips, mac : Macs] \cup {NoEntry}]
    /\ udp_sockets \in [Socks -> Sockets \cup {NoSocket}]
    /\ {rx_last_used, rx_avail, rx_used, rx_seen, tx_last_used, tx_avail, tx_used, tx_seen}
         \subseteq 0 .. IdxMod - 1
    /\ waiting \in BOOLEAN

\* handle_packet: the kernel only ever takes an address that a server has granted
\* to its own transaction or that a module has set, whatever offers, refusals and
\* grants to other clients come in, in whatever order and however often.
AddressIsOurs == ip # Zero => ip \in leased

\* ArpCache: an entry holds the hardware address its neighbour was last heard with,
\* no neighbour has two entries, and one that was heard is found unless every slot is
\* another one's.
ArpLatest ==
    /\ \A i \in Slots : arp[i] # NoEntry => arp[i].mac = heard[arp[i].ip]
    /\ \A i, j \in Slots :
         arp[i] # NoEntry /\ arp[j] # NoEntry /\ arp[i].ip = arp[j].ip => i = j
    /\ \A h \in Ips : heard[h] # NoEntry /\ Holders(h) = {} => FreeSlots = {}

For(port) == SelectSeq(arrived, LAMBDA d : d.dport = port)
From(port) == SelectSeq(got, LAMBDA r : r.port = port)
Upto(bytes, n) == SubSeq(bytes, 1, IF Len(bytes) < n THEN Len(bytes) ELSE n)

\* UdpSocket: what modules read from a port are datagrams that came for that port
\* after it was bound, each one read at most once, with its own bytes and nothing
\* of another one, and through one socket in the order in which they came.
ReadsAreArrivals ==
    \A port \in Ports :
      LET A == For(port)
          G == From(port)
      IN  \E e \in [DOMAIN G -> DOMAIN A] :
            /\ \A j \in DOMAIN G :
                 G[j].bytes = Upto(Upto(payload(A[e[j]]), MAX_UDP_PAYLOAD), G[j].cap)
            /\ \A j, k \in DOMAIN G :
                 j < k => e[j] # e[k] /\ (G[j].sock = G[k].sock => e[j] < e[k])

\* dhcp_start, handle_dhcp: the kernel gets an address in spite of refusals,
\* second offers, duplicates and reordering, unless a frame is lost or a
\* transmission given up (nothing is ever sent again).
DhcpBinds == budget.servers # {} => <>(dhcp.state = "Bound" \/ lost \/ late > 0)
=============================================================================
