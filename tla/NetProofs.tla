------------------------------ MODULE NetProofs ------------------------------
(***************************************************************************)
(* For any number of hosts, servers, sockets and ARP entries, any ring     *)
(* size and any behaviour of the network: everything stays in its type,    *)
(* the driver hands over every frame once and in order and bounds what it  *)
(* leaves with the device, the kernel only takes addresses that were meant *)
(* for it, and the ARP cache holds what was heard last.  The lemmas about  *)
(* the driver are for any frames: H are those that come in, K those that   *)
(* go out.                                                                 *)
(***************************************************************************)
EXTENDS NetWorld, TLAPS

-----------------------------------------------------------------------------
(* Indices of the rings *)

Idx == 0 .. IdxMod - 1

LEMMA Increment ==
  ASSUME NEW i \in Idx
  PROVE  /\ wrapping_inc(i) \in Idx
         /\ wrapping_inc(i) = IF i = IdxMod - 1 THEN 0 ELSE i + 1
         /\ wrapping_inc(i) # i
<1>1. i + 1 \in Nat /\ (i = IdxMod - 1 => i + 1 = IdxMod) /\ (i # IdxMod - 1 => i + 1 < IdxMod)
  BY RingAssumption DEF Idx
<1>2. IdxMod % IdxMod = 0
  BY RingAssumption
<1>3. i + 1 < IdxMod => (i + 1) % IdxMod = i + 1
  BY <1>1, RingAssumption
<1> QED
  BY <1>1, <1>2, <1>3, RingAssumption DEF Idx, wrapping_inc

LEMMA Difference ==
  ASSUME NEW a \in Idx, NEW b \in Idx
  PROVE  (a - b) % IdxMod = IF b <= a THEN a - b ELSE a - b + IdxMod
<1>1. b <= a => a - b \in 0 .. IdxMod - 1
  BY RingAssumption DEF Idx
<1>2. b > a => a - b + IdxMod \in 0 .. IdxMod - 1
  BY RingAssumption DEF Idx
<1>3. b <= a => (a - b) % IdxMod = a - b
  BY <1>1, RingAssumption DEF Idx
<1>4. b > a => (a - b) % IdxMod = a - b + IdxMod
  BY <1>2, RingAssumption DEF Idx
<1> QED
  BY <1>3, <1>4, RingAssumption DEF Idx

-----------------------------------------------------------------------------
(* The receive half of the driver *)

\* The buffer is posted one ahead of what was taken, and the device has filled
\* it or not.
RxInv(H) ==
    /\ rx_last_used \in Idx /\ rx_avail \in Idx /\ rx_used \in Idx
    /\ rx_seen = rx_used
    /\ rx_avail = wrapping_inc(rx_last_used)
    /\ rx_used \in {rx_last_used, rx_avail}
    /\ inq \in Seq(H)
    /\ rx_used # rx_last_used => RX_BUF \in H

\* What a step may do with the receive half.
RxArrives(f) ==
    inq' = Append(inq, f) /\ UNCHANGED <<rx_last_used, rx_avail, RX_BUF, rx_used, rx_seen, buf>>
RxStep(A) == UNCHANGED rxVars \/ do_rx \/ DeviceReceives \/ \E f \in A : RxArrives(f)

LEMMA RxStart ==
  ASSUME NEW H, LinkInit
  PROVE  RxInv(H)
<1>1. 0 \in Idx
  BY RingAssumption DEF Idx
<1>2. wrapping_inc(0) = 1 /\ 1 \in Idx
  BY <1>1, Increment, RingAssumption DEF Idx
<1> QED
  BY <1>1, <1>2 DEF LinkInit, RxInv

LEMMA RxKept ==
  ASSUME NEW H, NEW A \in SUBSET H, RxInv(H), RxStep(A)
  PROVE  RxInv(H)'
<1>1. CASE UNCHANGED rxVars
  BY <1>1 DEF RxInv, rxVars
<1>2. CASE do_rx
  <2>1. wrapping_inc(rx_avail) \in Idx /\ rx_used = rx_avail
    BY <1>2, Increment DEF RxInv, do_rx
  <2> QED
    BY <1>2, <2>1 DEF RxInv, do_rx
<1>3. CASE DeviceReceives
  <2>1. Head(inq) \in H /\ Tail(inq) \in Seq(H)
    BY <1>3 DEF RxInv, DeviceReceives
  <2> QED
    BY <1>3, <2>1 DEF RxInv, DeviceReceives
<1>4. CASE \E f \in A : RxArrives(f)
  BY <1>4 DEF RxInv, RxArrives
<1> QED
  BY <1>1, <1>2, <1>3, <1>4 DEF RxStep

-----------------------------------------------------------------------------
(* The driver as a queue of frames *)

LEMMA QueueStart == LinkInit => FQ!Init
<1> SUFFICES ASSUME LinkInit PROVE FQ!Init
  OBVIOUS
<1>1. Received = <<>> \o inq /\ inq = <<>>
  BY DEF LinkInit, Received
<1>2. <<>> \o <<>> = <<>>
  OBVIOUS
<1> QED
  BY <1>1, <1>2 DEF LinkInit, FQ!Init

\* A frame the device takes in moves from inq to the buffer: nothing changes for
\* the stack.  One the driver takes leaves the head of the queue.
LEMMA QueueStep ==
  ASSUME NEW H, NEW A \in SUBSET H, RxInv(H), RxStep(A)
  PROVE  FQ!Arrive \/ FQ!Deliver \/ UNCHANGED <<Received, buf>>
<1>1. CASE UNCHANGED rxVars
  BY <1>1 DEF rxVars, Received
<1>2. CASE do_rx
  <2>1. Received = <<RX_BUF>> \o inq
    BY <1>2 DEF do_rx, Received
  <2>2. rx_used' = rx_last_used'
    BY <1>2, Increment DEF do_rx, RxInv
  <2>3. Received' = <<>> \o inq
    BY <1>2, <2>2 DEF do_rx, Received
  <2>4. RX_BUF \in H /\ inq \in Seq(H)
    BY <1>2 DEF do_rx, RxInv
  <2>5. /\ <<RX_BUF>> \o inq # <<>>
        /\ Head(<<RX_BUF>> \o inq) = RX_BUF
        /\ Tail(<<RX_BUF>> \o inq) = inq
        /\ <<>> \o inq = inq
    BY <2>4
  <2>6. FQ!Deliver
    BY <1>2, <2>1, <2>3, <2>5 DEF do_rx, FQ!Deliver
  <2> QED
    BY <2>6
<1>3. CASE DeviceReceives
  <2>1. rx_used = rx_last_used /\ rx_used' # rx_last_used'
    BY <1>3, Increment DEF DeviceReceives, RxInv
  <2>2. Received = <<>> \o inq /\ Received' = <<Head(inq)>> \o Tail(inq)
    BY <1>3, <2>1 DEF DeviceReceives, Received
  <2>3. inq \in Seq(H) /\ inq # <<>>
    BY <1>3 DEF DeviceReceives, RxInv
  <2>4. <<>> \o inq = inq /\ <<Head(inq)>> \o Tail(inq) = inq
    BY <2>3
  <2> QED
    BY <1>3, <2>2, <2>4 DEF DeviceReceives
<1>4. ASSUME NEW f \in A, RxArrives(f)
      PROVE  FQ!Arrive
  <2> DEFINE b == IF rx_used # rx_last_used THEN <<RX_BUF>> ELSE <<>>
  <2>1. Received = b \o inq /\ Received' = b \o Append(inq, f)
    BY <1>4 DEF RxArrives, Received
  <2>2. b \in Seq(H) /\ inq \in Seq(H) /\ f \in H
    BY DEF RxInv
  <2>3. ASSUME NEW r \in Seq(H), NEW s \in Seq(H)
        PROVE  /\ Len(r \o Append(s, f)) > Len(r \o s)
               /\ SubSeq(r \o Append(s, f), 1, Len(r \o s)) = r \o s
    <3>1. r \o s \in Seq(H) /\ r \o Append(s, f) = Append(r \o s, f)
      BY <2>2
    <3>2. ASSUME NEW t \in Seq(H)
          PROVE  Len(Append(t, f)) > Len(t) /\ SubSeq(Append(t, f), 1, Len(t)) = t
      BY <2>2
    <3> QED
      BY <3>1, <3>2
  <2> QED
    BY <1>4, <2>1, <2>2, <2>3 DEF RxArrives, FQ!Arrive
<1> QED
  BY <1>1, <1>2, <1>3, <1>4 DEF RxStep

-----------------------------------------------------------------------------
(* The transmit half of the driver *)

\* How far the completions that do_tx has counted, with the one it waits for, lag
\* behind what it has posted.
Awaited == IF waiting THEN target ELSE tx_last_used
Lag == (tx_avail - Awaited) % IdxMod
InCall == IF waiting THEN 1 ELSE 0

\* Each send that is given up adds one to the lag.  While the device still has
\* more frames than the one that is being sent, the lag is no more than late, so
\* that the completion do_tx counts as its own leaves no more than late behind.
TxTyped(K) ==
    /\ tx_last_used \in Idx /\ tx_avail \in Idx /\ tx_used \in Idx
    /\ tx_seen = tx_used
    /\ late \in 0 .. MaxLate
    /\ out \in Seq(K)
    /\ TX_BUF \in K \/ tx_seen = tx_avail
TxInv(K) ==
    /\ TxTyped(K)
    /\ Pending <= late + InCall
    /\ Lag > late => Pending <= InCall
    /\ late = 0 => Lag = 0
    /\ late < MaxLate => Lag <= late

\* What a step may do with the transmit half; the hosts take the frame that has gone
\* out first.
Taken ==
    /\ out # <<>> /\ out' = Tail(out)
    /\ UNCHANGED <<tx_last_used, tx_avail, TX_BUF, waiting, tx_used, tx_seen, late>>
Sends(K) == ~waiting /\ \E k \in K : net_send(k)
TxStep(K) ==
    UNCHANGED txVars \/ Sends(K) \/ wait_for_used \/ GivesUp \/ DeviceTransmits \/ Taken

\* The distance of two indices after one of them was incremented.
LEMMA Distance ==
  ASSUME NEW a \in Idx, NEW b \in Idx
  PROVE  /\ (a - b) % IdxMod \in Idx
         /\ (a - b) % IdxMod = 0 <=> a = b
         /\ (a - b) % IdxMod = IdxMod - 1 => (wrapping_inc(a) - b) % IdxMod = 0
         /\ (a - b) % IdxMod # IdxMod - 1 =>
              (wrapping_inc(a) - b) % IdxMod = ((a - b) % IdxMod) + 1
         /\ a # b => (a - wrapping_inc(b)) % IdxMod = ((a - b) % IdxMod) - 1
         /\ (wrapping_inc(a) - wrapping_inc(b)) % IdxMod = (a - b) % IdxMod
<1>1. /\ wrapping_inc(a) \in Idx /\ wrapping_inc(b) \in Idx
      /\ wrapping_inc(a) = IF a = IdxMod - 1 THEN 0 ELSE a + 1
      /\ wrapping_inc(b) = IF b = IdxMod - 1 THEN 0 ELSE b + 1
  BY Increment
<1> DEFINE d(x, y) == IF y <= x THEN x - y ELSE x - y + IdxMod
<1>2. /\ (a - b) % IdxMod = d(a, b)
      /\ (wrapping_inc(a) - b) % IdxMod = d(wrapping_inc(a), b)
      /\ (a - wrapping_inc(b)) % IdxMod = d(a, wrapping_inc(b))
      /\ (wrapping_inc(a) - wrapping_inc(b)) % IdxMod = d(wrapping_inc(a), wrapping_inc(b))
  BY <1>1, Difference
<1>3. a \in Int /\ b \in Int /\ 0 <= a /\ a <= IdxMod - 1 /\ 0 <= b /\ b <= IdxMod - 1
  BY RingAssumption DEF Idx
<1>4. d(a, b) \in Idx /\ (d(a, b) = 0 <=> a = b)
  BY <1>3, RingAssumption DEF Idx
<1>5. /\ d(a, b) = IdxMod - 1 => d(wrapping_inc(a), b) = 0
      /\ d(a, b) # IdxMod - 1 => d(wrapping_inc(a), b) = d(a, b) + 1
  BY <1>1, <1>3, RingAssumption
<1>6. a # b => d(a, wrapping_inc(b)) = d(a, b) - 1
  BY <1>1, <1>3, RingAssumption
<1>7. d(wrapping_inc(a), wrapping_inc(b)) = d(a, b)
  BY <1>1, <1>3, RingAssumption
<1> HIDE DEF d
<1> QED
  BY <1>2, <1>4, <1>5, <1>6, <1>7

LEMMA TxStart ==
  ASSUME NEW K, LinkInit
  PROVE  TxInv(K)
<1>1. 0 \in Idx /\ 0 \in 0 .. MaxLate
  BY RingAssumption DEF Idx
<1>2. TxTyped(K)
  BY <1>1 DEF LinkInit, TxTyped
<1>3. (0 - 0) % IdxMod = 0
  BY <1>1, Distance
<1>4. Pending = 0 /\ Lag = 0 /\ InCall = 0 /\ late = 0
  BY <1>3 DEF LinkInit, Pending, Lag, Awaited, InCall
<1> QED
  BY <1>2, <1>4, RingAssumption DEF TxInv

LEMMA TxKept ==
  ASSUME NEW K, TxInv(K), TxStep(K)
  PROVE  TxInv(K)'
<1> USE DEF TxInv
<1>0. /\ TxTyped(K)
      /\ Pending \in Idx /\ Lag \in Idx /\ InCall \in {0, 1} /\ late \in Nat
      /\ target \in Idx /\ Awaited \in Idx /\ MaxLate \in Nat
      /\ Pending = 0 <=> tx_avail = tx_seen
  <2>1. target \in Idx /\ Awaited \in Idx
    BY Increment DEF TxTyped, Awaited, target
  <2>2. Lag \in Idx
    BY <2>1, Distance DEF TxTyped, Lag
  <2>3. Pending \in Idx /\ (Pending = 0 <=> tx_avail = tx_seen)
    BY Distance DEF TxTyped, Pending
  <2>4. InCall \in {0, 1}
    BY DEF InCall
  <2>5. late \in Nat /\ MaxLate \in Nat
    BY RingAssumption DEF TxTyped
  <2> QED
    BY <2>1, <2>2, <2>3, <2>4, <2>5
<1>1. CASE UNCHANGED txVars
  BY <1>1 DEF txVars, TxTyped, Pending, Lag, Awaited, InCall, target
<1>2. CASE Sends(K)
  <2> PICK k \in K : net_send(k)
    BY <1>2 DEF Sends
  <2>1. /\ waiting' /\ ~waiting /\ late' = late /\ tx_seen' = tx_seen
        /\ tx_avail' = wrapping_inc(tx_avail) /\ tx_last_used' = tx_last_used
    BY <1>2 DEF Sends, net_send, TxTyped
  <2>2. TxTyped(K)'
    BY <1>0, Increment DEF TxTyped, net_send
  <2>3. Lag' = Lag /\ InCall' = 1 /\ InCall = 0
    BY <1>0, <2>1, Distance DEF Lag, Awaited, InCall, target, TxTyped
  <2>4. Pending' = 0 \/ Pending' = Pending + 1
    BY <1>0, <2>1, Distance DEF Pending, TxTyped
  <2> QED
    BY <1>0, <2>1, <2>2, <2>3, <2>4 DEF Idx
<1>3. CASE wait_for_used
  <2>1. TxTyped(K)'
    BY <1>0, <1>3 DEF TxTyped, wait_for_used
  <2>2. /\ Lag' = Lag /\ Pending' = Pending /\ InCall' = 0 /\ InCall = 1 /\ late' = late
        /\ Pending = Lag
    BY <1>0, <1>3 DEF wait_for_used, Lag, Awaited, InCall, target, TxTyped, Pending
  <2>3. Lag <= late
    BY <1>0, <2>2 DEF Idx
  <2> QED
    BY <1>0, <2>1, <2>2, <2>3 DEF Idx
<1>4. CASE GivesUp
  <2>1. TxTyped(K)'
    BY <1>0, <1>4 DEF TxTyped, GivesUp
  <2>2. /\ waiting /\ ~waiting' /\ InCall = 1 /\ InCall' = 0
        /\ Pending' = Pending
    BY <1>0, <1>4 DEF GivesUp, InCall, TxTyped, Pending
  <2>3. Lag' = 0 \/ Lag' = Lag + 1
    <3>1. Lag = (tx_avail - wrapping_inc(tx_last_used)) % IdxMod
      BY <2>2 DEF Lag, Awaited, target
    <3>2. Lag' = (tx_avail - tx_last_used) % IdxMod
      BY <1>4, <2>2 DEF Lag, Awaited, GivesUp
    <3> DEFINE before == (tx_avail - wrapping_inc(tx_last_used)) % IdxMod
               after == (tx_avail - tx_last_used) % IdxMod
    <3>3. /\ after \in Idx /\ before \in Idx
          /\ tx_avail = tx_last_used => after = 0
          /\ tx_avail # tx_last_used => before = after - 1
      BY <1>0, Distance, Increment DEF TxTyped
    <3> HIDE DEF before, after
    <3>4. after = 0 \/ after = before + 1
      BY <3>3, RingAssumption DEF Idx
    <3> QED
      BY <3>1, <3>2, <3>4 DEF before, after
  <2>4. CASE late < MaxLate
    <3>1. late' = late + 1
      BY <1>4, <2>4 DEF GivesUp
    <3> QED
      BY <1>0, <2>1, <2>2, <2>3, <2>4, <3>1 DEF Idx
  <2>5. CASE ~(late < MaxLate)
    <3>1. late' = late /\ Pending = 0 /\ tx_used # target
      BY <1>0, <1>4, <2>5 DEF GivesUp
    <3>2. late # 0
      <4> SUFFICES ASSUME late = 0 PROVE FALSE
        OBVIOUS
      <4>1. Lag = 0
        OBVIOUS
      <4>2. tx_avail = target
        BY <1>0, <2>2, <4>1, Distance DEF Lag, Awaited, TxTyped
      <4> QED
        BY <1>0, <3>1, <4>2 DEF TxTyped
    <3> QED
      BY <1>0, <2>1, <2>2, <2>3, <2>5, <3>1, <3>2 DEF Idx
  <2> QED
    BY <2>4, <2>5
<1>5. CASE DeviceTransmits
  <2>1. TxTyped(K)'
    BY <1>0, <1>5, Increment DEF TxTyped, DeviceTransmits
  <2>2. Lag' = Lag /\ InCall' = InCall /\ late' = late
    BY <1>5 DEF DeviceTransmits, Lag, Awaited, InCall, target
  <2>3. Pending' = Pending - 1
    BY <1>0, <1>5, Distance DEF DeviceTransmits, Pending, TxTyped
  <2> QED
    BY <1>0, <2>1, <2>2, <2>3 DEF Idx
<1>6. CASE Taken
  <2>1. TxTyped(K)'
    BY <1>0, <1>6 DEF TxTyped, Taken
  <2>2. Lag' = Lag /\ InCall' = InCall /\ late' = late /\ Pending' = Pending
    BY <1>6 DEF Taken, Lag, Awaited, InCall, target, Pending
  <2> QED
    BY <1>0, <2>1, <2>2
<1> QED
  BY <1>1, <1>2, <1>3, <1>4, <1>5, <1>6 DEF TxStep

-----------------------------------------------------------------------------
(* Frames *)

Small == {0, Zero, AllHosts} \cup Addresses \cup Ips
Datagrams == [sport : Ports \cup {0}, dport : Ports \cup {0}, data : Seq(Bytes), pad : Nat]

\* What hosts send.
Replies == [type : {"offer", "ack"}, xid : {Xid, OtherXid}, yiaddr : Addresses, server : Ips]
Refusals == [type : {"nak"}, xid : {Xid}, yiaddr : {Zero}, server : Ips]
HostFrames ==
    [kind : {"dhcp"}, dst : {Broadcast}, src : Macs, ip : Ips, x : Replies \cup Refusals]
    \cup [kind : {"udp"}, dst : {Me}, src : Macs, ip : Ips, x : Datagrams]
    \cup [kind : {"ping", "pong", "arp_request", "arp_reply"},
          dst : {Me, Broadcast} \cup Ips, src : Macs, ip : Ips, x : Small]

\* What the kernel sends.
Questions == [type : {"discover"}, xid : {Xid}, yiaddr : {Zero}, server : {Zero}]
Requests == [type : {"request"}, xid : {Xid}, yiaddr : Addresses, server : Ips]
KernelFrames ==
    [kind : {"dhcp"}, dst : {Broadcast}, src : {Me}, ip : {Zero}, x : Questions \cup Requests]
    \cup [kind : {"udp"}, dst : Macs \cup {Broadcast}, src : {Me},
          ip : Addresses \cup {Zero}, x : Datagrams]
    \cup [kind : {"pong", "arp_request", "arp_reply"}, dst : Macs \cup {Broadcast}, src : {Me},
          ip : Addresses \cup {Zero}, x : Small]

LEMMA FrameFields ==
  ASSUME NEW f \in HostFrames
  PROVE  /\ f.ip \in Ips /\ f.src \in Macs
         /\ f.kind = "dhcp" => f.x \in Replies \cup Refusals
         /\ f.kind = "udp" => f.x \in Datagrams
         /\ f.kind \notin {"dhcp", "udp"} => f.x \in Small
  BY DEF HostFrames

LEMMA KernelFields ==
  ASSUME NEW f \in KernelFrames
  PROVE  /\ f.ip \in Addresses \cup {Zero}
         /\ f.kind = "dhcp" => f.x \in Questions \cup Requests
  BY DEF KernelFrames

-----------------------------------------------------------------------------
(* What poll and the modules' calls do to stack and driver *)

StackTyped ==
    /\ ip \in Addresses \cup {Zero}
    /\ dhcp \in [state : DhcpStates, offered_ip : Addresses \cup {Zero}, server_ip : Ips \cup {Zero}]
    /\ arp \in [Slots -> [ip : Ips, mac : Macs] \cup {NoEntry}]
    /\ udp_sockets \in [Socks -> Sockets \cup {NoSocket}]

LEMMA InsertTyped ==
  ASSUME arp \in [Slots -> [ip : Ips, mac : Macs] \cup {NoEntry}],
         NEW a \in Ips, NEW m \in Macs, NEW c \in Insert(a, m)
  PROVE  c \in [Slots -> [ip : Ips, mac : Macs] \cup {NoEntry}]
<1>1. CASE Holders(a) # {}
  <2>1. PICK i \in Holders(a) : c = [arp EXCEPT ![i] = [arp[i] EXCEPT !.mac = m]]
    BY <1>1 DEF Insert, FirstOf
  <2>2. [arp[i] EXCEPT !.mac = m] \in [ip : Ips, mac : Macs]
    BY DEF Holders
  <2> QED
    BY <2>1, <2>2
<1>2. CASE Holders(a) = {}
  BY <1>2 DEF Insert, FirstOf
<1> QED
  BY <1>1, <1>2

\* Slots are never freed, so a neighbour that found the cache full still does.
ArpInv == heard \in [Ips -> Macs \cup {NoEntry}] /\ ArpLatest

LEMMA InsertKeeps ==
  ASSUME StackTyped, ArpInv, NEW a \in Ips, NEW m \in Macs,
         arp' \in Insert(a, m), heard' = [heard EXCEPT ![a] = m]
  PROVE  ArpInv'
<1>0. /\ arp \in [Slots -> [ip : Ips, mac : Macs] \cup {NoEntry}]
      /\ heard \in [Ips -> Macs \cup {NoEntry}]
      /\ m # NoEntry /\ NoEntry \notin [ip : Ips, mac : Macs]
  BY NamesAssumption DEF StackTyped, ArpInv
<1>2. heard' \in [Ips -> Macs \cup {NoEntry}]
  BY <1>0
<1>fresh. ASSUME NEW i \in Slots, arp[i] # NoEntry
          PROVE  arp[i].ip \in Ips /\ arp[i].mac = heard[arp[i].ip]
  BY <1>0, <1>fresh DEF ArpInv, ArpLatest
<1>once. ASSUME NEW i \in Slots, NEW j \in Slots, arp[i] # NoEntry, arp[j] # NoEntry,
                arp[i].ip = arp[j].ip
         PROVE  i = j
  BY <1>once DEF ArpInv, ArpLatest
<1>full. ASSUME NEW h \in Ips, heard[h] # NoEntry, Holders(h) = {}
         PROVE  FreeSlots = {}
  BY <1>full DEF ArpInv, ArpLatest
<1>3. CASE Holders(a) # {}
  <2>2. PICK n \in Holders(a) : arp' = [arp EXCEPT ![n] = [arp[n] EXCEPT !.mac = m]]
    BY <1>3 DEF Insert, FirstOf
  <2>1. n \in Slots /\ arp[n] # NoEntry /\ arp[n].ip = a
    BY DEF Holders
  <2>3. arp[n] \in [ip : Ips, mac : Macs]
    BY <1>0, <2>1
  <2>4. /\ arp'[n] \in [ip : Ips, mac : Macs] /\ arp'[n].ip = a /\ arp'[n].mac = m
        /\ arp'[n] # NoEntry
    BY <1>0, <2>1, <2>2, <2>3
  <2>5. \A i \in Slots : i # n => arp'[i] = arp[i]
    BY <1>0, <2>1, <2>2
  <2>6. ASSUME NEW i \in Slots, arp'[i] # NoEntry
        PROVE  arp'[i].mac = heard'[arp'[i].ip]
    <3>1. CASE i = n
      BY <1>0, <2>4, <3>1
    <3>2. CASE i # n
      <4>1. arp'[i] = arp[i] /\ arp[i] # NoEntry
        BY <2>5, <2>6, <3>2
      <4>2. arp[i].ip \in Ips /\ arp[i].mac = heard[arp[i].ip]
        BY <1>fresh, <4>1
      <4>3. arp[i].ip # a
        BY <1>once, <2>1, <3>2, <4>1
      <4>4. heard'[arp[i].ip] = heard[arp[i].ip]
        BY <1>0, <4>2, <4>3
      <4> QED
        BY <4>1, <4>2, <4>4
    <3> QED
      BY <3>1, <3>2
  <2>7. \A i \in Slots : (arp'[i] = NoEntry <=> arp[i] = NoEntry)
                         /\ (arp[i] # NoEntry => arp'[i].ip = arp[i].ip)
    BY <2>1, <2>4, <2>5
  <2>8. \A i, j \in Slots :
         arp'[i] # NoEntry /\ arp'[j] # NoEntry /\ arp'[i].ip = arp'[j].ip => i = j
    BY <1>once, <2>7
  <2>9. ASSUME NEW h \in Ips, heard'[h] # NoEntry, Holders(h)' = {}
        PROVE  FreeSlots' = {}
    <3>1. h # a
      BY <2>1, <2>4, <2>9 DEF Holders
    <3>2. heard[h] # NoEntry /\ Holders(h) = {}
      BY <1>0, <2>7, <2>9, <3>1 DEF Holders
    <3>3. FreeSlots = {}
      BY <1>full, <3>2
    <3> QED
      BY <2>7, <3>3 DEF FreeSlots
  <2> QED
    BY <1>2, <2>6, <2>8, <2>9, Zenon DEF ArpInv, ArpLatest
<1>4. CASE Holders(a) = {} /\ FreeSlots # {}
  <2> DEFINE e == [ip |-> a, mac |-> m]
  <2>2. PICK n \in FreeSlots : arp' = [arp EXCEPT ![n] = e]
    BY <1>4 DEF Insert, FirstOf
  <2>1. n \in Slots /\ arp[n] = NoEntry
    BY DEF FreeSlots
  <2>3. e \in [ip : Ips, mac : Macs] /\ e.ip = a /\ e.mac = m /\ e # NoEntry
    BY <1>0
  <2> HIDE DEF e
  <2>4. arp'[n] = e /\ \A i \in Slots : i # n => arp'[i] = arp[i]
    BY <1>0, <2>1, <2>2
  <2>5. \A i \in Slots : arp[i] # NoEntry => i # n /\ arp[i].ip \in Ips /\ arp[i].ip # a
    BY <1>0, <1>4, <2>1 DEF Holders
  <2>6. heard'[a] = m /\ \A h \in Ips : h # a => heard'[h] = heard[h]
    BY <1>0
  <2>7. ASSUME NEW i \in Slots, arp'[i] # NoEntry
        PROVE  arp'[i].mac = heard'[arp'[i].ip]
    <3>1. CASE i = n
      BY <2>3, <2>4, <2>6, <3>1
    <3>2. CASE i # n
      <4>1. arp'[i] = arp[i] /\ arp[i] # NoEntry
        BY <2>4, <2>7, <3>2
      <4>2. heard'[arp[i].ip] = heard[arp[i].ip] /\ arp[i].mac = heard[arp[i].ip]
        BY <1>fresh, <2>5, <2>6, <4>1
      <4> QED
        BY <4>1, <4>2
    <3> QED
      BY <3>1, <3>2
  <2>8. ASSUME NEW i \in Slots, NEW j \in Slots, arp'[i] # NoEntry, arp'[j] # NoEntry,
               arp'[i].ip = arp'[j].ip
        PROVE  i = j
    <3>1. CASE i # n /\ j # n
      <4>1. arp'[i] = arp[i] /\ arp'[j] = arp[j]
        BY <2>4, <3>1
      <4> QED
        BY <1>once, <2>8, <4>1
    <3>2. \A k \in Slots : k # n /\ arp'[k] # NoEntry => arp'[k].ip # a
      BY <2>4, <2>5
    <3> QED
      BY <2>3, <2>4, <2>8, <3>1, <3>2
  <2>9. ASSUME NEW h \in Ips, heard'[h] # NoEntry
        PROVE  Holders(h)' # {}
    <3>1. CASE h = a
      BY <2>1, <2>3, <2>4, <3>1 DEF Holders
    <3>2. CASE h # a
      <4>1. heard[h] # NoEntry
        BY <2>6, <2>9, <3>2
      <4>2. PICK i \in Slots : arp[i] # NoEntry /\ arp[i].ip = h
        BY <1>4, <1>full, <4>1 DEF Holders
      <4> QED
        BY <2>4, <2>5, <4>2 DEF Holders
    <3> QED
      BY <3>1, <3>2
  <2> QED
    BY <1>2, <2>7, <2>8, <2>9, Zenon DEF ArpInv, ArpLatest
<1>5. CASE Holders(a) = {} /\ FreeSlots = {}
  <2>1. arp' = arp
    BY <1>5 DEF Insert
  <2>2. \A i \in Slots : arp[i] # NoEntry => arp[i].ip \in Ips /\ arp[i].ip # a
    BY <1>0, <1>5 DEF Holders
  <2>3. \A h \in Ips : h # a => heard'[h] = heard[h]
    BY <1>0
  <2>4. ASSUME NEW i \in Slots, arp'[i] # NoEntry
        PROVE  arp'[i].mac = heard'[arp'[i].ip]
    <3>1. arp[i] # NoEntry /\ arp'[i] = arp[i]
      BY <2>1, <2>4
    <3>2. heard'[arp[i].ip] = heard[arp[i].ip] /\ arp[i].mac = heard[arp[i].ip]
      BY <1>fresh, <2>2, <2>3, <3>1
    <3> QED
      BY <3>1, <3>2
  <2>5. FreeSlots' = {}
    BY <1>5, <2>1 DEF FreeSlots
  <2>6. \A i, j \in Slots :
         arp'[i] # NoEntry /\ arp'[j] # NoEntry /\ arp'[i].ip = arp'[j].ip => i = j
    BY <1>once, <2>1
  <2> QED
    BY <1>2, <2>4, <2>5, <2>6, Zenon DEF ArpInv, ArpLatest
<1> QED
  BY <1>3, <1>4, <1>5

LEMMA LearnTyped ==
  ASSUME StackTyped, NEW f \in HostFrames, NEW c \in Learn(f)
  PROVE  c \in [Slots -> [ip : Ips, mac : Macs] \cup {NoEntry}]
  BY InsertTyped, FrameFields DEF Learn, StackTyped

LEMMA SendIpSends ==
  ASSUME ip \in Addresses \cup {Zero},
         NEW cache \in [Slots -> [ip : Ips, mac : Macs] \cup {NoEntry}],
         NEW to \in Ips \cup {Zero, AllHosts},
         NEW kind, NEW x,
         (kind = "pong" /\ x \in Small) \/ (kind = "udp" /\ x \in Datagrams),
         send_ip(cache, to, kind, x)
  PROVE  \E f \in KernelFrames : net_send(f)
<1>1. ASSUME NEW dst \in Macs \cup {Broadcast}
      PROVE  Frame(kind, dst, ip, x) \in KernelFrames
  BY DEF Frame, KernelFrames
<1>2. Frame("arp_request", Broadcast, ip, to) \in KernelFrames
  BY DEF Frame, KernelFrames, Small
<1>3. ASSUME NEW i \in Slots, cache[i] # NoEntry
      PROVE  cache[i].mac \in Macs
  BY <1>3
<1> QED
  BY <1>1, <1>2, <1>3 DEF send_ip, FirstOf

LEMMA PayloadTyped ==
  ASSUME NEW d \in Datagrams
  PROVE  payload(d) \in Seq(Bytes)
<1>1. d.data \in Seq(Bytes) /\ d.pad \in Nat
  BY DEF Datagrams
<1>2. [k \in 1 .. d.pad |-> 0] \in Seq(Bytes)
  BY <1>1, BytesAssumption
<1> QED
  BY <1>1, <1>2 DEF payload

LEMMA HandlePktTyped ==
  ASSUME NEW s \in Sockets, NEW from \in Ips, NEW d \in Datagrams
  PROVE  /\ handle_pkt(s, from, d) \in Sockets
         /\ handle_pkt(s, from, d).local_port = s.local_port
<1> DEFINE p == payload(d)
           n == IF Len(p) < MAX_UDP_PAYLOAD THEN Len(p) ELSE MAX_UDP_PAYLOAD
           b == [k \in 1 .. MAX_UDP_PAYLOAD |-> IF k <= n THEN p[k] ELSE s.recv_buf[k]]
<1>1. p \in Seq(Bytes)
  BY PayloadTyped
<1>2. n \in 0 .. MAX_UDP_PAYLOAD /\ n <= Len(p)
  BY <1>1, SizesAssumption
<1>3. s.recv_buf \in [1 .. MAX_UDP_PAYLOAD -> Bytes] /\ d.sport \in Ports \cup {0}
  BY DEF Sockets, Datagrams
<1>4. ASSUME NEW k \in 1 .. MAX_UDP_PAYLOAD PROVE (IF k <= n THEN p[k] ELSE s.recv_buf[k]) \in Bytes
  <2>1. CASE k <= n
    <3>1. k \in 1 .. Len(p)
      BY <1>1, <1>2, <2>1, SizesAssumption
    <3> HIDE DEF p, n
    <3> QED
      BY <1>1, <2>1, <3>1
  <2>2. CASE ~(k <= n)
    BY <1>3, <2>2
  <2> QED
    BY <2>1, <2>2
<1>5. b \in [1 .. MAX_UDP_PAYLOAD -> Bytes]
  BY <1>4
<1>6. handle_pkt(s, from, d) =
        [s EXCEPT !.remote_ip = from, !.remote_port = d.sport, !.recv_buf = b, !.recv_len = n]
  BY DEF handle_pkt
<1> HIDE DEF b, n, p
<1> QED
  BY <1>2, <1>3, <1>5, <1>6 DEF Sockets

Dhcps == [state : DhcpStates, offered_ip : Addresses \cup {Zero}, server_ip : Ips \cup {Zero}]
Tables == [Socks -> Sockets \cup {NoSocket}]

LEMMA DiscoverTyped == Discover \in KernelFrames
  BY DEF Discover, DhcpFrame, Frame, KernelFrames, Questions

LEMMA DhcpEffect ==
  ASSUME StackTyped, ~waiting, NEW m \in Replies \cup Refusals, handle_dhcp(m)
  PROVE  /\ ip' \in Addresses \cup {Zero} /\ dhcp' \in Dhcps
         /\ UNCHANGED txVars \/ Sends(KernelFrames)
         /\ dhcp'.state = "Idle" <=> dhcp.state = "Idle"
         /\ ip' = ip \/ (m.type = "ack" /\ m.xid = Xid /\ ip' = m.yiaddr)
<1>0. ip \in Addresses \cup {Zero} /\ dhcp \in Dhcps
  BY DEF StackTyped, Dhcps
<1>1. CASE Offered(m)
  <2>1. m \in Replies
    BY <1>1 DEF Offered, Refusals
  <2>2. DhcpFrame("request", m.yiaddr, m.server) \in KernelFrames
    BY <2>1 DEF DhcpFrame, Frame, KernelFrames, Requests, Replies
  <2>3. /\ dhcp' = [state |-> "Requesting", offered_ip |-> m.yiaddr, server_ip |-> m.server]
        /\ net_send(DhcpFrame("request", m.yiaddr, m.server))
        /\ ip' = ip
    BY <1>1 DEF handle_dhcp, Offered, Bound, Nak
  <2>4. dhcp' \in Dhcps
    BY <2>1, <2>3 DEF Dhcps, DhcpStates, Replies
  <2>5. dhcp.state = "Selecting" /\ dhcp'.state = "Requesting"
    BY <1>1, <2>3 DEF Offered
  <2> QED
    BY <1>0, <2>2, <2>3, <2>4, <2>5 DEF Sends
<1>2. CASE Bound(m)
  <2>1. m \in Replies /\ m.type = "ack" /\ m.xid = Xid /\ dhcp.state = "Requesting"
    BY <1>2 DEF Bound, Refusals
  <2>2. /\ dhcp' = [dhcp EXCEPT !.state = "Bound", !.offered_ip = m.yiaddr]
        /\ ip' = m.yiaddr /\ UNCHANGED txVars
    BY <1>2 DEF handle_dhcp, Offered, Bound, Nak
  <2>3. m.yiaddr \in Addresses
    BY <2>1 DEF Replies
  <2>4. dhcp' \in Dhcps /\ dhcp'.state = "Bound"
    BY <1>0, <2>2, <2>3 DEF Dhcps, DhcpStates
  <2> QED
    BY <2>1, <2>2, <2>3, <2>4
<1>3. CASE Nak(m)
  <2>1. /\ dhcp' = [dhcp EXCEPT !.state = "Selecting"] /\ dhcp.state = "Requesting"
        /\ net_send(Discover) /\ ip' = ip
    BY <1>3 DEF handle_dhcp, Offered, Bound, Nak
  <2>2. dhcp' \in Dhcps /\ dhcp'.state = "Selecting"
    BY <1>0, <2>1 DEF Dhcps, DhcpStates
  <2> QED
    BY <1>0, <2>1, <2>2, DiscoverTyped DEF Sends
<1>4. CASE ~Offered(m) /\ ~Bound(m) /\ ~Nak(m)
  BY <1>0, <1>4 DEF handle_dhcp
<1> QED
  BY <1>1, <1>2, <1>3, <1>4

LEMMA PollEffect ==
  ASSUME StackTyped, RxInv(HostFrames), poll
  PROVE  /\ StackTyped'
         /\ UNCHANGED txVars \/ Sends(KernelFrames)
         /\ RX_BUF \in HostFrames /\ ~waiting /\ Started'
<1> DEFINE f == RX_BUF
<1>0. f \in HostFrames /\ ~waiting /\ do_rx /\ dhcp.state # "Idle"
  BY DEF RxInv, poll, do_rx, Started
<1>1. /\ ip \in Addresses \cup {Zero} /\ dhcp \in Dhcps /\ udp_sockets \in Tables
      /\ arp \in [Slots -> [ip : Ips, mac : Macs] \cup {NoEntry}]
  BY DEF StackTyped, Dhcps, Tables
<1>2. f.ip \in Ips /\ f.src \in Macs
  BY <1>0, FrameFields
<1> HIDE DEF f
<1> SUFFICES /\ ip' \in Addresses \cup {Zero} /\ dhcp' \in Dhcps /\ udp_sockets' \in Tables
             /\ arp' \in [Slots -> [ip : Ips, mac : Macs] \cup {NoEntry}]
             /\ UNCHANGED txVars \/ Sends(KernelFrames)
             /\ dhcp'.state # "Idle"
  BY <1>0 DEF StackTyped, Dhcps, Tables, Started, f
<1>3. CASE Ignored(f)
  BY <1>0, <1>1, <1>3 DEF Ignored, stackVars
<1>4. CASE ArpRequest(f)
  <2>1. Frame("arp_reply", f.src, ip, f.ip) \in KernelFrames
    BY <1>1, <1>2 DEF Frame, KernelFrames, Small
  <2> QED
    BY <1>0, <1>1, <1>4, <2>1 DEF ArpRequest, stackVars, Sends
<1>5. CASE ArpReply(f)
  BY <1>0, <1>1, <1>2, <1>5, InsertTyped DEF ArpReply
<1>6. CASE Echo(f)
  <2>1. arp' \in [Slots -> [ip : Ips, mac : Macs] \cup {NoEntry}]
    BY <1>0, <1>6, LearnTyped DEF Echo
  <2>2. f.x \in Small
    BY <1>0, <1>6, FrameFields DEF Echo
  <2>3. send_ip(arp', f.ip, "pong", f.x)
    BY <1>6 DEF Echo
  <2>4. \E g \in KernelFrames : net_send(g)
    BY <1>1, <1>2, <2>1, <2>2, <2>3, SendIpSends
  <2> QED
    BY <1>0, <1>1, <1>6, <2>1, <2>4 DEF Echo, Sends
<1>7. CASE NotEcho(f)
  BY <1>0, <1>1, <1>7, LearnTyped DEF NotEcho
<1>8. CASE Dhcp(f)
  <2>1. arp' \in [Slots -> [ip : Ips, mac : Macs] \cup {NoEntry}] /\ udp_sockets' = udp_sockets
    BY <1>0, <1>8, LearnTyped DEF Dhcp
  <2>2. f.x \in Replies \cup Refusals /\ handle_dhcp(f.x)
    BY <1>0, <1>8, FrameFields DEF Dhcp
  <2> QED
    BY <1>0, <1>1, <2>1, <2>2, DhcpEffect
<1>9. CASE Udp(f)
  <2>1. arp' \in [Slots -> [ip : Ips, mac : Macs] \cup {NoEntry}]
    BY <1>0, <1>9, LearnTyped DEF Udp
  <2>2. f.x \in Datagrams
    BY <1>0, <1>9, FrameFields DEF Udp
  <2>3. ASSUME NEW i \in At(f.x.dport)
        PROVE  i \in Socks /\ handle_pkt(udp_sockets[i], f.ip, f.x) \in Sockets
    <3>1. i \in Socks /\ udp_sockets[i] \in Sockets
      BY <1>1 DEF At, Tables
    <3> QED
      BY <1>2, <2>2, <3>1, HandlePktTyped
  <2>4. \/ udp_sockets' = udp_sockets
        \/ \E i \in At(f.x.dport) :
             udp_sockets' = [udp_sockets EXCEPT ![i] = handle_pkt(udp_sockets[i], f.ip, f.x)]
    BY <1>9 DEF Udp, FirstOf
  <2>5. udp_sockets' \in Tables
    BY <1>1, <2>3, <2>4 DEF Tables
  <2> QED
    BY <1>0, <1>1, <1>9, <2>1, <2>5 DEF Udp
<1> QED
  BY <1>3, <1>4, <1>5, <1>6, <1>7, <1>8, <1>9 DEF poll, f

\* What a module sends is zeros in this model; at most MAX_UDP_PAYLOAD of them go out.
LEMMA SendEffect ==
  ASSUME StackTyped, NEW i \in Socks, NEW n \in Nat, udp_send(i, [k \in 1 .. n |-> 0])
  PROVE  Sends(KernelFrames) /\ UNCHANGED stackVars
<1> DEFINE data == [k \in 1 .. n |-> 0]
           s == udp_sockets[i]
           m == IF Len(data) < MAX_UDP_PAYLOAD THEN Len(data) ELSE MAX_UDP_PAYLOAD
           d == Datagram(s.local_port, s.remote_port, SubSeq(data, 1, m), 0)
<1>1. s \in Sockets
  BY DEF udp_send, StackTyped
<1>2. data \in Seq(Bytes) /\ Len(data) = n
  BY BytesAssumption
<1>3. m \in 0 .. Len(data)
  BY <1>2, SizesAssumption
<1>4. SubSeq(data, 1, m) \in Seq(Bytes)
  <2> HIDE DEF m, data
  <2> QED
    BY <1>2, <1>3
<1>5. send_ip(arp, s.remote_ip, "udp", d) /\ ~waiting /\ UNCHANGED stackVars
  BY DEF udp_send, Call
<1>6. d \in Datagrams
  <2> HIDE DEF m, data
  <2> QED
    BY <1>1, <1>4 DEF Datagrams, Datagram, Sockets
<1> HIDE DEF d
<1>7. \E g \in KernelFrames : net_send(g)
  BY <1>1, <1>5, <1>6, SendIpSends DEF StackTyped, Sockets
<1> QED
  BY <1>5, <1>7 DEF Sends

LEMMA CallsEffect ==
  ASSUME StackTyped, Calls
  PROVE  /\ StackTyped' /\ UNCHANGED rxVars /\ (UNCHANGED txVars \/ Sends(KernelFrames))
         /\ dhcp' = dhcp /\ arp' = arp /\ Started
<1>0. UNCHANGED rxVars /\ Started
  BY DEF Calls, Reads, SetsIp, Binds, udp_recv, set_ip, udp_bind, udp_connect, udp_send, udp_close, Call
<1>1. ASSUME NEW i \in Socks, NEW cap \in Caps, Reads(i, cap)
      PROVE  StackTyped' /\ UNCHANGED txVars /\ dhcp' = dhcp /\ arp' = arp
  <2>1. udp_sockets[i] \in Sockets
    BY <1>1 DEF Reads, udp_recv, StackTyped
  <2>2. [udp_sockets[i] EXCEPT !.recv_len = 0] \in Sockets
    BY <2>1, SizesAssumption DEF Sockets
  <2> QED
    BY <1>1, <2>2 DEF Reads, udp_recv, StackTyped
<1>2. ASSUME NEW a \in Addresses, SetsIp(a)
      PROVE  StackTyped' /\ UNCHANGED txVars /\ dhcp' = dhcp /\ arp' = arp
  BY <1>2 DEF SetsIp, set_ip, StackTyped
<1>3. ASSUME NEW port \in Ports, Binds(port)
      PROVE  StackTyped' /\ UNCHANGED txVars /\ dhcp' = dhcp /\ arp' = arp
  <2>1. UdpSocket(port) \in Sockets
    BY BytesAssumption, SizesAssumption DEF UdpSocket, Sockets
  <2> QED
    BY <1>3, <2>1 DEF Binds, udp_bind, StackTyped
<1>4. ASSUME NEW i \in Socks, NEW a \in Ips \cup {AllHosts}, NEW port \in Ports,
             udp_connect(i, a, port)
      PROVE  StackTyped' /\ UNCHANGED txVars /\ dhcp' = dhcp /\ arp' = arp
  <2>1. udp_sockets[i] \in Sockets
    BY <1>4 DEF udp_connect, StackTyped
  <2>2. [udp_sockets[i] EXCEPT !.remote_ip = a, !.remote_port = port] \in Sockets
    BY <2>1, Zenon DEF Sockets
  <2>3. udp_sockets' = [udp_sockets EXCEPT ![i] = [udp_sockets[i] EXCEPT !.remote_ip = a,
                                                                      !.remote_port = port]]
    BY <1>4, <2>1 DEF udp_connect, StackTyped, Sockets
  <2> QED
    BY <1>4, <2>2, <2>3 DEF udp_connect, StackTyped
<1>5. ASSUME NEW i \in Socks, udp_close(i)
      PROVE  StackTyped' /\ UNCHANGED txVars /\ dhcp' = dhcp /\ arp' = arp
  BY <1>5 DEF udp_close, StackTyped
<1>6. ASSUME NEW i \in Socks, NEW n \in Payloads, udp_send(i, [k \in 1 .. n |-> 0])
      PROVE  StackTyped' /\ Sends(KernelFrames) /\ dhcp' = dhcp /\ arp' = arp
  <2>1. n \in Nat
    BY WorldAssumption
  <2>2. Sends(KernelFrames) /\ UNCHANGED stackVars
    BY <1>6, <2>1, SendEffect
  <2> QED
    BY <2>2 DEF StackTyped, stackVars
<1> QED
  BY <1>0, <1>1, <1>2, <1>3, <1>4, <1>5, <1>6 DEF Calls

-----------------------------------------------------------------------------
(* The other hosts *)

BudgetSet == [servers : SUBSET Ips, speakers : SUBSET Ips, left : [Happenings -> Nat]]

HostsTyped ==
    /\ air \subseteq HostFrames
    /\ mac \in [Ips -> Macs]
    /\ budget \in BudgetSet
    /\ 0 .. budget.left["datagrams"] \subseteq Bytes
    /\ leased \subseteq Addresses

LEMMA HostSays ==
  ASSUME mac \in [Ips -> Macs], NEW h \in Ips,
         NEW kind \in {"ping", "pong", "arp_request", "arp_reply"},
         NEW dst \in {Me, Broadcast} \cup Ips, NEW x \in Small
  PROVE  FromHost(h, kind, dst, x) \in HostFrames
  BY DEF FromHost, HostFrames

LEMMA ServerSays ==
  ASSUME mac \in [Ips -> Macs], NEW s \in Ips, NEW type \in {"offer", "ack"},
         NEW xid \in {Xid, OtherXid}, NEW a \in Addresses
  PROVE  FromServer(s, type, xid, a) \in HostFrames
  BY DEF FromServer, FromHost, HostFrames, Replies

LEMMA ServerRefuses ==
  ASSUME mac \in [Ips -> Macs], NEW s \in Ips
  PROVE  FromServer(s, "nak", Xid, Zero) \in HostFrames
  BY DEF FromServer, FromHost, HostFrames, Refusals

LEMMA SpendKeeps ==
  ASSUME budget \in BudgetSet, 0 .. budget.left["datagrams"] \subseteq Bytes,
         NEW what \in Happenings, Spend(what)
  PROVE  budget' \in BudgetSet /\ 0 .. budget'.left["datagrams"] \subseteq Bytes
<1> DEFINE old == budget.left
           new == [old EXCEPT ![what] = @ - 1]
<1>1. old \in [Happenings -> Nat] /\ old[what] > 0 /\ budget' = [budget EXCEPT !.left = new]
  BY DEF Spend, BudgetSet
<1>2. new \in [Happenings -> Nat] /\ "datagrams" \in Happenings
  BY <1>1 DEF Happenings
<1>3. new["datagrams"] <= old["datagrams"]
  BY <1>1, <1>2
<1>4. budget' \in BudgetSet /\ budget'.left = new
  BY <1>1, <1>2 DEF BudgetSet
<1>5. \A k \in Nat : k <= new["datagrams"] => k <= old["datagrams"]
  BY <1>1, <1>2, <1>3
<1> HIDE DEF new
<1> QED
  BY <1>1, <1>2, <1>4, <1>5

LEMMA AnswerEffect ==
  ASSUME HostsTyped, NEW f \in KernelFrames, Answer(f), mac' = mac
  PROVE  HostsTyped'
<1>0. mac \in [Ips -> Macs] /\ air \subseteq HostFrames
  BY DEF HostsTyped
<1>1. CASE f.kind = "dhcp" /\ f.x.type = "discover"
  <2>1. air' = air \cup {FromServer(s, "offer", Xid, Lease[s]) : s \in budget.servers}
        /\ UNCHANGED <<leased, budget>>
    BY <1>1 DEF Answer
  <2>2. \A s \in budget.servers : FromServer(s, "offer", Xid, Lease[s]) \in HostFrames
    BY <1>0, ServerSays, WorldAssumption DEF HostsTyped, BudgetSet
  <2> QED
    BY <2>1, <2>2 DEF HostsTyped
<1>2. CASE f.kind = "dhcp" /\ f.x.type = "request"
  <2>1. f.x.server \in Ips /\ f.x.yiaddr \in Addresses
    BY <1>2, KernelFields DEF Questions, Requests
  <2>2. /\ FromServer(f.x.server, "ack", Xid, f.x.yiaddr) \in HostFrames
        /\ FromServer(f.x.server, "nak", Xid, Zero) \in HostFrames
    BY <1>0, <2>1, ServerSays, ServerRefuses
  <2>3. CASE /\ air' = air \cup {FromServer(f.x.server, "ack", Xid, f.x.yiaddr)}
             /\ leased' = leased \cup {f.x.yiaddr}
             /\ UNCHANGED budget
    BY <2>1, <2>2, <2>3 DEF HostsTyped
  <2>4. CASE /\ air' = air \cup {FromServer(f.x.server, "nak", Xid, Zero)}
             /\ Spend("naks")
             /\ UNCHANGED leased
    <3>1. "naks" \in Happenings
      BY DEF Happenings
    <3>2. budget' \in BudgetSet /\ 0 .. budget'.left["datagrams"] \subseteq Bytes
      BY <2>4, <3>1, SpendKeeps DEF HostsTyped
    <3> QED
      BY <2>2, <2>4, <3>2 DEF HostsTyped
  <2> QED
    BY <1>2, <2>3, <2>4 DEF Answer
<1>3. CASE f.kind = "arp_request" /\ f.x \in Ips
  <2>1. f.ip \in Small
    BY KernelFields DEF Small
  <2>2. FromHost(f.x, "arp_reply", Me, f.ip) \in HostFrames
    BY <1>0, <1>3, <2>1, HostSays
  <2> QED
    BY <1>3, <2>2 DEF Answer, HostsTyped
<1>4. CASE UNCHANGED <<air, leased, budget>>
  BY <1>4 DEF HostsTyped
<1> QED
  BY <1>1, <1>2, <1>3, <1>4 DEF Answer

LEMMA SpeaksEffect ==
  ASSUME HostsTyped, NEW h \in Ips, Speaks(h)
  PROVE  HostsTyped'
<1>1. "frames" \in Happenings
  BY DEF Happenings
<1>2. budget' \in BudgetSet /\ 0 .. budget'.left["datagrams"] \subseteq Bytes
  BY <1>1, SpendKeeps DEF HostsTyped, Speaks
<1>3. mac \in [Ips -> Macs]
  BY DEF HostsTyped
<1>4. 0 \in Small /\ Zero \in Small /\ Addresses \subseteq Small
  BY DEF Small
<1>5. Unasked(h) \subseteq HostFrames
  <2>1. \A dst \in {Me, Broadcast} : FromHost(h, "ping", dst, 0) \in HostFrames
    BY <1>3, <1>4, HostSays
  <2>2. FromHost(h, "pong", Me, 0) \in HostFrames /\ FromHost(h, "ping", h, 0) \in HostFrames
    BY <1>3, <1>4, HostSays
  <2>3. \A a \in Addresses : FromHost(h, "arp_request", Broadcast, a) \in HostFrames
    BY <1>3, <1>4, HostSays
  <2>4. FromHost(h, "arp_reply", Broadcast, Zero) \in HostFrames
    BY <1>3, <1>4, HostSays, Zenon
  <2>5. \A a \in Addresses : FromServer(h, "ack", OtherXid, a) \in HostFrames
    BY <1>3, ServerSays
  <2> QED
    BY <2>1, <2>2, <2>3, <2>4, <2>5 DEF Unasked
<1>6. PICK f \in Unasked(h) : air' = air \cup {f}
  BY DEF Speaks
<1> QED
  BY <1>2, <1>5, <1>6 DEF HostsTyped, Speaks

LEMMA DatagramEffect ==
  ASSUME HostsTyped, NEW h \in Ips, SendsDatagram(h)
  PROVE  HostsTyped'
<1>1. "datagrams" \in Happenings
  BY DEF Happenings
<1>2. budget' \in BudgetSet /\ 0 .. budget'.left["datagrams"] \subseteq Bytes
  BY <1>1, SpendKeeps DEF HostsTyped, SendsDatagram
<1> DEFINE c == budget.left["datagrams"]
<1>3. PICK port \in Ports, n \in Payloads, pad \in Pads :
        air' = air \cup {FromHost(h, "udp", Me, Datagram(port, port, [k \in 1 .. n |-> c], pad))}
  BY Zenon DEF SendsDatagram
<1>4. c \in Nat
  BY <1>1 DEF HostsTyped, BudgetSet
<1>5. c \in Bytes
  BY <1>4 DEF HostsTyped
<1>6. n \in Nat /\ pad \in Nat
  BY WorldAssumption
<1> HIDE DEF c
<1>7. [k \in 1 .. n |-> c] \in Seq(Bytes)
  BY <1>5, <1>6
<1>8. Datagram(port, port, [k \in 1 .. n |-> c], pad) \in Datagrams
  BY <1>6, <1>7 DEF Datagram, Datagrams
<1>9. FromHost(h, "udp", Me, Datagram(port, port, [k \in 1 .. n |-> c], pad)) \in HostFrames
  BY <1>8 DEF FromHost, HostFrames, HostsTyped
<1> QED
  BY <1>2, <1>3, <1>9 DEF HostsTyped, SendsDatagram

-----------------------------------------------------------------------------
(* Types, and the shape of every step *)

NetInv ==
    /\ StackTyped /\ RxInv(HostFrames) /\ TxInv(KernelFrames) /\ HostsTyped
    /\ waiting \in BOOLEAN
    /\ waiting => Started

LEMMA NetStart == NetInit => NetInv
<1> SUFFICES ASSUME NetInit PROVE NetInv
  OBVIOUS
<1>1. RxInv(HostFrames) /\ TxInv(KernelFrames)
  BY RxStart, TxStart DEF NetInit, Init
<1>2. StackTyped
  BY DEF NetInit, Init, StackTyped, DhcpStates
<1>3. HostsTyped
  BY WorldAssumption DEF NetInit, HostsTyped, BudgetSet
<1>4. waiting = FALSE
  BY DEF NetInit, Init, LinkInit
<1> QED
  BY <1>1, <1>2, <1>3, <1>4, Zenon DEF NetInv

\* Every step keeps stack and hosts in their types and does to each half of the
\* driver one of the things that RxStep and TxStep list.
LEMMA Shape ==
  ASSUME NetInv, Next
  PROVE  /\ StackTyped' /\ HostsTyped' /\ RxStep(air) /\ TxStep(KernelFrames)
         /\ Started => Started'
         /\ ~Started /\ waiting' # waiting => Started'
<1> USE DEF NetInv
<1>1. CASE Starts
  <2>1. dhcp_start /\ UNCHANGED worldVars /\ ~waiting
    BY <1>1 DEF Starts, dhcp_start
  <2>2. Sends(KernelFrames) /\ UNCHANGED rxVars
    BY <2>1, DiscoverTyped DEF dhcp_start, Sends
  <2>3. StackTyped' /\ Started'
    BY <2>1 DEF dhcp_start, StackTyped, DhcpStates, Started
  <2>4. HostsTyped'
    BY <2>1, Zenon DEF worldVars, HostsTyped
  <2> QED
    BY <2>2, <2>3, <2>4 DEF RxStep, TxStep
<1>2. CASE Polls
  <2>1. StackTyped' /\ (UNCHANGED txVars \/ Sends(KernelFrames)) /\ Started'
    BY <1>2, PollEffect DEF Polls
  <2>2. do_rx /\ HostsTyped'
    BY <1>2 DEF Polls, poll, HostsTyped
  <2> QED
    BY <2>1, <2>2 DEF RxStep, TxStep
<1>3. CASE LinkSteps
  <2>1. StackTyped' /\ HostsTyped' /\ dhcp' = dhcp /\ Link
    BY <1>3 DEF LinkSteps, stackVars, worldVars, StackTyped, HostsTyped
  <2>2. /\ wait_for_used => UNCHANGED rxVars
        /\ GivesUp => UNCHANGED rxVars
        /\ DeviceTransmits => UNCHANGED rxVars
        /\ DeviceReceives => UNCHANGED txVars
    BY DEF wait_for_used, GivesUp, DeviceTransmits, DeviceReceives
  <2>3. RxStep(air) /\ TxStep(KernelFrames)
    BY <2>1, <2>2 DEF Link, RxStep, TxStep
  <2>4. Started' <=> Started
    BY <2>1 DEF Started
  <2>5. ~Started => waiting' = waiting
    BY <2>1 DEF Link, wait_for_used, GivesUp, DeviceTransmits, DeviceReceives, txVars
  <2> QED
    BY <2>1, <2>3, <2>4, <2>5
<1>4. CASE Calls
  <2>1. /\ StackTyped' /\ UNCHANGED rxVars /\ (UNCHANGED txVars \/ Sends(KernelFrames))
        /\ dhcp' = dhcp /\ Started
    BY <1>4, CallsEffect
  <2>2. HostsTyped'
    <3>1. /\ UNCHANGED <<air, mac>> /\ leased' \subseteq leased \cup Addresses
          /\ Spend("reads") \/ Spend("sets") \/ Spend("calls")
      BY <1>4 DEF Calls, Reads, SetsIp, Binds
    <3>2. {"reads", "sets", "calls"} \subseteq Happenings
      BY DEF Happenings
    <3>3. budget' \in BudgetSet /\ 0 .. budget'.left["datagrams"] \subseteq Bytes
      BY <3>1, <3>2, SpendKeeps DEF HostsTyped
    <3> QED
      BY <3>1, <3>3 DEF HostsTyped
  <2> QED
    BY <2>1, <2>2 DEF RxStep, TxStep, Started
<1>5. ASSUME UNCHANGED stackVars, HostsTyped', RxStep(air), TxStep(KernelFrames), UNCHANGED waiting
      PROVE  /\ StackTyped' /\ HostsTyped' /\ RxStep(air) /\ TxStep(KernelFrames)
             /\ Started => Started'
             /\ ~Started /\ waiting' # waiting => Started'
  BY <1>5 DEF stackVars, StackTyped, Started
<1>6. CASE HostsHear
  <2>1. Head(out) \in KernelFrames
    BY <1>6 DEF HostsHear, TxInv, TxTyped
  <2>2. HostsTyped'
    BY <1>6, <2>1, AnswerEffect DEF HostsHear
  <2>3. UNCHANGED stackVars /\ RxStep(air) /\ TxStep(KernelFrames) /\ UNCHANGED waiting
    BY <1>6 DEF HostsHear, RxStep, TxStep, Taken
  <2> QED
    BY <1>5, <2>2, <2>3
<1>7. CASE Delivers \/ Duplicates
  <2>1. PICK f \in air : Arrives(f) /\ air' \subseteq air
                         /\ (UNCHANGED budget \/ Spend("dups"))
    BY <1>7 DEF Delivers, Duplicates
  <2>2. RxArrives(f) /\ UNCHANGED txVars /\ UNCHANGED stackVars
    BY <2>1 DEF Arrives, RxArrives
  <2>3. budget' \in BudgetSet /\ 0 .. budget'.left["datagrams"] \subseteq Bytes
    <3>1. "dups" \in Happenings
      BY DEF Happenings
    <3> QED
      BY <2>1, <3>1, SpendKeeps DEF HostsTyped
  <2>4. HostsTyped'
    BY <2>1, <2>3, Zenon DEF HostsTyped, Arrives
  <2>5. UNCHANGED waiting
    BY <2>2 DEF txVars
  <2> QED
    BY <1>5, <2>2, <2>4, <2>5 DEF RxStep, TxStep
<1>8. ASSUME UNCHANGED <<linkVars, stackVars>>, HostsTyped'
      PROVE  /\ StackTyped' /\ HostsTyped' /\ RxStep(air) /\ TxStep(KernelFrames)
             /\ Started => Started'
             /\ ~Started /\ waiting' # waiting => Started'
  BY <1>5, <1>8 DEF linkVars, RxStep, TxStep, txVars
<1>9. CASE Loses
  <2>1. "losses" \in Happenings
    BY DEF Happenings
  <2>2. budget' \in BudgetSet /\ 0 .. budget'.left["datagrams"] \subseteq Bytes
    BY <1>9, <2>1, SpendKeeps, Zenon DEF HostsTyped, Loses
  <2>3. HostsTyped'
    BY <1>9, <2>2, Zenon DEF HostsTyped, Loses
  <2> QED
    BY <1>8, <1>9, <2>3 DEF Loses
<1>10. ASSUME NEW h \in budget.speakers, Speaks(h) \/ SendsDatagram(h) \/ Moves(h)
       PROVE  UNCHANGED <<linkVars, stackVars>> /\ HostsTyped'
  <2>1. h \in Ips
    BY <1>10 DEF HostsTyped, BudgetSet
  <2>2. CASE Speaks(h)
    BY <2>1, <2>2, SpeaksEffect DEF Speaks
  <2>3. CASE SendsDatagram(h)
    BY <2>1, <2>3, DatagramEffect DEF SendsDatagram
  <2>4. CASE Moves(h)
    <3>1. "moves" \in Happenings
      BY DEF Happenings
    <3>2. budget' \in BudgetSet /\ 0 .. budget'.left["datagrams"] \subseteq Bytes
      BY <2>4, <3>1, SpendKeeps DEF HostsTyped, Moves
    <3>3. mac' \in [Ips -> Macs]
      BY <2>1, <2>4 DEF Moves, HostsTyped
    <3> QED
      BY <2>4, <3>2, <3>3 DEF HostsTyped, Moves
  <2> QED
    BY <1>10, <2>2, <2>3, <2>4, Zenon
<1> QED
  BY <1>1, <1>2, <1>3, <1>4, <1>6, <1>7, <1>8, <1>9, <1>10 DEF Next, Environment

LEMMA NetStep ==
  ASSUME NetInv, [Next]_vars
  PROVE  NetInv'
<1>1. CASE Next
  <2>1. StackTyped' /\ HostsTyped' /\ RxInv(HostFrames)' /\ TxInv(KernelFrames)'
    BY <1>1, Shape, RxKept, TxKept, Zenon DEF NetInv, HostsTyped
  <2>2. waiting' \in BOOLEAN
    <3>1. TxStep(KernelFrames)
      BY <1>1, Shape
    <3>2. waiting \in BOOLEAN
      BY Zenon DEF NetInv
    <3> QED
      BY <3>1, <3>2, Zenon DEF TxStep, txVars, Sends, net_send, wait_for_used, GivesUp, DeviceTransmits, Taken
  <2>3. waiting' => Started'
    BY <1>1, Shape DEF NetInv
  <2> QED
    BY <2>1, <2>2, <2>3 DEF NetInv
<1>2. CASE UNCHANGED vars
  <2>1. UNCHANGED linkVars /\ UNCHANGED stackVars /\ UNCHANGED worldVars
    BY <1>2 DEF vars
  <2>2. UNCHANGED rxVars /\ UNCHANGED txVars
    BY <2>1 DEF linkVars
  <2>3. RxInv(HostFrames)' /\ TxInv(KernelFrames)'
    BY <2>2, Zenon DEF NetInv, rxVars, txVars, RxInv, TxInv, TxTyped, Pending, Lag, Awaited, InCall, target
  <2>4. StackTyped' /\ HostsTyped'
    BY <2>1, Zenon DEF NetInv, stackVars, worldVars, linkVars, StackTyped, HostsTyped
  <2>5. waiting' = waiting /\ dhcp' = dhcp
    BY <2>1, <2>2 DEF txVars, stackVars
  <2> QED
    BY <2>3, <2>4, <2>5, Zenon DEF NetInv, Started
<1> QED
  BY <1>1, <1>2

\* Every variable of stack and driver stays in its type, whatever comes in: addresses,
\* DHCP states, ARP entries and sockets, and bytes that fit the sockets' buffers.
THEOREM NetTyped == Spec => []TypeOK
<1>1. NetInv => TypeOK
  <2>1. ASSUME NetInv
        PROVE  {rx_last_used, rx_avail, rx_used, rx_seen, tx_last_used, tx_avail, tx_used, tx_seen}
                 \subseteq 0 .. IdxMod - 1
    BY <2>1 DEF NetInv, RxInv, TxInv, TxTyped, Idx
  <2>2. NetInv => waiting \in BOOLEAN
    BY Zenon DEF NetInv
  <2>3. NetInv => StackTyped
    BY DEF NetInv
  <2> QED
    BY <2>1, <2>2, <2>3, Zenon DEF StackTyped, TypeOK
<1> QED
  BY <1>1, NetStart, NetStep, PTL DEF Spec

\* do_tx leaves no more frames with the device than it gave up on, besides the one it
\* waits for: with any ring size and any pace of the device.
THEOREM TxLeavesBounded == Spec => []TxBounded
<1>1. NetInv => TxBounded
  BY DEF NetInv, TxInv, TxBounded, InCall
<1> QED
  BY <1>1, NetStart, NetStep, PTL DEF Spec

\* do_rx hands over every frame the device received once, unchanged and in order.
THEOREM DriverQueues == Spec => ImplementsFrameQueue
<1>1. NetInit => FQ!Init
  BY QueueStart DEF NetInit, Init
<1>2. ASSUME NetInv, [Next]_vars
      PROVE  [FQ!Arrive \/ FQ!Deliver]_<<Received, buf>>
  <2>1. CASE Next
    BY <1>2, <2>1, Shape, QueueStep, Zenon DEF NetInv, HostsTyped
  <2>2. CASE UNCHANGED vars
    BY <2>2 DEF vars, linkVars, rxVars, Received
  <2> QED
    BY <1>2, <2>1, <2>2
<1> QED
  BY <1>1, <1>2, NetStart, NetStep, PTL DEF Spec, ImplementsFrameQueue, FQ!Spec

-----------------------------------------------------------------------------
(* The kernel's address *)

\* A grant to the kernel's own transaction is of an address in L.
Grants(f, L) ==
    f.kind = "dhcp" => (f.x.type = "ack" /\ f.x.xid = Xid => f.x.yiaddr \in L)

\* That is so of every grant on its way to the kernel, in the air, at the device or in
\* the driver's buffer.
GrantInv ==
    /\ \A f \in air : Grants(f, leased)
    /\ \A k \in 1 .. Len(inq) : Grants(inq[k], leased)
    /\ rx_used # rx_last_used => Grants(RX_BUF, leased)
    /\ AddressIsOurs

LEMMA PollAddress ==
  ASSUME StackTyped, RxInv(HostFrames), poll
  PROVE  \/ ip' = ip
         \/ /\ RX_BUF.kind = "dhcp" /\ RX_BUF.x.type = "ack" /\ RX_BUF.x.xid = Xid
            /\ ip' = RX_BUF.x.yiaddr
<1>1. CASE Dhcp(RX_BUF)
  <2>1. RX_BUF \in HostFrames /\ ~waiting /\ RX_BUF.kind = "dhcp" /\ handle_dhcp(RX_BUF.x)
    BY <1>1 DEF RxInv, poll, do_rx, Dhcp
  <2>2. RX_BUF.x \in Replies \cup Refusals
    BY <2>1, FrameFields
  <2> QED
    BY <2>1, <2>2, DhcpEffect
<1>2. CASE ~Dhcp(RX_BUF)
  BY <1>2, Zenon DEF poll, Ignored, ArpRequest, ArpReply, Echo, NotEcho, Udp, stackVars
<1> QED
  BY <1>1, <1>2

\* What the hosts add to the air grants nothing that is not leased then.
LEMMA FreshGrants ==
  ASSUME NetInv, Next
  PROVE  /\ leased \subseteq leased'
         /\ \A f \in air' : f \in air \/ Grants(f, leased')
         /\ ip' # ip => ip' \in leased' \/ Polls
<1>1. CASE HostsHear
  <2>1. PICK f \in KernelFrames : Answer(f)
    BY <1>1 DEF HostsHear, NetInv, TxInv, TxTyped
  <2>2. \A s, a : Grants(FromServer(s, "offer", Xid, a), leased')
    BY DEF Grants, FromServer, FromHost
  <2>3. \A s, a : a \in leased' => Grants(FromServer(s, "ack", Xid, a), leased')
    BY DEF Grants, FromServer, FromHost
  <2>4. \A s : Grants(FromServer(s, "nak", Xid, Zero), leased')
    BY DEF Grants, FromServer, FromHost
  <2>5. \A h, x : Grants(FromHost(h, "arp_reply", Me, x), leased')
    BY DEF Grants, FromHost
  <2>6. leased \subseteq leased' /\ \A g \in air' : g \in air \/ Grants(g, leased')
    BY <2>1, <2>2, <2>3, <2>4, <2>5 DEF Answer
  <2> QED
    BY <1>1, <2>6 DEF HostsHear, stackVars
<1>2. ASSUME NEW h \in budget.speakers, Speaks(h)
      PROVE  /\ leased' = leased /\ ip' = ip
             /\ \A f \in air' : f \in air \/ Grants(f, leased')
  <2>1. \A f \in Unasked(h) : Grants(f, leased')
    BY NamesAssumption DEF Unasked, Grants, FromServer, FromHost
  <2> QED
    BY <1>2, <2>1 DEF Speaks, stackVars
<1>3. ASSUME NEW h \in budget.speakers, SendsDatagram(h)
      PROVE  /\ leased' = leased /\ ip' = ip
             /\ \A f \in air' : f \in air \/ Grants(f, leased')
  <2>1. \A d : Grants(FromHost(h, "udp", Me, d), leased')
    BY Zenon DEF Grants, FromHost
  <2>2. PICK d : air' = air \cup {FromHost(h, "udp", Me, d)}
    BY <1>3 DEF SendsDatagram
  <2> QED
    BY <1>3, <2>1, <2>2 DEF SendsDatagram, stackVars
<1>4. ASSUME NEW h \in budget.speakers, Moves(h)
      PROVE  leased' = leased /\ ip' = ip /\ air' = air
  BY <1>4 DEF Moves, stackVars
<1>5. CASE Delivers \/ Duplicates \/ Loses
  BY <1>5 DEF Delivers, Duplicates, Loses, Arrives, stackVars
<1>6. CASE Starts \/ LinkSteps
  BY <1>6 DEF Starts, LinkSteps, dhcp_start, worldVars, stackVars
<1>7. CASE Polls
  BY <1>7 DEF Polls
<1>8. CASE Calls
  BY <1>8 DEF Calls, Reads, SetsIp, Binds, udp_recv, set_ip, udp_bind, udp_connect, udp_send, udp_close,
              stackVars
<1> QED
  BY <1>1, <1>2, <1>3, <1>4, <1>5, <1>6, <1>7, <1>8, Zenon DEF Next, Environment

LEMMA GrantStep ==
  ASSUME NetInv, GrantInv, [Next]_vars
  PROVE  GrantInv'
<1>1. CASE UNCHANGED vars
  BY <1>1 DEF vars, linkVars, rxVars, stackVars, worldVars, GrantInv, AddressIsOurs
<1>2. CASE Next
  <2>1. /\ leased \subseteq leased'
        /\ \A f \in air' : f \in air \/ Grants(f, leased')
        /\ ip' # ip => ip' \in leased' \/ Polls
    BY <1>2, FreshGrants
  <2>2. \A f : Grants(f, leased) => Grants(f, leased')
    BY <2>1 DEF Grants
  <2>3. \A f \in air' : Grants(f, leased')
    BY <2>1, <2>2 DEF GrantInv
  <2>4. RxStep(air) /\ RxInv(HostFrames) /\ air \subseteq HostFrames
    BY <1>2, Shape DEF NetInv, HostsTyped
  <2>5. /\ \A k \in 1 .. Len(inq') : Grants(inq'[k], leased')
        /\ rx_used' # rx_last_used' => Grants(RX_BUF', leased')
    <3>1. CASE UNCHANGED rxVars
      BY <2>2, <3>1 DEF rxVars, GrantInv
    <3>2. CASE do_rx
      <4>1. rx_used' = rx_last_used'
        BY <2>4, <3>2, Increment DEF do_rx, RxInv
      <4> QED
        BY <2>2, <3>2, <4>1 DEF do_rx, GrantInv
    <3>3. CASE DeviceReceives
      <4>1. /\ inq \in Seq(HostFrames) /\ inq # <<>>
            /\ inq' = Tail(inq) /\ RX_BUF' = Head(inq)
        BY <2>4, <3>3 DEF DeviceReceives, RxInv
      <4>2. /\ Len(inq') = Len(inq) - 1
            /\ \A k \in 1 .. Len(inq') : inq'[k] = inq[k + 1] /\ k + 1 \in 1 .. Len(inq)
            /\ RX_BUF' = inq[1] /\ 1 \in 1 .. Len(inq)
        BY <4>1
      <4> QED
        BY <2>2, <4>2, Zenon DEF GrantInv
    <3>4. CASE \E f \in air : RxArrives(f)
      <4>1. PICK f \in air : RxArrives(f)
        BY <3>4
      <4>2. inq \in Seq(HostFrames) /\ inq' = Append(inq, f) /\ f \in HostFrames
        BY <2>4, <4>1 DEF RxInv, RxArrives
      <4>3. ASSUME NEW k \in 1 .. Len(inq')
            PROVE  (k \in 1 .. Len(inq) /\ inq'[k] = inq[k]) \/ inq'[k] = f
        <5>1. Len(inq) \in Nat /\ Len(inq') = Len(inq) + 1
          BY <4>2
        <5>2. CASE k = Len(inq) + 1
          BY <4>2, <5>2
        <5>3. CASE k # Len(inq) + 1
          <6>1. k \in 1 .. Len(inq)
            BY <5>1, <5>3
          <6> QED
            BY <4>2, <6>1
        <5> QED
          BY <5>2, <5>3
      <4> QED
        BY <2>2, <4>1, <4>3 DEF GrantInv, RxArrives
    <3> QED
      BY <2>4, <3>1, <3>2, <3>3, <3>4 DEF RxStep
  <2>6. AddressIsOurs'
    <3>1. CASE ip' = ip
      BY <2>1, <3>1 DEF GrantInv, AddressIsOurs
    <3>2. CASE ip' # ip /\ Polls
      <4>1. poll /\ rx_used # rx_last_used
        BY <3>2 DEF Polls, poll, do_rx
      <4>2. ip' \in leased
        BY <3>2, <4>1, PollAddress, Zenon DEF GrantInv, Grants, NetInv
      <4> QED
        BY <2>1, <4>2 DEF AddressIsOurs
    <3> QED
      BY <2>1, <3>1, <3>2 DEF AddressIsOurs
  <2> QED
    BY <2>3, <2>5, <2>6, Zenon DEF GrantInv
<1> QED
  BY <1>1, <1>2

\* The kernel only ever takes an address that a server has granted to its transaction
\* or a module has set: with any number of servers and clients, whatever is lost,
\* repeated, reordered or refused.
THEOREM AddressGranted == Spec => []AddressIsOurs
<1>1. NetInit => GrantInv
  BY DEF NetInit, Init, LinkInit, GrantInv, AddressIsOurs
<1>2. GrantInv => AddressIsOurs
  BY DEF GrantInv
<1> QED
  BY <1>1, <1>2, NetStart, NetStep, GrantStep, PTL DEF Spec

-----------------------------------------------------------------------------
(* The ARP cache *)

LEMMA PollArp ==
  ASSUME poll
  PROVE  IF Teaches(RX_BUF) THEN arp' \in Insert(RX_BUF.ip, RX_BUF.src) ELSE arp' = arp
<1> DEFINE f == RX_BUF
<1>1. CASE Ignored(f)
  BY <1>1 DEF Ignored, Teaches, IpKinds, stackVars
<1>2. CASE ArpRequest(f)
  BY <1>2 DEF ArpRequest, Teaches, IpKinds, stackVars
<1>3. CASE ArpReply(f)
  BY <1>3 DEF ArpReply, Teaches
<1>4. CASE Echo(f) \/ NotEcho(f) \/ Dhcp(f) \/ Udp(f)
  <2>1. ForUs(f) /\ f.kind \in IpKinds /\ f.kind # "arp_reply" /\ arp' \in Learn(f)
    BY <1>4 DEF Echo, NotEcho, Dhcp, Udp, IpKinds
  <2> QED
    BY <2>1 DEF Learn, Teaches
<1> QED
  BY <1>1, <1>2, <1>3, <1>4 DEF poll

LEMMA ArpStep ==
  ASSUME NetInv, ArpInv, [Next]_vars
  PROVE  ArpInv'
<1>1. ASSUME UNCHANGED <<arp, heard>>
      PROVE  ArpInv'
  BY <1>1 DEF ArpInv, ArpLatest, Holders, FreeSlots
<1>2. CASE Polls
  <2>1. poll /\ StackTyped /\ RxInv(HostFrames)
    BY <1>2 DEF Polls, NetInv
  <2>2. RX_BUF \in HostFrames
    BY <2>1, PollEffect
  <2>3. RX_BUF.ip \in Ips /\ RX_BUF.src \in Macs
    BY <2>2, FrameFields
  <2>4. CASE Teaches(RX_BUF)
    <3>1. /\ arp' \in Insert(RX_BUF.ip, RX_BUF.src)
          /\ heard' = [heard EXCEPT ![RX_BUF.ip] = RX_BUF.src]
      BY <1>2, <2>1, <2>4, PollArp DEF Polls
    <3> QED
      BY <2>1, <2>3, <3>1, InsertKeeps, Zenon
  <2>5. CASE ~Teaches(RX_BUF)
    BY <1>1, <1>2, <2>1, <2>5, PollArp DEF Polls
  <2> QED
    BY <2>4, <2>5
<1>3. CASE Calls
  <2>1. arp' = arp /\ heard' = heard
    BY <1>3, CallsEffect DEF Calls, NetInv
  <2> QED
    BY <1>1, <2>1
<1>4. CASE Starts \/ LinkSteps \/ Environment \/ UNCHANGED vars
  <2>1. arp' = arp /\ heard' = heard
    BY <1>4 DEF Starts, dhcp_start, LinkSteps, Environment, HostsHear, Delivers, Duplicates, Loses, Arrives,
                Speaks, SendsDatagram, Moves, vars, stackVars, worldVars
  <2> QED
    BY <1>1, <2>1
<1> QED
  BY <1>2, <1>3, <1>4 DEF Next

\* No neighbour has two entries, each entry is what was heard last, and one that was
\* heard is missing only from a full cache: for any size of the cache.
THEOREM ArpCurrent == Spec => []ArpLatest
<1>1. NetInit => ArpInv
  BY DEF NetInit, Init, ArpInv, ArpLatest
<1>2. ArpInv => ArpLatest
  BY DEF ArpInv
<1> QED
  BY <1>1, <1>2, NetStart, NetStep, ArpStep, PTL DEF Spec
=============================================================================
