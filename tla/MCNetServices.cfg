SPECIFICATION Spec
CONSTANTS
    s1 = s1
    s2 = s2
    a1 = a1
    a2 = a2
    m1 = m1
    m2 = m2
    m3 = m3
    IdxMod = 4
    NoFrame = NoFrame
    MaxLate = 1
    Me = Me
    Broadcast = Broadcast
    Zero = Zero
    AllHosts = AllHosts
    Ips = {s1, s2}
    Macs = {m1, m2, m3}
    Addresses = {a1, a2}
    Ports = {7, 9}
    Xid = xid
    OtherXid = oxid
    Bytes = {0, 1, 2}
    MAX_SOCKETS = 2
    MAX_ARP_ENTRIES = 1
    MAX_UDP_PAYLOAD = 2
    NoEntry = NoEntry
    NoSocket = NoSocket
    FirstMac <- MCFirstMac
    MaxQueue = 1
    Lease <- MCLease
    Budgets <- MCBudgets
    Payloads = {1, 3}
    Pads = {0, 1}
    Caps = {1, 2}
CHECK_DEADLOCK FALSE
INVARIANT AddressIsOurs
INVARIANT ArpLatest
INVARIANT ReadsAreArrivals
INVARIANT TxBounded
PROPERTY ImplementsFrameQueue
PROPERTY DhcpBinds
