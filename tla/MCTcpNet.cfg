CONSTANTS
    MAX_SOCKETS = 2
    MAX_ARP_ENTRIES = 2
    MAX_TCP_PAYLOAD = 2
    SeqMod = 1002
    Ips = {peer, stranger}
    NoIp = NoIp
    RemotePorts = {7, 8}
    ListenPorts = {80}
    Bytes = {1, 2}
    NoSocket = NoSocket
    Peer = peer
    Stranger = stranger
    PeerPort = 7
    StrangerPort = 8
    PeerIsn = 1001
    PeerLen = 2
    KernelLen = 2
    MaxWire = 2
    MaxEvents = 1
SPECIFICATION NetSpec
CHECK_DEADLOCK FALSE
INVARIANTS UniqueConnections PeerGetsPrefix  
PROPERTIES HandshakeCompletes ActiveCloseCompletes
