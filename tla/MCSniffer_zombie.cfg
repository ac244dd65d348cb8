CONSTANTS
    Clients = {c1, c2}
    Ports = {80}
    Addrs = {1, 2}
    PortNums = {80, 81, 3133}
    PacketIds <- MCPacketIds
    PacketFlags <- MCPacketFlags
    QueueCap = 1
    DataCap = 1
    MaxClientCmds = 3
    MaxPackets = 0
    MaxSessions = 1
SPECIFICATION FairSpec
PROPERTY AllGoneClearsFilter
