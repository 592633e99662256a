CONSTANTS
    r1 = r1 r2 = r2 r3 = r3 recv = recv cli = cli f1 = f1 f2 = f2
    \* ArpTable
    ArpIp = {ip1}
    ArpMac = {m1, m2}
    ArpNulMac = {m2}
    ArpThread = {recv, cli}
    ArpReceiver = recv
    ArpExpTime = 2
    ArpMaxPending = 3
    ArpMaxReplies = 2
    \* L2Switch
    SwIntf = {eth0, eth1}
    SwMac = {m1, m2}
    SwVlan = {10, 11, 300}
    SwVlanMax = 2
    SwFull = FALSE
    \* Transport
    TrNode <- MCTrNode
    TrIntf <- MCTrIntf
    TrOther <- MCTrOther
    TrThread = {recv, cli}
    TrReceiver = recv
    TrFrame = {f1, f2}
    TrOffers <- MCTrOffers
    TrTouched <- MCTrTouched
    TrUnbound = {r3}
    TrGenerator <- MCTrGenerator
    TrSocketBuffer = 1
    \* CommandParser
    CliNode = {n1, n2}
    CliOther = other
    CliMaxNest = 2
    CliMaxBuf = 1
    \* Tracing
    LgNode = {r1, r2}
    LgIntf <- MCLgIntf
    LgConsole = console
    LgOffers <- MCLgOffers
SPECIFICATION Safety
PROPERTIES
    SwLearns
CHECK_DEADLOCK FALSE
