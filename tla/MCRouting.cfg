CONSTANTS
    none = none nr = nr np = np ns = ns nq = nq nu = nu nt = nt
    rp = rp rs = rs ps = ps pq = pq sq = sq pt = pt qt = qt ru1 = ru1 ru2 = ru2 ut = ut
    \* RoutingTable, Spf and Forwarding
    RtNode <- MCNode
    RtLink <- MCLink
    RtEnds <- MCEnds
    RtMaxNxtHops = 4
    RtStarts <- MCStarts
    RtLoopbackNet = lo
    RtNoHop = none
    RtText = text
    SpfOrder <- MCOrder
    SpfSlots <- MCSlots
    SpfInfinite = 100
    SpfMaxMetric = 4
    SpfMetrics = {1, 2}
    SpfSetups <- MCSetups
    SpfTouched <- MCTouched
    SpfRuns = {nr}
    FwTtl = 3
    FwPings <- MCPings
    FwRoutes <- MCRoutes
    \* GlThread and AvlTree
    GlItem = {e1, e2, e3, e4}
    GlHead = head
    GlNull = null
    GlKey = {1, 2}
    AvKey = {1, 2, 3, 4, 5, 6, 7, 8, 9}
SPECIFICATION Spec
INVARIANTS
    RoutingTypeOK
    RtSound RtOwnKept SpfHeld SpfCorrect FwConverged
    GlSound
    AvSound AvCleans
PROPERTY FwEnds
CHECK_DEADLOCK FALSE
