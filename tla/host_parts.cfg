CONSTANTS
    Job = {j1, j2}
    MaxRenew = 1
    MaxJob = 3
    NoArchive = NoArchive
    Setup = {x1, x2}
    MaxSetup = 4
    MaxTypo = 1
    Deployer = {d1, d2}
    MaxDeploy = 2
    Admin = {e1, e2}
    MaxIssue = 2
    MaxChange = 2
    node1 = node1
    node2 = node2
    Opener = {o1, o2}
    NodeId = {node1, node2}
    Configured = node1
    Seeded = loc
    NoRow = NoRow
    Version = {1, 2}
    MaxSql = 2
    MaxSnapshots = 1
    MaxTraffic = 2
    dns = dns
    judgment = judgment
    Scheduler = {c1, c2}
    Obligation = {dns, judgment}
    Packet <- MCPacket
    WakeFile <- MCWakeFile
    Legacy <- MCLegacy
    NoRef = NoRef
    NoPacket = NoPacket
    NoTime = NoTime
    MaxCall = 4
    MaxDeath = 1
    Run = {r1, r2}
    MaxBearer = 2
    MaxReport = 3
    always = always
    laptopNode = laptopNode
    Target <- MCTarget
    Intermittent = {laptopNode}
    Pinned = {always}
    Watcher = {w1, w2}
    Concurrency = 2
    MaxHead = 1
    MaxTurn = 1
    MaxWatch = 2
    NoAnswer = NoAnswer
    Probes = {"guide_semantic", "gateway", "aggregator"}
    Possible = {"registry", "sick", "gateway", "tool_host"}
    MaxFault = 1
    MaxCrash = 1
    NoBody = NoBody
    MaxVersion = 1
    MaxPoll = 2
    MaxMount = 2
    Missing = Missing
SPECIFICATION Spec
SYMMETRY MCSymmetry
CHECK_DEADLOCK FALSE
INVARIANTS HostTypeOK RowFromLog BearerReportsTrue DeploymentsKept VerdictExact
PROPERTIES MailHostKept MagistralKept MemoryKept ObservationHonest ConsoleHonest
