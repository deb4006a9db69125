CONSTANTS
    i1 = i1
    i2 = i2
    p1 = p1
    p2 = p2
    p3 = p3
    Item <- MCItem
    Follows = {i1}
    Request = {p1, p2, p3}
    TextsOf <- MCTextsOf
    Runner = {r1, r2}
    MaxAttempt = 2
    MaxWait = 1
    Tick = {t1, t2}
    Body = {b1, b2}
    MaxLate = 1
    MaxCrash = 1
    NoBody = NoBody
    peer = peer
    Node = {peer}
    Beater = {h1, h2}
    Cycle = {s1, s2}
    Skew <- MCSkew
    Ttl = 1
    MaxTime = 4
    Part = {object}
    Hosts = 2
    Visit = {v1, v2}
    MaxDate = 2
    Machine = {m1, m2}
    Work = {w1, key}
    SecretLike = {key}
    Base = Base
    main = main
    topic = topic
    repo = repo
    Repo = {repo}
    Branch = {main, topic}
    Upstream <- MCUpstream
    IssueOf <- MCIssueOf
    Caller = {human, agent}
    Option <- MCOption
    issue1 = issue1
    k1 = k1
    Issue = {issue1}
    Cont = {k1}
    MaxCommit = 1
    NoIssue = NoIssue
    NoCont = NoCont
    NoAnchor = NoAnchor
    openai = openai
    bearer = bearer
    magistral = magistral
    guide = guide
    magistralService = magistralService
    mcpService = mcpService
    Catalog <- MCCatalog
    Target = {magistral, guide}
    Service = {magistralService, mcpService}
    TargetsOf <- MCTargetsOf
    ServicesOf <- MCServicesOf
    Operator = {o1, o2}
    MaxRotation = 1
    Process = {q1, q2}
    MaxEdit = 1
    MaxKey = 1
SPECIFICATION Spec
SYMMETRY MCSymmetry
CHECK_DEADLOCK FALSE
INVARIANTS MachineTypeOK ReceiptTwiceOnlyIfLate PauseHonest StaleOnlyIfDropped
PROPERTIES TickKept MobileIsAuthorizedEffect
PROPERTIES PeersCurrent PackHonest WipKept RewriteKeepsTheRest
