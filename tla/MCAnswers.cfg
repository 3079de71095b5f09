SPECIFICATION Spec
CONSTANTS
    Shas = {1, 2, 3}
    Hashes = {1, 2, 3}
    H2Lines = {"## One", "## Two"}
    Bodies <- MCBodies
    Longest = 2
    Letters = {"a", "b", "c"}
    LongestRun = 4
    Values <- MCValues
    Paths = {"page", "Page"}
    Twins = {"page", "Page"}
    Knowledge = {"page"}
    Text <- MCText
    c1 = c1
    c2 = c2
    h1 = h1
    h2 = h2
    p = p
    q = q
    Clones = {}
    Peers = {w}
    Pages = {p, q}
    Contents = {c1, c2}
    Headings <- MCHeadings
    Ops = {"page", "at", "pull", "diff", "evolution"}
    Fallback = 1
    Limit = 2
    BlameCap = 3
    Builds = {"new", "old"}
    Wipes = TRUE
    MaxCommits = 4
    Servers = {hosted, own}
    Hosted = hosted
    Unset = Unset
    Absent = Absent
    Torn = Torn
    Faults = {"crash", "io"}
SYMMETRY Swap
INVARIANTS
    ClassifySound
    DiffReplays
    BothChangedListed
    CodesSurvive
    StatusTruthful
    AnswersSound
    NeverHeadForHistory
    NeighboursOnly
    PullGetsAll
    LoginSound
    HostedStaysHome
PROPERTIES
    ReplyIsOwn
CHECK_DEADLOCK FALSE
