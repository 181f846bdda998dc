SPECIFICATION ServicesSpec
CONSTANTS
    Conn = {"c1", "c2"}
    Recorder = {"r1", "r2"}
    MaxNow = 3
    Goroutine = {"g1", "g2"}
    Poll = {"p1"}
    MaxReport = 3
    Request = {"q1", "q2"}
    KeyCount = 2
    AnonCount = 1
    Period = 3
    SweepAfter = 1
    MaxTick = 5
    MaxTakes = 5
    Spender = {"q1", "q2"}
    TokenBudget = 1
    Costs = {1}
    Window = 2
    Fresh = 1
    MaxDay = 3
    MaxRows = 2
    Exchange = {"x1", "x2"}
    ClientOf <- MCClientOf
    ChunksOf <- MCChunksOf
    MemBudget = 1
    QueueMax = 1
    Worker = {w1}
    Backoff = 1
    MaxTalk = 3
    MaxFiled = 2
    MaxTitleTick = 2
    Accounts = {a1, a2}
    None = None
    MaxAttempts = 3
    KeepaliveEvery = 1
    ProgressGap = 2
    StallTimeout = 4
    HoldContentEvents = 3
    Streaming = TRUE
    Kinds <- MCKinds
    Name = {"large", "x"}
    Binding = {"claude:opus", "m1"}
    Opus = "claude:opus"
    Page = {"h1"}
    Agents = {"h2"}
    MaxSlot = 1
    MaxMade = 1
    MaxFlips = 1
    Browser = {b1, b2}
    Shell = {s1}
    Places = 1
    LoginLink = {"l1"}
    MaxPassword = 2
    Answering <- MCAnswering
    Stated <- MCStated
    MaxPending = 16
    MaxChunk = 8
    MaxWhole = 16
    Contents <- MCContents
    Filters <- MCFilters
    PageSize = 1
    KeepDays = 0
    NameOf <- MCNameOf
    FacetsFor = 1
    MaxLogged = 2
    MaxLogTick = 2
    Setting <- MCSetting
    Tab = {b1, b2}
    MaxSignIns = 2
    CompactionFloor = 9
    BigEnough = 3
    ListedEvents = 3
    MaxCounts = 2
    MaxEvents = 3
    MaxCompacted = 1
VIEW ServicesView
INVARIANTS
    DrainSound
    EndsAtNewest
    LimitsKept
    FigureIsHonest
    RecordingsSound
    AnsweredRight
    FairBlame
    NeverKeptWaiting
    ConsoleSound
PROPERTIES
    AvailabilitySound
    TitlesKeepTheirPlace
    NamesSound
CHECK_DEADLOCK FALSE
