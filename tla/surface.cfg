SPECIFICATION SurfaceSpec
CONSTANTS
    Reader = {"r1"}
    Refresher = "bg"
    Subscription = {"a", "b"}
    Serving <- MCServing
    DefaultProvider = "p"
    Catalogue = {"m"}
    Listings = {{"m"}, {"n"}}
    NewestTTL = 1
    ListRetry = 1
    MaxListTick = 2
    MaxChanges = 1
    Account = {"a1", "a2", "b1"}
    Vendor <- MCVendor
    FirstVendor = "anthropic"
    Model = {"o1", "o2", "s1"}
    FamilyIn <- MCFamilyIn
    VendorOfFamily <- MCVendorOfFamily
    PrefixOf <- MCPrefixOf
    Newer <- MCNewer
    SaysOf <- MCSaysOf
    NoFamily = "none"
    MaxFlips = 3
    MaxItems = 2
    Replies = {done}
    ClientTools <- LongNames
    DeferredTools = {"long2"}
    Shortened <- MCShortened
    UserParts = {"text", "reference"}
    Habits <- MCHabits
    StoreMax = 2
    MaxParts = 2
    MaxMade = 3
    MaxTurns = 3
    Handler = {h1, h2}
    MaxSecret = 2
    MaxAgentLinks = 1
    Outbound = {"c1", "c2"}
    Bodies <- MCBodies
    Edge <- MCEdge
    Weight <- MCWeight
    ManyImages = 1
    CacheMax = 3
    Answers <- MCAnswers
    MaxNameBuffer = 9
    Inbound = {"q1"}
    Shapes <- MCShapes
    Real = {"m1","m2","m3"}
    Family = "fam"
    Versions = {"m1","m2"}
    OutCap <- MCOutCap
    Speaks <- MCSpeaks
    MaxTries = 2
    MaxTurned = 1
    Clients <- MCClients
    Toolsets <- MCToolsets
    Fitting <- MCFitting
    AnswerShapes <- MCAnswerShapes
    MaxSpoken = 6
    MaxMarks = 7
    MaxHeldPieces = 2
    MaxUpPieces = 3
    Every = 2
    Tolerance = 5
    History = 9
    BarLength = 4
    CacheFor = 1
    MaxIncidents = 2
    MaxClock = 12
    MaxHappenings = 2
    Paid = {"a1", "a2"}
    Reading = {"s1"}
    StreakAt = 2
    RateMin = 3
    MaxTrouble = 2
    RowsSeen <- MCRowsSeen
    Subscribed = {"c1", "o1", "g1"}
    VendorFor <- MCVendorFor
    Allowances <- MCAllowances
    Spenders = {"k1", "k2"}
    MaxSpending = 2
    RefusedModels = {"m1", "m2"}
    DelaysTold <- MCDelaysTold
    MaxTurnsOfFate = 2
    CatalogIds <- MCCatalogIds
    OfferedLists <- MCOfferedLists
    PickerOrders <- MCPickerOrders
    MaxListings = 1
    Parts = {"lists", "routes", "answer", "talk", "setup", "named", "sinks", "refusals", "passes", "inference", "turns", "tests", "uptime", "notices", "plans"}
VIEW SurfaceView
INVARIANTS
    RoutesSound
    AnswersSound
    NextTurnKept
    SetupSound
    RequestsSound
    PagesSound
PROPERTIES
    ListsSound
CHECK_DEADLOCK FALSE
