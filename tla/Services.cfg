SPECIFICATION Spec
CONSTANTS
    o1 = o1
    c1 = c1
    c2 = c2
    h1 = h1
    h2 = h2
    a1 = a1
    s1 = s1
    s2 = s2
    g1 = g1
    g2 = g2
    g3 = g3
    r1 = r1
    r2 = r2
    Restorers = {o1}
    MaxBackups = 2
    MaxCrons = 2
    MaxWrites = 1
    BatchSize = 2
    MaxEntries = 5
    MaxAllowed = 2
    Interval = 3
    MinElapsed = 0
    MaxTime = 6
    Calls = {h1, h2}
    Bodies = {"answers", "loops", "broken", "waits", "spins"}
    MaxVersions = 2
    Channels = {c1, c2}
    AuthCalls = {a1}
    MaxSession = 1
    MaxSockets = 2
    Savers = {s1, s2}
    HookHandlers <- MCHandlers
    BindHooks = {"create", "createExecute", "delete"}
    MaxBinds = 2
    Keys = {1, 2}
    Getters = {g1, g2, g3}
    MaxValues = 2
    Ids = {1, 2}
    Requests = {r1, r2}
    Shapes <- MCShapes
    Faults = {"42501"}
    Publishes = TRUE
    QueryRows <- MCRows
    FilterCalls <- MCCalls
    MaxCalls = 2
    Windows <- MCWindows
    Collation <- MCCollation
    Locale <- MCLocale
    NumberOf <- MCNumberOf
    ForeignKeys <- MCKeys
    Snapshots <- MCSnapshots
    Selects <- MCSelects
    Root = "tasks"
    Drafts <- MCDrafts
    MaxSyncs = 3
    CollectionIds = {"c1", "c2"}
    Patchers = {r1, r2}
    Patches <- MCPatches
    Imports <- MCImports
    MaxSaves = 3
    FieldTable <- MCFieldTable
    IsAuth = TRUE
    RecordValues = {"true"}
    MaxEdits = 3
    FormFields <- MCFormFields
    FormBodies <- MCFormBodies
    MaxFormSteps = 4
    UserIds = {"u1", "u2"}
    UserBodies <- MCUserBodies
    Askers = {r1, r2}
    UserRules <- MCUserRules
    TokenSecret <- MCTokenSecret
    MaxAsked = 4
    FilterRows <- MCFilterRows
    Comparisons <- MCComparisons
    MaxComparisons = 3
    FilterLimit = 2
    Sorts <- MCSorts
    PathFields <- MCPathFields
    OfAccounts = TRUE
    AllowHidden = FALSE
    AuthId = "u2"
    BodyIds <- MCBodyIds
    RequestData <- MCRequestData
    RequestKeys <- MCRequestKeys
    Tables <- MCAccounts
    MaxNestedRels = 2
    MaxPaths = 2
    FieldSettings <- MCFieldSettings
    GivenValues <- MCGivenValues
    BadNames = {"expand"}
    NoneGiven = NoneGiven
    Malformed = Malformed
    CronFields <- MCCronFields
    Clock <- MCClock
    CronMacros <- MCCronMacros
    CronTexts <- MCCronTexts
    CronIds = {"j1", "j2"}
    Instants = 2
    Intervals = {2, 4}
    MaxChanges = 4
    MaxInstant = 6
    Visitors = {r1, r2}
    Visits <- MCVisits
    Payloads <- MCPayloads
    AllowOrigins <- MCAllowOrigins
    Anything = Anything
    OriginPatterns <- MCOriginPatterns
    OriginFunc = NoAccount
    Credentials = FALSE
    Certificates <- MCCertificates
    MaxBody = 3
    MaxVisits = 2
    NoAccount = NoAccount
    Contexts <- MCContexts
    BucketNames = {"b"}
    ObjectNames <- MCObjectNames
    Listings <- MCListings
    Sizes = {1, 2}
    Types = {"t"}
    TypeOf <- MCTypeOf
    Settings <- MCBucketSettings
    NoLimit = NoLimit
    NoUser = NoUser
    NoneThere = NoneThere
    Links = {g1}
    MaxUploadBytes = 1
    DefaultSignedBytes = 1
    Readers = {r1}
    Forms <- MCForms
    Lengths = {0, 17}
    Threshold = 8
    MaxUpload = 16
    Piece = 6
    ObjectSizes = {1, 4}
    Starters = {r1, r2}
    RoleOrder <- MCRoleOrder
    ListedIds <- MCListedIds
    ListedNames <- MCListedNames
    LowerOf <- MCLowerOf
    RowIds = {"r1"}
    Finders = {"f1"}
    Sought <- MCSought
    Claims <- MCClaims
    NoClaim = "none"
    ExpandLists <- MCExpandLists
    RelationFields = {"a"}
    Conditions <- MCConditions
    MaxListed = 2
    Mails = {"m1", "m2"}
    Passwords = {"w1", "w2"}
    NotGiven = "none"
    UserCalls = {"h1", "h2"}
    MaxPeople = 2
    MaxPatches = 2
    ConnIds = {"k1", "k2"}
    Topics = {"t1", "any"}
    AnyTopic = "any"
    Options = {"none", "o1"}
    NoOption = "none"
    MaxConns = 3
    MaxCasts = 2
    MaxCalled = 5
INVARIANTS
    TypeOK
    BackupsHold
    RowsInOrder
    OldCredentialsStop
    HooksAndStores
    RequestsHold
    DataHold
    MeaningsHold
CHECK_DEADLOCK FALSE
