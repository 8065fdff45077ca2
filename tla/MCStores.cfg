SPECIFICATION StoresSpec
CONSTANTS
    Contents = {a}
    Tasks = {t1, t2}
    Syncs = {s1, s2}
    MaxRank = 2
    Complete = 2
    RankLimit = 2
    MaxDay = 1
    WeeklyFetches = 3
    DailyFetches = 2
    Values = {1, 2}
    Intents <- RawIntents
    Contexts <- KnownUsers
    Catalogs <- Stocks
    Enough = 2
    SearchLimit = 3
    CardLimit = 2
    Sources = {k1, k2}
    Alike = {a}
    Recent = {a}
    Popular = {a}
    RelatedEntries = 1
    TTL = 2
    Slots = 2
    FreshSlots = 1
    Persons = {p1, p2, p3}
    Requests = {r1, r2}
    Sizes = {1, 2, 4}
    PersonEntries = 2
    MaxBytes = 3
    RetryCount = 1
    Tabs = {t1, t2}
    Identities = {i1, i2}
    OneIdentity = {i1}
    Nicknames = {n1, n2}
    OneNickname = {n1}
    MaxFlows = 1
    Nobody = Nobody
    ImageRequests = {r1, r2}
    ImageKeys = {k1, k2, k3}
    TitleWrites = 2
    TitleFailures = 1
    Readers = {u1, u2}
    Moderators = {u2}
    Written = {r1}
    ListLoads = 2
    Years = {1, 2}
    ThisYear = 2
    Wanted = {w1, w2}
    PieceLimit = 1
    ShelfRequests = 4
    ShelfChanges = 1
    Commenters = {"user", "admin"}
    Take = 1
    MaxComments = 2
    ThreadRequests = 3
    Members = {1, 2, 3}
    Staff = {1}
    Searches = {{1, 2, 3}, {1, 2}}
    UserLimit = 1
    UserRequests = 3
    Blockable = {b1, b2, b3}
    Works = {b1, b2}
    BlockLimit = 1
    BlockRequests = 3
INVARIANTS
    TypesOK
    ListIsWhole
    RequestIsKept
    BlockedAgesOut
    DecisionStands
    FilterKnowsDecisions
    BytesCounted
    OneAccountEach
    PagesAgree
CHECK_DEADLOCK FALSE
