SPECIFICATION FairCommunitySpec
CONSTANTS
    Users = {u1}
    Admins = {}
    Professionals = {u1}
    Rubros = {}
    Groups = {g1}
    RubroOf <- MCRubroOf
    General = General
    NoRubro = NoRubro
    PostIds = {1, 2}
    CommentIds = {}
    Kinds = {"LIKE"}
    MaxClock = 1
    Handlers = {h1}
    FreePostsPerMonth = 2
    FreeVisiblePosts = 1
    MonthLength = 2
    ImageIds = {}
    MaxImagesPerEntity = 1
    PageSize = 1
    NoRow = NoRow
    Devices = {d1}
    Nobody = Nobody
    Runs = {r1, r2}
    MaxStops = 1
    Scenarios <- MCScenarios
PROPERTIES AnnouncedOnce PushKeepsBadges DigestReachesReader
CHECK_DEADLOCK FALSE
