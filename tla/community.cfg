SPECIFICATION CommunitySpec
CONSTANTS
    Users = {u1, a1}
    Admins = {a1}
    Professionals = {u1}
    Rubros = {law}
    Groups = {g1}
    RubroOf <- MCRubroOf
    General = General
    NoRubro = NoRubro
    PostIds = {1, 2, 3}
    CommentIds = {1}
    Kinds = {"LIKE"}
    MaxClock = 2
    Handlers = {h1, h2}
    FreePostsPerMonth = 1
    FreeVisiblePosts = 1
    MonthLength = 2
    ImageIds = {1, 2}
    MaxImagesPerEntity = 1
    PageSize = 1
    NoRow = NoRow
    Devices = {d1}
    Nobody = Nobody
    Runs = {r1, r2}
    MaxStops = 1
    Scenarios <- MCScenarios
INVARIANTS FeedTypeOK FeedWalkIsExact FeedIsReadable LimitsHoldUpToRaces
CHECK_DEADLOCK FALSE
SYMMETRY MCSymmetry
