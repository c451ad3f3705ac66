CONSTANTS
    Scenarios <- MCScenarios
    Handlers = {h1, h2}
    People = {ana, beto}
    MessageIds = {1, 2, 3}
    Take = 2
    Applicants = {ana, beto}
    JobIds = {j1}
    MaxVisits = 2
    CategoriesOf <- MCCategoriesOf
    RubrosOf <- MCRubrosOf
    FieldIds = {1, 2, 3}
    MaxSubmissions = 1
    MaxOrder = 3
    CategoryIds = {1, 2, 3}
    Slugs = {s1, s2, s3}
    NoParent = 0
    Practised = {2}
    DiscountIds = {1, 2}
    OfferIds = {1, 2}
    LastDay = 3
    DiscountRuns = {1, 2}
    OfferDays = {1, 2}
    OfferForms = {{"from"}, {"active"}}
    MaxUses = 1
    MaxFailures = 1
    Jobs = {renew}
    Executions = {1, 2}
    MaxStarts = 2
    Sources = {gob, other}
    Postings = {offer, untitled}
    Blank = {untitled}
    PerPage = 1
    BoardSize = 2
    RowIds = {1, 2}
    Users = {1, 2}
    Addresses = {"one@", "two@"}
    Words = {"word"}
    MaxTokens = 2
    TrialDays = 7
    TrialOnApproval = TRUE
    FileIds = {1, 2, 3, 4}
SPECIFICATION Spec
INVARIANTS
    PlatformTypeOK
    BadgeMatchesThread
    JobTalliesAreTrue
    FieldOrdersClashOnlyInRaces
    TreeIsSound
    LowPriceIsAccountedFor
    OverlapsComeFromRaces
    UsesStayNearLimit
    ExecutionsTellTheTruth
    SyncIsWhole
    ResetLinkWorksOnce
    TrialGoesWithVerification
    ListingsFollowReview
    PayerStaysListed
    
PROPERTIES
    HiddenByItsSide
    ExpiredIsRestored
CHECK_DEADLOCK FALSE
