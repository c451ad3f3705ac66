SPECIFICATION FairSpecWithFailures
CONSTANTS
    Users = {u1}
    Subs = {s1}
    Payments = {q1}
    Preapprovals = {}
    Plans = {monthly}
    Period <- OneDay
    TrialDays <- NoTrial
    Grace = 0
    StaleAge = 1
    Workers = {w1}
    Jobs = {"subscriptionRenewals", "cancelStalePendingSubscriptions", "expiredCancelledSubs"}
    Entries = {"mp_checkout", "subscribeWithBricks", "payLink", "cancel", "webhook", "failure"}
    None = None
    Opaque = Opaque
INVARIANTS IInv CreditIsBounded
PROPERTIES ExpiryIsNoticed NoAccessForFree AbandonedIsClosed
