SPECIFICATION FairSpecWithFailures
CONSTANTS
    Users = {u1}
    Subs = {s1}
    Payments = {q1}
    Preapprovals = {m1}
    Plans = {monthly}
    Period <- OneDay
    TrialDays <- OneDayTrial
    Grace = 1
    StaleAge = 1
    Workers = {w1}
    Jobs = {"subscriptionRenewPreapproval", "expiredCancelledSubs", "expiredTrials"}
    Entries = {"mp_subscription", "cancel", "webhook", "failure"}
    None = None
    Opaque = Opaque
INVARIANTS IInv CreditIsBounded
PROPERTIES ExpiryIsNoticed
