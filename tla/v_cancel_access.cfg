SPECIFICATION Spec
CONSTANTS
    Users = {u1}
    Subs = {s1}
    Payments = {q1}
    Preapprovals = {m1}
    Plans = {monthly}
    Period <- OneDay
    TrialDays <- NoTrial
    Grace = 1
    StaleAge = 1
    Workers = {w1}
    Jobs = {}
    Entries = {"subscribeWithBricks", "cancel", "webhook"}
    None = None
    Opaque = Opaque
PROPERTIES CancelledKeepsAccess
