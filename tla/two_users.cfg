SPECIFICATION Spec
CONSTANTS
    Users = {u1, u2}
    Subs = {s1, s2}
    Payments = {q1}
    Preapprovals = {m1}
    Plans = {monthly}
    Period <- OneDay
    TrialDays <- NoTrial
    Grace = 1
    StaleAge = 1
    Workers = {w1}
    Jobs = {}
    Entries = {"subscribeWithBricks", "webhook", "failure"}
    None = None
    Opaque = Opaque
INVARIANTS LinkedPreapprovalIsOwn
PROPERTIES KeepsPromise
SYMMETRY Symmetry
