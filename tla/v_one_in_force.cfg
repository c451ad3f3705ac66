SPECIFICATION Spec
CONSTANTS
    Users = {u1}
    Subs = {s1, s2}
    Payments = {}
    Preapprovals = {m1, m2}
    Plans = {monthly}
    Period <- OneDay
    TrialDays <- NoTrial
    Grace = 1
    StaleAge = 1
    Workers = {w1, w2}
    Jobs = {}
    Entries = {"subscribeWithBricks"}
    None = None
    Opaque = Opaque
INVARIANTS OneInForce
