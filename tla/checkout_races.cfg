SPECIFICATION Spec
CONSTANTS
    Users = {u1}
    Subs = {s1, s2}
    Payments = {q1}
    Preapprovals = {}
    Plans = {monthly}
    Period <- OneDay
    TrialDays <- NoTrial
    Grace = 1
    StaleAge = 1
    Workers = {w1, w2}
    Jobs = {}
    Entries = {"mp_checkout", "payLink", "payWithBricks", "cancel", "webhook"}
    None = None
    Opaque = Opaque
INVARIANTS TypeOK InForceIsConfirmed LedgerIsTrue
PROPERTIES LedgerIsAppendOnly KeepsPromise
SYMMETRY Symmetry
