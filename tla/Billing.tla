------------------------------ MODULE Billing ------------------------------
(***************************************************************************)
(* The state the billing code of the backend reads and writes, and the     *)
(* vocabulary its handlers share.                                          *)
(*                                                                         *)
(* No handler of the billing code runs in a database transaction: every    *)
(* "await" lets another request, webhook or cron run.  A process is        *)
(* therefore a record holding the await it is about to execute ("pc") and  *)
(* the values it read earlier, and an action is one database or gateway    *)
(* round trip of one process.                                              *)
(*                                                                         *)
(* Dates are counted from today: a date is the number of days left until   *)
(* it, and 0 once it has passed.  Tick is the day going by.  The same      *)
(* states recur for ever, so no run needs a last day.                      *)
(***************************************************************************)
EXTENDS Integers, FiniteSets

CONSTANTS
    Users,          \* professionals, each with one profile
    Subs,           \* ids of rows of the table subscriptions
    Payments,       \* ids of payments at MercadoPago
    Preapprovals,   \* ids of recurring charges at MercadoPago
    Plans,          \* subscription plans
    Period,         \* plan -> days one payment buys
    TrialDays,      \* plan -> days of free trial
    Grace,          \* SUBSCRIPTION_GRACE_DAYS
    StaleAge,       \* PENDING_SUBSCRIPTION_MAX_AGE_DAYS
    Workers,        \* requests and webhooks the server handles at once
    Jobs,           \* cron jobs that are registered
    Entries,        \* entry points an instance exercises
    None,           \* SQL null
    Opaque          \* an externalId no query looks up (preference, payment)

Kinds     == {"mp_checkout", "mp_subscription",
              "mp_bricks", "mp_bricks_subscription"}
Recurring == {"mp_subscription", "mp_bricks_subscription"}
OneOff    == Kinds \ Recurring

JobNames == {"subscriptionRenewals", "cancelStalePendingSubscriptions",
             "expiredTrials", "expiredCancelledSubs",
             "subscriptionRenewPreapproval"}

SubStates         == {"none", "pending", "authorized", "active", "paused",
                      "cancelled"}
ProfileStates     == {"onboarding", "waiting_payment", "active"}
PaymentStates     == {"none", "pending", "approved", "rejected"}
PreapprovalStates == {"none", "pending", "authorized", "paused", "cancelled"}

ASSUME PlansAssumption ==
    /\ Period \in [Plans -> Nat \ {0}]
    /\ TrialDays \in [Plans -> Nat]
    /\ Grace \in Nat
    /\ StaleAge \in Nat \ {0}

ASSUME JobsAssumption == Jobs \subseteq JobNames

ASSUME NullAssumption ==
    /\ None \notin Users \cup Subs \cup Payments \cup Preapprovals \cup Plans
    /\ None \notin Kinds \cup Nat
    /\ Opaque \notin Preapprovals \cup {None}

Procs == Workers \cup Jobs

VARIABLES
    sub,            \* table subscriptions
    profile,        \* table professional_profiles
    row,            \* table subscription_payments, by externalId
    payment,        \* payments, at MercadoPago
    preapproval,    \* preapprovals, at MercadoPago
    links,          \* subscriptions with a checkout preference at MercadoPago
    proc            \* the requests, webhooks and jobs in flight

vars == <<sub, profile, row, payment, preapproval, links, proc>>

Days    == Nat
Date    == Days \cup {None}
Passed(d) == d # None /\ d <= 0

(***************************************************************************)
(* What the variables hold.                                                *)
(***************************************************************************)
SubRecord ==
    [status : SubStates, user : Users \cup {None}, plan : Plans \cup {None},
     kind : Kinds \cup {None}, ext : Preapprovals \cup {None, Opaque},
     end : Date, link : BOOLEAN, age : 0 .. StaleAge]

ProfileRecord ==
    [status : ProfileStates, isActive : BOOLEAN, trial : Date]

RowRecord ==
    [status : {"none", "sub_approved", "sub_rejected"},
     sub : Subs \cup {None}]

PaymentRecord ==
    [state : PaymentStates, sub : Subs \cup {None},
     pre : Preapprovals \cup {None}]

PreapprovalRecord ==
    [state : PreapprovalStates, sub : Subs \cup {None},
     plan : Plans \cup {None}, ref : BOOLEAN, confirmed : BOOLEAN,
     next : Days, trial : Days]

Labels == {"idle",
    "createPending", "createInsert", "createGateway", "createFailed",
    "createSave", "createProfile",
    "bricksPending", "bricksUpsert", "bricksCharge", "bricksSaveExt",
    "bricksReject",
    "subscribeGateway", "subscribeSave", "subscribeProfile",
    "cancelGateway", "cancelSave",
    "findRow", "findByExt", "createRow", "activate", "activateProfile",
    "findPreapproval", "linkExt", "writeStatus", "trialEnd",
    "suspendProfile",
    "renewNext", "renewSave", "renewProfile", "staleCancel",
    "lapsedNext", "lapsedProfile",
    "preapprovalNext", "preapprovalSave", "preapprovalProfile"}

(* What a handler does with a payment once it is in the ledger.            *)
Continuations == {"activate", "renew", "reject", "done"}

ProcRecord ==
    [pc : Labels, user : Users \cup {None}, sid : Subs \cup {None},
     plan : Plans \cup {None}, kind : Kinds \cup {None},
     pay : Payments \cup {None}, pre : Preapprovals \cup {None},
     ext : Preapprovals \cup {None, Opaque},
     seen : PaymentStates \cup PreapprovalStates, then : Continuations,
     again : BOOLEAN, end : Date, todo : SUBSET Subs]

NoSub  == [status |-> "none", user |-> None, plan |-> None, kind |-> None,
           ext |-> None, end |-> None, link |-> FALSE, age |-> 0]
NoRow  == [status |-> "none", sub |-> None]
NoPayment     == [state |-> "none", sub |-> None, pre |-> None]
NoPreapproval == [state |-> "none", sub |-> None, plan |-> None,
                  ref |-> FALSE, confirmed |-> FALSE, next |-> 0,
                  trial |-> 0]
Idle   == [pc |-> "idle", user |-> None, sid |-> None, plan |-> None,
           kind |-> None, pay |-> None, pre |-> None, ext |-> None,
           seen |-> "none", then |-> "done", again |-> FALSE, end |-> None,
           todo |-> {}]

TypeOK ==
    /\ sub \in [Subs -> SubRecord]
    /\ profile \in [Users -> ProfileRecord]
    /\ row \in [Payments -> RowRecord]
    /\ payment \in [Payments -> PaymentRecord]
    /\ preapproval \in [Preapprovals -> PreapprovalRecord]
    /\ links \subseteq Subs
    /\ proc \in [Procs -> ProcRecord]

(***************************************************************************)
(* A new profile is "onboarding" and hidden; verifying the email may grant *)
(* a trial, and completing the onboarding makes the profile "active".      *)
(***************************************************************************)
NewProfiles ==
    [status : {"onboarding", "active"}, isActive : {FALSE}, trial : {None}]
    \cup [status : {"onboarding", "active"}, isActive : {TRUE}, trial : {1}]

Init ==
    /\ sub = [s \in Subs |-> NoSub]
    /\ profile \in [Users -> NewProfiles]
    /\ row = [q \in Payments |-> NoRow]
    /\ payment = [q \in Payments |-> NoPayment]
    /\ preapproval = [m \in Preapprovals |-> NoPreapproval]
    /\ links = {}
    /\ proc = [p \in Procs |-> Idle]

(***************************************************************************)
(* Processes.                                                              *)
(***************************************************************************)
At(p, l)     == proc[p].pc = l
Become(p, r) == proc' = [proc EXCEPT ![p] = r]
Goto(p, l)   == Become(p, [proc[p] EXCEPT !.pc = l])
Finish(p)    == Become(p, Idle)

(* What a request or a webhook may be enabled to start.                    *)
CanStart(p, entry) == p \in Workers /\ At(p, "idle") /\ entry \in Entries

(* An exception no handler catches, or the end of the server process: the  *)
(* work in flight is lost, what was written stays.                         *)
Fail(p) ==
    /\ "failure" \in Entries
    /\ ~At(p, "idle")
    /\ Finish(p)
    /\ UNCHANGED <<sub, profile, row, payment, preapproval, links>>

(***************************************************************************)
(* Rows.  Every update of a subscription refreshes updatedAt.              *)
(***************************************************************************)
StatusIn(u, states) == {s \in Subs : sub[s].user = u /\ sub[s].status \in states}
Unused              == {s \in Subs : sub[s].status = "none"}
SubWithExt(m)       == {s \in Subs : sub[s].ext = m}
FreePayments        == {q \in Payments : payment[q].state = "none"}
FreePreapprovals    == {m \in Preapprovals : preapproval[m].state = "none"}

WriteSub(s, r) == sub' = [sub EXCEPT ![s] = [r EXCEPT !.age = 0]]

ActivateProfileOf(u) ==
    profile' = [profile EXCEPT ![u] =
                   [status |-> "active", isActive |-> TRUE, trial |-> None]]

DeactivateProfileOf(u) ==
    profile' = [profile EXCEPT ![u] =
                   [@ EXCEPT !.status = "waiting_payment", !.isActive = FALSE]]

(* computePaidUntil: one period of the plan plus the days of grace.        *)
PaidUntil(plan) == Period[plan] + Grace

(***************************************************************************)
(* A day goes by: dates come nearer, links grow old.                       *)
(***************************************************************************)
Sooner(d) == IF d # None /\ d > 0 THEN d - 1 ELSE d
Older(a)  == IF a < StaleAge THEN a + 1 ELSE a

Tick ==
    /\ sub' = [s \in Subs |->
                  IF sub[s].status = "none" THEN sub[s]
                  ELSE [sub[s] EXCEPT !.end = Sooner(@), !.age = Older(@)]]
    /\ profile' = [u \in Users |->
                      [profile[u] EXCEPT !.trial = Sooner(@)]]
    /\ preapproval' = [m \in Preapprovals |->
                          [preapproval[m] EXCEPT !.next = Sooner(@),
                                                 !.trial = Sooner(@)]]
    /\ proc' = [p \in Procs |-> [proc[p] EXCEPT !.end = Sooner(@)]]
    /\ UNCHANGED <<row, payment, links>>

(***************************************************************************)
(* What MercadoPago has confirmed about a subscription and a user.         *)
(***************************************************************************)
Paid(s) == \E q \in Payments : payment[q].state = "approved" /\ payment[q].sub = s

Confirmed(s) ==
    \/ Paid(s)
    \/ \E m \in Preapprovals : preapproval[m].confirmed /\ preapproval[m].sub = s

ConfirmedUser(u) == \E s \in Subs : sub[s].user = u /\ Confirmed(s)
=============================================================================
