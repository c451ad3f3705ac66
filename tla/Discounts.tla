------------------------------ MODULE Discounts ------------------------------
(* Discounts an admin gives one professional (discounts.service and its two *)
(* jobs) and the discount plans of a subscription plan                      *)
(* (discount-plans.service).  A discount lives in the table and, while it   *)
(* is applied, as the amount of the preapproval at MercadoPago.             *)
EXTENDS Service

CONSTANTS
    DiscountIds, OfferIds, LastDay, MaxUses, MaxFailures,
    DiscountRuns,   \* executions of a job that may overlap
    OfferDays,      \* days an offer may begin or end on
    OfferForms      \* sets of fields an update of an offer may give

ASSUME DiscountsAssumption ==
    /\ DiscountIds \subseteq Nat \ {0} /\ OfferIds \subseteq Nat
    /\ LastDay \in Nat \ {0} /\ MaxUses \in Nat /\ MaxFailures \in Nat
    /\ OfferDays \subseteq 1 .. LastDay /\ OfferForms \subseteq SUBSET {"from", "to", "active"}

VARIABLES
    today,
    discounts,      \* Discount, of one professional
    amount,         \* of the preapproval: the discount it comes from, or 0 for the plan's
                    \* amount, one agreed at the checkout or one an admin set
    plan,           \* the professional's subscription: none, live, paused, or paid once
    apply, restore, \* the runs of applyPendingDiscounts and restoreExpiredDiscounts
    failures,       \* calls that failed and stops, up to MaxFailures
    slips,          \* history: discounts whose price outlived their row, and why; see Slip
    offers,         \* DiscountPlan, of one subscription plan
    raced           \* history: offers written beside another creation or update

discountVars == <<today, discounts, amount, plan, apply, restore, failures, slips, offers, raced>>

Days == 1 .. LastDay
Plans == {"none", "live", "paused", "once"}
DiscountRecord == [start : Days, end : Days, applied : BOOLEAN, restored : BOOLEAN]
JobRun == [at : {"resting", "running"}, todo : SUBSET DiscountIds, on : DiscountIds \cup {0}]
Resting == [at |-> "resting", todo |-> {}, on |-> 0]

(* "active" stands for isActive in this subscription plan: an update may    *)
(* also move an offer out of the plan or into it.  "taken" counts the       *)
(* subscriptions created at the offer's price, "uses" is currentUses.       *)
OfferRecord == [from : Days, to : Days, active : BOOLEAN, deleted : BOOLEAN, uses : Nat, taken : Nat]

DiscountsTypeOK ==
    /\ today \in Days
    /\ DOMAIN discounts \subseteq DiscountIds /\ \A d \in DOMAIN discounts : discounts[d] \in DiscountRecord
    /\ amount \in DiscountIds \cup {0} /\ plan \in Plans
    /\ apply \in [DiscountRuns -> JobRun] /\ restore \in [DiscountRuns -> JobRun]
    /\ failures \in Nat /\ slips \subseteq DiscountIds
    /\ DOMAIN offers \subseteq OfferIds /\ \A o \in DOMAIN offers : offers[o] \in OfferRecord

DiscountsInit ==
    /\ today = 1 /\ discounts = [d \in {} |-> 0] /\ amount = 0 /\ plan = "live"
    /\ apply = [r \in DiscountRuns |-> Resting] /\ restore = [r \in DiscountRuns |-> Resting]
    /\ failures = 0 /\ slips = {}
    /\ offers = [o \in {} |-> 0] /\ raced = {}

DayPasses ==
    /\ Offered("day") /\ today < LastDay
    /\ today' = today + 1
    /\ UNCHANGED <<discounts, amount, plan, apply, restore, failures, slips, offers, raced, serviceVars>>

(* The subscription ends, is paused, resumes, or is a new one: with a       *)
(* preapproval, or paid once through a preference or a card.                *)
PlanMoves(next) ==
    /\ Offered("plan") /\ next # plan
    /\ next # "none" => <<plan, next>> \in {<<"none", "live">>, <<"none", "once">>, <<"live", "paused">>, <<"paused", "live">>}
    /\ plan' = next
    /\ amount' = IF next = "none" THEN 0 ELSE amount
    /\ UNCHANGED <<today, discounts, apply, restore, failures, slips, offers, raced, serviceVars>>

(* AdminService.updateSubscriptionAmount knows nothing of the discounts.    *)
AmountSetByHand ==
    /\ Offered("byHand") /\ plan \in {"live", "paused"}
    /\ amount' = 0
    /\ UNCHANGED <<today, discounts, plan, apply, restore, failures, slips, offers, raced, serviceVars>>

Fails == failures < MaxFailures /\ failures' = failures + 1

-----------------------------------------------------------------------------
(* The rows: create, remove *)

Applied(d) == d \in DOMAIN discounts /\ discounts[d].applied

Overlapping(start, end) ==
    {d \in DOMAIN discounts : ~discounts[d].restored /\ discounts[d].start <= end /\ discounts[d].end >= start}

DiscountChecks(h, start, end) ==
    /\ Takes(h, [op |-> "createDiscount", start |-> start, end |-> end])
    /\ start < end /\ Overlapping(start, end) = {}
    /\ UNCHANGED discountVars

(* Ids that a row has, or somebody may still name: they are not given again. *)
Named ==
    DOMAIN discounts \cup slips \cup {amount}
    \cup UNION {apply[r].todo \cup restore[r].todo \cup {apply[r].on, restore[r].on} : r \in DiscountRuns}
    \cup {call[h].id : h \in {k \in Handlers : call[k].op = "removeDiscount"}}

DiscountInserts(h) ==
    /\ Ends(h, {"createDiscount"})
    /\ \E d \in Fresh(DiscountIds, Named) :
         discounts' = [e \in DOMAIN discounts \cup {d} |->
                         IF e = d THEN [start |-> call[h].start, end |-> call[h].end,
                                        applied |-> FALSE, restored |-> FALSE]
                         ELSE discounts[e]]
    /\ UNCHANGED <<today, amount, plan, apply, restore, failures, slips, offers, raced>>

DiscountLeaves(h, d) ==
    /\ Takes(h, [op |-> "removeDiscount", id |-> d])
    /\ d \in DOMAIN discounts /\ ~discounts[d].applied
    /\ UNCHANGED discountVars

(* The price of discount d may from now on outlive the row. *)
Slip(d) == slips' = slips \cup {d}

(* A row applied since the check goes too, and its amount stays. *)
DiscountDeleted(h) ==
    /\ Ends(h, {"removeDiscount"})
    /\ LET d == call[h].id
       IN /\ discounts' = [e \in DOMAIN discounts \ {d} |-> discounts[e]]
          /\ IF Applied(d) THEN Slip(d) ELSE UNCHANGED slips
    /\ UNCHANGED <<today, amount, plan, apply, restore, failures, offers, raced>>

-----------------------------------------------------------------------------
(* applyPendingDiscounts: a snapshot of the rows, then one at a time: the   *)
(* subscription, the gateway, the row.  Whatever fails is logged, and the   *)
(* run goes on.  A run that an admin triggers may overlap with that of the  *)
(* cron.                                                                    *)

Begins(job) == \A r \in DiscountRuns : job[r] = Resting \/ Offered("trigger")

Pending == {d \in DOMAIN discounts : ~discounts[d].applied /\ today \in discounts[d].start .. discounts[d].end}

ApplyStarts(r) ==
    /\ Offered("apply") /\ apply[r] = Resting /\ Begins(apply) /\ Pending # {}
    /\ apply' = [apply EXCEPT ![r] = [Resting EXCEPT !.at = "running", !.todo = Pending]]
    /\ UNCHANGED <<today, discounts, amount, plan, restore, failures, slips, offers, raced, serviceVars>>

(* The call may take effect and fail all the same.  Another run may have    *)
(* applied the discount before, and it may even be restored.                *)
ApplyOne(r, d) ==
    /\ d \in apply[r].todo /\ apply[r].on = 0
    /\ \/ /\ plan = "live" /\ amount' = d
          /\ apply' = [apply EXCEPT ![r].todo = @ \ {d}, ![r].on = d]
          /\ IF Applied(d) THEN Slip(d) ELSE UNCHANGED slips
          /\ UNCHANGED failures
       \/ /\ plan = "live" /\ Fails
          /\ apply' = [apply EXCEPT ![r].todo = @ \ {d}]
          /\ (amount' = d /\ Slip(d)) \/ UNCHANGED <<amount, slips>>
       \/ /\ plan # "live"
          /\ apply' = [apply EXCEPT ![r].todo = @ \ {d}]
          /\ UNCHANGED <<amount, slips, failures>>
    /\ UNCHANGED <<today, discounts, plan, restore, offers, raced, serviceVars>>

(* A mark that would create the row *)
ApplyMarksUpserts(r) ==
    /\ apply[r].on # 0
    /\ apply' = [apply EXCEPT ![r].on = 0]
    /\ discounts' = [d \in DOMAIN discounts \cup {apply[r].on} |->
                       IF d # apply[r].on THEN discounts[d]
                       ELSE IF d \in DOMAIN discounts THEN [discounts[d] EXCEPT !.applied = TRUE]
                       ELSE [applied |-> TRUE]]
    /\ UNCHANGED <<today, amount, plan, restore, failures, slips, offers, raced, serviceVars>>

(* The update fails when the row was removed meanwhile, or with the         *)
(* database; the price is low already.                                      *)
ApplyMarks(r) ==
    /\ apply[r].on # 0
    /\ apply' = [apply EXCEPT ![r].on = 0]
    /\ \/ /\ apply[r].on \in DOMAIN discounts
          /\ discounts' = [discounts EXCEPT ![apply[r].on].applied = TRUE]
          /\ UNCHANGED <<failures, slips>>
       \/ /\ apply[r].on \in DOMAIN discounts /\ Fails
          /\ Slip(apply[r].on) /\ UNCHANGED discounts
       \/ /\ apply[r].on \notin DOMAIN discounts
          /\ Slip(apply[r].on) /\ UNCHANGED <<discounts, failures>>
    /\ UNCHANGED <<today, amount, plan, restore, offers, raced, serviceVars>>

ApplyEnds(r) ==
    /\ apply[r].at = "running" /\ apply[r].todo = {} /\ apply[r].on = 0
    /\ apply' = [apply EXCEPT ![r] = Resting]
    /\ UNCHANGED <<today, discounts, amount, plan, restore, failures, slips, offers, raced, serviceVars>>

-----------------------------------------------------------------------------
(* restoreExpiredDiscounts, in the same way *)

(* A snapshot of the rows that expire rather than of the expired *)
ExpiringToday == {d \in DOMAIN discounts :
              discounts[d].applied /\ ~discounts[d].restored /\ discounts[d].end = today}

Expired == {d \in DOMAIN discounts :
              discounts[d].applied /\ ~discounts[d].restored /\ discounts[d].end < today}

RestoreStarts(r) ==
    /\ Offered("restore") /\ restore[r] = Resting /\ Begins(restore) /\ Expired # {}
    /\ restore' = [restore EXCEPT ![r] = [Resting EXCEPT !.at = "running", !.todo = Expired]]
    /\ UNCHANGED <<today, discounts, amount, plan, apply, failures, slips, offers, raced, serviceVars>>

(* A restoration that leaves the amount to the next renewal *)
RestoreRowOnly(r, d) ==
    /\ d \in restore[r].todo /\ restore[r].on = 0
    /\ restore' = [restore EXCEPT ![r].todo = @ \ {d}, ![r].on = d]
    /\ UNCHANGED <<today, discounts, amount, plan, failures, apply, slips, offers, raced, serviceVars>>

(* Without a live subscription the row alone is marked; a paused one keeps  *)
(* the amount and may resume with it.  The gateway refuses a subscription   *)
(* that is paid once: it has no preapproval.                                *)
RestoreOne(r, d) ==
    /\ d \in restore[r].todo /\ restore[r].on = 0
    /\ \/ /\ plan = "live" /\ amount' = 0
          /\ restore' = [restore EXCEPT ![r].todo = @ \ {d}, ![r].on = d]
          /\ UNCHANGED <<failures, slips>>
       \/ /\ plan = "live" /\ Fails /\ amount' \in {0, amount}
          /\ restore' = [restore EXCEPT ![r].todo = @ \ {d}] /\ UNCHANGED slips
       \/ /\ plan = "once"
          /\ restore' = [restore EXCEPT ![r].todo = @ \ {d}] /\ UNCHANGED <<amount, failures, slips>>
       \/ /\ plan \in {"none", "paused"}
          /\ restore' = [restore EXCEPT ![r].todo = @ \ {d}, ![r].on = d]
          /\ IF amount = d THEN Slip(d) ELSE UNCHANGED slips
          /\ UNCHANGED <<amount, failures>>
    /\ UNCHANGED <<today, discounts, plan, apply, offers, raced, serviceVars>>

RestoreMarks(r) ==
    /\ restore[r].on # 0
    /\ restore' = [restore EXCEPT ![r].on = 0]
    /\ \/ /\ discounts' = [d \in DOMAIN discounts |->
                            IF d = restore[r].on THEN [discounts[d] EXCEPT !.restored = TRUE] ELSE discounts[d]]
          /\ UNCHANGED failures
       \/ Fails /\ UNCHANGED discounts
    /\ UNCHANGED <<today, amount, plan, apply, slips, offers, raced, serviceVars>>

RestoreEnds(r) ==
    /\ restore[r].at = "running" /\ restore[r].todo = {} /\ restore[r].on = 0
    /\ restore' = [restore EXCEPT ![r] = Resting]
    /\ UNCHANGED <<today, discounts, amount, plan, apply, failures, slips, offers, raced, serviceVars>>

(* The server stops in the middle of a run. *)
JobsStop ==
    /\ Offered("stopJobs") /\ Fails
    /\ \E r \in DiscountRuns : "running" \in {apply[r].at, restore[r].at}
    /\ apply' = [r \in DiscountRuns |-> Resting] /\ restore' = [r \in DiscountRuns |-> Resting]
    /\ slips' = slips \cup {d \in DiscountIds : \E r \in DiscountRuns : apply[r].on = d}
    /\ UNCHANGED <<today, discounts, amount, plan, offers, raced, serviceVars>>

-----------------------------------------------------------------------------
(* Discount plans: DiscountPlansService, and their use by a checkout *)

Standing(o) == o \in DOMAIN offers /\ offers[o].active /\ ~offers[o].deleted

Meet(o, from, to) == offers[o].from <= to /\ offers[o].to >= from

(* An overlap with an offer that began before is not seen *)
ClearFromStarts(from, to, active, except) ==
    active => from <= to /\ \A o \in DOMAIN offers \ except : Standing(o) => offers[o].from \notin from .. to

(* validateActiveOverlap *)
Clear(from, to, active, except) ==
    active => from <= to /\ \A o \in DOMAIN offers \ except : Standing(o) => ~Meet(o, from, to)

(* The write of offer o by h, and whether another write is under way *)
Races(h, o) ==
    raced' = IF \E k \in Handlers \ {h} : call[k].op \in {"createOffer", "updateOffer"}
             THEN raced \cup {o} ELSE raced

OfferChecks(h, from, to, active) ==
    /\ {from, to} \subseteq OfferDays /\ (active \/ Offered("updateOffer"))
    /\ Takes(h, [op |-> "createOffer", from |-> from, to |-> to, active |-> active])
    /\ Clear(from, to, active, {}) /\ UNCHANGED discountVars

OfferInserts(h) ==
    /\ Ends(h, {"createOffer"})
    /\ \E o \in OfferIds :
         /\ DOMAIN offers = {p \in OfferIds : p < o}
         /\ offers' = [p \in DOMAIN offers \cup {o} |->
                         IF p = o THEN [from |-> call[h].from, to |-> call[h].to, active |-> call[h].active,
                                        deleted |-> FALSE, uses |-> 0, taken |-> 0]
                         ELSE offers[p]]
         /\ Races(h, o)
    /\ UNCHANGED <<today, discounts, amount, plan, apply, restore, failures, slips>>

OfferFields == {"from", "to", "active"}

(* update: the fields that are given, with those of the row for the rest,   *)
(* are checked together ...                                                 *)
OfferUpdateChecks(h, o, given, from, to, active) ==
    /\ given \in OfferForms /\ {from, to} \subseteq OfferDays
    /\ o \in DOMAIN offers /\ ~offers[o].deleted
    /\ Takes(h, [op |-> "updateOffer", id |-> o, given |-> given, from |-> from, to |-> to, active |-> active])
    /\ "from" \notin given => from = offers[o].from
    /\ "to" \notin given => to = offers[o].to
    /\ "active" \notin given => active = offers[o].active
    /\ Clear(from, to, active, {o}) /\ UNCHANGED discountVars

(* ... but the given ones alone are written, over the row as it is now.     *)
OfferUpdates(h) ==
    /\ Ends(h, {"updateOffer"})
    /\ LET r == call[h]
       IN /\ offers' = [offers EXCEPT ![r.id].from = IF "from" \in r.given THEN r.from ELSE @,
                                      ![r.id].to = IF "to" \in r.given THEN r.to ELSE @,
                                      ![r.id].active = IF "active" \in r.given THEN r.active ELSE @]
          /\ Races(h, r.id)
    /\ UNCHANGED <<today, discounts, amount, plan, apply, restore, failures, slips>>

RemoveOffer(o) ==
    /\ Offered("removeOffer") /\ o \in DOMAIN offers /\ ~offers[o].deleted
    /\ offers' = [offers EXCEPT ![o].deleted = TRUE]
    /\ UNCHANGED <<today, discounts, amount, plan, apply, restore, failures, slips, raced, serviceVars>>

Current == {o \in DOMAIN offers : Standing(o) /\ today \in offers[o].from .. offers[o].to}

(* An offer that admits one use too many *)
BestOfferAtLimit(o) == o \in Current /\ offers[o].uses <= MaxUses

(* _resolveDiscount: any of the current ones, and none when it is used up *)
BestOffer(o) == o \in Current /\ offers[o].uses < MaxUses

(* A checkout resolves the discount ... *)
CheckoutResolves(h, o) ==
    /\ Takes(h, [op |-> "useOffer", id |-> o])
    /\ BestOffer(o) /\ UNCHANGED discountVars

(* ... creates the subscription at its price, and counts the use: best      *)
(* effort, the count may be missed.                                         *)
CheckoutCounts(h) ==
    /\ Ends(h, {"useOffer"})
    /\ \/ offers' = [offers EXCEPT ![call[h].id].taken = @ + 1, ![call[h].id].uses = @ + 1] /\ UNCHANGED failures
       \/ offers' = [offers EXCEPT ![call[h].id].taken = @ + 1] /\ Fails
    /\ UNCHANGED <<today, discounts, amount, plan, apply, restore, slips, raced>>

-----------------------------------------------------------------------------
ApplySteps ==
    \E r \in DiscountRuns : ApplyStarts(r) \/ ApplyMarks(r) \/ ApplyEnds(r) \/ \E d \in DiscountIds : ApplyOne(r, d)

RestoreSteps ==
    \E r \in DiscountRuns :
        RestoreStarts(r) \/ RestoreMarks(r) \/ RestoreEnds(r) \/ \E d \in DiscountIds : RestoreOne(r, d)

DiscountsNext ==
    \/ ApplySteps \/ RestoreSteps \/ DayPasses \/ JobsStop \/ AmountSetByHand
    \/ \E next \in Plans : PlanMoves(next)
    \/ \E h \in Handlers :
         \/ DiscountInserts(h) \/ DiscountDeleted(h) \/ OfferInserts(h) \/ OfferUpdates(h) \/ CheckoutCounts(h)
         \/ \E d \in DOMAIN discounts : DiscountLeaves(h, d)
         \/ \E o \in DOMAIN offers : CheckoutResolves(h, o)
         \/ \E from, to \in Days :
              \/ DiscountChecks(h, from, to)
              \/ \E active \in BOOLEAN :
                   OfferChecks(h, from, to, active)
                   \/ \E o \in DOMAIN offers, given \in OfferForms :
                        OfferUpdateChecks(h, o, given, from, to, active)
    \/ \E o \in DOMAIN offers : RemoveOffer(o)

DiscountsSpec == DiscountsInit /\ ServiceInit /\ [][DiscountsNext]_<<discountVars, serviceVars>>

-----------------------------------------------------------------------------
(* A preapproval has the amount of a discount only while the discount is    *)
(* being marked or is applied and will be restored, but for what the code   *)
(* lets slip ("slips"): a row removed while it was applied, a call that     *)
(* took effect and failed, a mark that failed, a stop between the gateway   *)
(* and the row, a discount applied again by an overlapping run, and a       *)
(* restoration while the subscription was paused                            *)
(* (discounts.service applyPendingDiscounts, restoreExpiredDiscounts).      *)
LowPriceIsAccountedFor ==
    \/ amount = 0 \/ amount \in slips
    \/ \E r \in DiscountRuns : apply[r].on = amount
    \/ Applied(amount) /\ ~discounts[amount].restored

(* On any day a professional has no more discounts that are not restored    *)
(* than requests ran side by side, and of two offers of a plan that are     *)
(* active on a same day one was written while another creation or update    *)
(* was under way (discounts.service create, discount-plans.service: the     *)
(* periods are checked before the write).                                   *)
OverlapsComeFromRaces ==
    /\ \A day \in Days :
         Cardinality({d \in DOMAIN discounts :
              ~discounts[d].restored /\ day \in discounts[d].start .. discounts[d].end}) <= Side
    /\ \A o, p \in DOMAIN offers :
         o # p /\ Standing(o) /\ Standing(p) /\ Meet(o, offers[p].from, offers[p].to) => o \in raced \/ p \in raced

(* An offer's price is given more often than its limit by at most the       *)
(* checkouts that were open when the last use was counted, and once more    *)
(* for every count that failed (subscriptions.service _resolveDiscount      *)
(* against the increment of currentUses).                                   *)
UsesStayNearLimit ==
    \A o \in DOMAIN offers : offers[o].taken <= MaxUses + Side - 1 + failures

(* Applied, and past its last day *)
Over(d) ==
    d \in DOMAIN discounts /\ discounts[d].applied /\ ~discounts[d].restored /\ discounts[d].end < today

(* A discount that is applied and over is restored, whatever fails a finite *)
(* number of times, unless its row was removed or the professional came to  *)
(* pay once (restoreExpiredDiscounts).                                      *)
ExpiredIsRestored ==
    Offered("restore") => \A d \in DiscountIds : [](Over(d) => <>(~Over(d) \/ plan = "once"))
=============================================================================
