# Trama-CW in TLA+

Trama-CW is the NestJS backend of a professional network: accounts, profiles
reviewed by administrators, a community with groups, private messages, a job
board, and paid subscriptions charged through MercadoPago. This directory models
its services, checks them with TLC and proves, for instances of any size, the
safety properties the runs check: of the **billing**, the **runner of the
background jobs**, the **community** and its digests, and the services beside
them.

Paths in this file are relative to `src/src/` unless they start with `src/`.

## 1. The system and its parts

All state is in one PostgreSQL database behind Prisma (files in a local
directory). The server is one Node process (possibly several): request handlers,
webhook handlers and cron jobs interleave at every `await`. Almost nothing
runs in a transaction, so every sequence "read, decide, write" can be overtaken.

| Component | State | Operations | What is hard | Modelled |
|---|---|---|---|---|
| Billing tables (`src/prisma/schema.prisma`) | `subscriptions`, `subscription_payments`, `professional_profiles` | - | no constraint between rows except the unique `externalId` of a payment | `Billing` |
| Subscription requests (`subscriptions/subscriptions.service.ts`) | the tables above | `create`, `payWithBricks`, `subscribeWithBricks`, `cancel` | check-then-insert, gateway call between two writes, reuse of a pending row by another method | `SubscriptionRequests` |
| Payment strategies (`subscriptions/strategies/`) | - | create a payment, handle a webhook, cancel, renew, for four methods | what each leaves in `externalId` and in MercadoPago's external reference | folded into their callers |
| Payment webhooks (`subscriptions-webhook.controller.ts`) | the tables, `webhook_events` | `payment`, `subscription_authorized_payment`, `subscription_preapproval` notices | late, repeated, reordered and lost notices; always answered 200 | `PaymentWebhooks` |
| Billing jobs (`subscriptions-cron.service.ts`, `background-jobs/professionals-cron...`, `subscription-renew-preapproval-cron...`) | the tables | renewals, stale links, expired trials, lapsed subscriptions, lost charges | rows listed first and written later; an error in the middle | `BillingJobs` |
| MercadoPago client (`mercadopago/mercadopago.service.ts`) | preferences, payments, preapprovals, remotely | create, search, cancel, amounts | calls that fail after having taken effect | `MercadoPago` |
| Cron runner (`background-jobs/base-cron.service.ts`, `cron-admin.service.ts`) | `cron_jobs`, `job_executions`, the scheduler registry | register, run with a log, trigger, restart | overlap of a manual and a scheduled run; execution rows left running | `CronRunner` |
| Discounts (`discounts/`, `discount-plans/`) | `discounts`, `discount_plans` | apply and restore a price at MercadoPago, count uses | gateway before database; periods and uses checked and written apart | `Discounts` |
| Accounts (`auth/`, `users/`, part of `admin/`) | `users`, tokens, referral codes | register, verify, reset, remove, restore | tokens outliving what they allow; a trial granted in a second write | `Accounts` |
| Profiles (`onboarding/`, `professionals/`, `search/`, part of `admin/`) | status, trial, validation, completion | fill in, submit, complete, approve, review, log in, pay | status written by seven components, read by six listings and queues | `Profiles` |
| Files (`uploads/`, `_deleteIdentityFiles`) | stored files, URLs | upload, delete, erase at the approval | files and URLs change in separate steps | `Files` |
| Community, reactions, groups (`community/`, `community-channels/`, `reactions/`, their `admin/` parts) | posts, comments, images, reactions, members | post, comment, react, remove, page through the feed | access rules written again in each service; limits counted before the insert; a cursor over two tables | `CommunityData`, `CommunityPosts`, `CommunityReads`, `CommunityFeed` |
| Digest and push (`background-jobs/*digest*`, `push/`, `notifications/`, `onesignal/`) | last-seen and last-notified marks, preferences, devices | count, send, mark | send before mark, overlap, a stop in between | `CommunityNotices`, `Community` |
| Private messages (`messages/`) | messages with two flags of removal | send, read, delete, delete a conversation | each query repeats the rule of what is hidden | `Messages` |
| Job board (`jobs/`, `work/`, `admin/admin-jobs`) | jobs, applications, visits | create, close, visit, apply | two services over one table | `JobBoard` |
| Landings (`landings/`, `admin/admin-landings`) | fields with an order, submissions | add, reorder, delete, submit | next place read before the insert | `Landings` |
| Profession taxonomy | a three-level tree | create, update, deactivate | check of the children apart from the write | `Taxonomy` |
| External job postings | postings by source | page, upsert | a list that moves, overlapping synchronisations | `ExternalJobs` |
| Entitlements (`entitlements/`) | - | `isPaid`, `getTier` | derived from subscription and trial, not from the profile | `IsPaid` in `CommunityData` |
| Subscription plans | `subscription_plans` | CRUD, soft delete | - | constant; the current offer in `Discounts` |
| Legacy payments (`payments/`) | `payments` | create, webhook, list | its webhook activates profiles | its write in `Profiles` |
| Reminder jobs | - | mail | - | whom they are for, in `Profiles` |
| Contacts, locations, catalogs, dashboard, captcha, mail | their own rows | queries, single inserts, output | no protocol between requests | not modelled |

How the billing parts talk: a request inserts a `pending` subscription, asks
MercadoPago for a link, a payment or a preapproval, and stores the answer. The
customer pays. MercadoPago notifies a webhook, which reads the object's current
state back from MercadoPago, registers the payment in the ledger and writes the
subscription and then the profile. Jobs look for rows a lost notice left
behind and for time that has run out.

How the others talk: through the tables. Registration and verification leave a
profile that onboarding fills in, a review validates and a payment activates;
listings, the queues of the admins, the contact form and the messages read its
flags, each with its own filter. The community asks `isPaid` and the members of
a group. The digests read posts and marks that the feed's readers write.

## 2. Properties that make the system correct

Billing:

1. Nothing is in force without a confirmation by MercadoPago, for *that*
   subscription, in whatever order handlers overtake each other.
2. The ledger says the truth and is append-only.
3. A profile comes up only for a user MercadoPago has confirmed.
4. Time paid for does not add up by redelivery.
5. What ran out is noticed; a profile whose every subscription ran out comes
   down; what nobody pays is closed; in spite of lost notices and failures. This
   holds for subscriptions a job can reach, and section 7 shows one that none can.
6. No notice, preapproval or payment reaches another user's subscription.

The rest:

7. What one query shows another one lets through: feed and pages, badge and
   thread, both job boards, listings and reviews, tree and lists.
8. Check-then-write is overrun by no more than the requests that raced: quotas,
   images, uses of an offer, overlapping periods, places of fields, reset links,
   trials.
9. Two-step work survives a failure or a stop in between, or its loss is
   accounted for: prices at MercadoPago, files and their URLs, trials, marks of
   the digests, the log of executions, the pages of a board. Where the code lets
   something slip, the model records what (`slips`, `parted`, `outed`, `clash`,
   `raced`), and the property says that nothing else is lost.
10. What must happen happens: a discount that ended is restored, a post that
    stays unread is mailed.

`PROJECT.json` lists the hazards with their lines and the property that watches
each one.

## 3. The modules

```
Billing                 tables, gateway objects, handlers in flight, time
  MercadoPago           what the gateway and the payers do
    SubscriptionRequests, PaymentWebhooks, BillingJobs
      Subscriptions     composition, fairness, properties   ---refines---> Access
        SubscriptionsInv   the inductive invariant
          MCSubscriptions      constants of the TLC instances
          Subscriptions_proof  theorems

Service                 handlers of the other services, scenarios
  CommunityData         places, members, posts, who may read what
    CommunityPosts      posts, comments, reactions, images
      CommunityReads    the listings and pages
        CommunityFeed   the feed and a reader who pages through it
      CommunityNotices  marks, digests, pushes
          Community     both together, fairness   (MCCommunity, MCNotices)
  Messages, JobBoard, Landings, Taxonomy, Discounts, CronRunner,
  ExternalJobs, Accounts, Profiles, Files
      Platform          side by side on one server (MCPlatform)

  Service_proof         lemmas about handlers, counting, least and greatest numbers
    Community_proof     theorems of Community
    Catalogue_proof     ... of Taxonomy and Discounts
    Boards_proof        ... of Messages, JobBoard, Landings, ExternalJobs
    People_proof        ... of Profiles, Files and Accounts
  CronRunner_proof      ... of CronRunner
      Platform_proof    ... of Platform, from the last four
```

### Billing

**State.** `sub`, `profile` and `row` are the tables `subscriptions`,
`professional_profiles` and `subscription_payments`; `payment`, `preapproval`
and `links` are what MercadoPago holds. `proc` maps each process, a worker or a
job, to a record: the `await` it is about to execute (`pc`) and what it read
before (`user`, `sid`, `plan`, `ext`, `seen`, `end`, `todo`, ...). Values kept
in `proc` are exactly the local variables of the handler: they go stale when
another process writes.

**Actions.** One per database or gateway round trip. Consecutive *reads* with
nothing depending on the gap (the subscription and then the ledger row, in
`FindRow`; the row and the user's plan) are one action; a read and a write
never are, nor two writes. `map` in `PROJECT.json` gives the lines of each.

**Time.** A date is the number of days left, 0 once passed; `Tick` lets a day
go by and decreases all of them. `age` is the time since `updatedAt`, stopped
at `StaleAge`. States recur, so there is no horizon.

**Notices** are not queued. A webhook handler may start for any payment or
preapproval at any moment and reads its state then: that is every late,
duplicated or reordered delivery. A notice that is never started is a lost one.

**Failure.** With `"failure"` among `Entries`, `Fail` ends any handler or job
between two awaits (an uncaught exception, a stopped server); gateway calls may
have taken effect and thrown; `SkipOnError` is the `try/catch` inside a job's
loop.

**Variants.** An operator introduced as "Variant" is never part of `Next`: it is
the code with a plausible slip (a dropped filter, an optimistic status) and
serves to show that the property it is paired with in `PROJECT.json` notices.

`Access` is the abstract specification: users, those whose profile is up and
those MercadoPago has confirmed. A step confirms a user, opens the profile of a
confirmed one, or closes some. It says nothing of subscriptions, methods,
notices or jobs; `Subscriptions` implements it under the mapping in
`Promise`.

### The other services

**Handlers.** `Service` holds `call`: what each request handler is doing. A
handler that only writes what it is given is one action. One that reads, awaits
and writes is split at the await: it takes its request with what it read
(`Takes`), may go on (`GoesOn`) and ends with its last write (`Ends`). In
between others run, and what it read goes stale.

**Scenarios.** A behaviour offers the operations of one scenario, a set of names
of routes, chosen at the start and never changed; `"parallel"` among them lets
two handlers run side by side. The scenarios are what keeps the instances small:
operations that do not touch the same columns are not tried together. The
constant `Scenarios` is any set of sets of names, and the proofs hold for each.

**Composition.** `Platform` runs ten services on the same handlers, each with its
own tables; `Community` joins the feed, the posts and the notices, which share
theirs. Where a service needs something of another one (the review a payment,
the community a plan), the other one's write is an action of its own module:
`SubscriptionMoves` and `SubscriptionShows` in `Profiles`,
`PlanChanges` in `CommunityData`. A scenario of `Platform` is about one service
(`PlatformAssumption`): what stops the handlers of one does not account for those of
another, and as no two of these modules share a table, nothing else could be seen.

| Module | State | Its actions are |
|---|---|---|
| `CommunityData` | `posts`, `comments`, members, plans, a clock | the changes of plans and of time; `GetAccessibleScopes`, `CheckChannelAccess`, `CanActivate` are the access rules of feed, posts and groups |
| `CommunityPosts` | the same, `reactions`, `images`, and `made`, the ids given out: a uuid does not come again | every route that writes a post, a comment, a reaction or an image, its checks (`Begin`) apart from its write |
| `CommunityReads` | - | operators only: each listing and page as the set it returns |
| `CommunityFeed` | `walk`: the pages a reader was shown | `OpenFeed` and `GetFeed` by cursor, while anything else happens |
| `CommunityNotices` | last-seen rows, preferences, devices, runs of the digests | readings, sends, marks and stops of both digests, the immediate push, `markSeen` |
| `Messages` | messages with both flags | send, read, delete on one side or both, the two updates of `deleteConversation` |
| `JobBoard` | jobs, applications, visits | the admins' changes; a visit and an application in two steps through either board |
| `Landings` | a landing, fields with their order and whether it was given by hand, submissions | add (the place read first, or given), reorder, update, delete, submit |
| `Taxonomy` | the tree | create, update of the given fields and deactivate at each level, the check apart from the write |
| `Discounts` | discounts, the amount at MercadoPago, the runs of both jobs, offers | create, remove, apply and restore with gateway and row apart, where a call may take effect and fail and runs may overlap; offers, partial updates of them and their uses; the amount an admin sets |
| `CronRunner` | `cron_jobs`, timers, execution rows, runs | start and stop of the server, runs by timer or by hand, their ends, restarts |
| `ExternalJobs` | boards outside, postings | a synchronisation page by page, upserts one by one, each of which may fail and be passed over |
| `Accounts` | users, links, tokens, trials | registrations, verification in three steps, resets in two, codes, removal and return |
| `Profiles` | one profile, its last review | sections, submission, completion, approval and review (row, then profile), login, trials job; payments and ends of subscriptions, status and profile apart |
| `Files` | the storage, URLs | uploads and deletions, storage and database apart; the erasure at the approval; `CutShort`, a failure or a stop at any of their awaits |

`Patched(row, fields)` is an update of some columns of a row, `Sorted(rows)` the
feed's order as the sequence that has it: both are what the library's `@@` and
`SetToSortSeq` compute, written so that they can be reasoned about.

A moment in time is, for the marks of the digests, the set of posts that existed
by then; ids and clocks are small numbers.

### What is abstracted

- Amounts, discounts, currencies, `startDate`, `attemptNumber`, links' texts,
  mail, logs and the `webhook_events` rows: no decision of the modelled code
  depends on them. Signature checks are taken as passed.
- Ids are model values and finite: a request that finds no free id is dropped.
  An `externalId` that no query looks up (a preference's or a payment's) is
  `Opaque`.
- `findFirst` without an order picks any matching row.
- `kind` is `paymentMethod`, renewed by whichever method took the row over.
- MercadoPago never reports a preapproval as `active` (its states are pending,
  authorized, paused and cancelled), so that branch of `updateStatus` is not
  reached.
- One run of a billing job at a time; overlapping runs are in `CronRunner`, whose
  handlers are any.
- The lists of the renewal job and of the preapproval job hold ids; the row is
  read when its turn comes, where the code goes by the plan and the `externalId`
  it listed. The kind is the one it was listed with, as in the code.
- Billing is closed: the other writers of a profile (verification of the
  email, log-in, administrators) act before, as the initial states of
  `profile`, not during. `Profiles` has them beside a payment, in two steps.
- `Profiles` knows of a user only whether some subscription is active: a notice or
  a job about one of them may leave another one active (`SubscriptionMoves`).
- `Discounts`: one subscription of the professional at a time; finding it and
  changing its amount are one step; `active` of an offer is `isActive` in the plan
  the model is about, as an update may move an offer to another plan; the limit
  of uses is one constant.
- An upsert of a posting that took effect and failed all the same is one that
  took effect.
- Texts, names, file contents, password hashes, the fields of a form: a value is
  an id. Pages of listings other than the feed, and their order, are left out.
- Authentication is taken as passed; the roles a route asks for are guards.
- `LOOKBACK_DAYS` of the digests: posts do not grow old.

## 4. The runs

Billing instances have one plan with a period of one day, one day of grace (none
in `checkout_live`) and `StaleAge` 1: dates are then before, on or after their end, and only these three
differ to the code. `Entries` chooses which requests an instance starts, so
that each run keeps two real processes over the methods that collide.

| Run | Instance | Shows |
|---|---|---|
| `checkout_races` | 1 user, 2 subscriptions, 1 payment, 2 workers; link, card, cancel, notices | `TypeOK`, `InForceIsConfirmed`, `LedgerIsTrue`, `LedgerIsAppendOnly` and refinement of `Access`, with a double click, a payment of an abandoned link and two handlers of one payment |
| `preapproval_jobs` | 1 subscription, a preapproval with a trial, failures, 3 jobs, fair | the inductive invariant `IInv`, `CreditIsBounded`, and `ExpiryIsNoticed` for recurring charges |
| `two_users` | 2 users, 2 subscriptions, failures | no preapproval is linked, and no profile comes up, across users although the reference in the notice is all that is left after a crash |
| `checkout_live` | 1 subscription, the checkout link and `subscribeWithBricks` taking its row over, failures, 3 jobs, no grace, fair | `IInv` and `CreditIsBounded` while jobs overtake webhooks; `ExpiryIsNoticed`, `NoAccessForFree`, `AbandonedIsClosed` |
| `community` | 1 professional of a rubro, 1 admin, 1 group, 3 posts, pages of one post, 11 scenarios | `FeedWalkIsExact`, `FeedIsReadable`, `LimitsHoldUpToRaces`, and that every comment, reaction and image belongs to something that exists (`FeedTypeOK`) |
| `notices` | 1 reader and author, 1 group, 2 posts, 2 runs of the push digest, 1 stop, fair | `AnnouncedOnce`, `PushKeepsBadges`, `DigestReachesReader` |
| `platform` | one small instance of each of the ten services, 40 scenarios | the fifteen invariants, `HiddenByItsSide` and, fair, `ExpiredIsRestored` |
| `v_*` | smallest that shows it | one statement each of the repository that the code does not keep (section 7) |

What the invariants of `platform` say, by service: `BadgeMatchesThread`,
`HiddenByItsSide` (messages); `JobTalliesAreTrue` (job board);
`FieldOrdersClashOnlyInRaces` (landings); `TreeIsSound` (professions);
`LowPriceIsAccountedFor`, `OverlapsComeFromRaces`, `UsesStayNearLimit`,
`ExpiredIsRestored` (discounts); `ExecutionsTellTheTruth` (cron runner);
`SyncIsWhole` (external postings); `ResetLinkWorksOnce`,
`TrialGoesWithVerification` (accounts); `ListingsFollowReview`,
`PayerStaysListed` (profiles); `FilesMatchUrls` (files). Each is stated in words
above its definition.

**Why these bounds.** Every safety property of the billing relates one
subscription, one payment or one preapproval to one handler that acts on an old
read; a violation needs at most two handlers on the same rows, and a second row
or user for it to be mistaken for. The proofs of section 5 need no bound at
all. In the other runs two handlers suffice for every race between a check and a
write, and the properties about limits say by how much they can be overrun as
a function of the handlers. A feed needs three posts and pages of one so that a
post comes before, at and after a cursor, with two in one tick and two kinds of
place. Three days make a discount begin, end and be followed by another one, two runs of
its jobs overlap; offers begin and end on two of the days (`OfferDays`) and an
update gives their beginning or their `active`, one at a time (`OfferForms`), so that two updates side
by side check what neither writes. One failure (`MaxFailures`) shows each slip
once. Two starts of the server make a run that an earlier start began. Symmetry is used
in runs whose properties are invariants or step properties, never with
liveness. `CHECK_DEADLOCK FALSE` in the runs of the services: a scenario ends
when its ids and bounds are used up.

**Fairness.** `FairSpec` asks that a step of a billing handler that is under way
is eventually taken (the event loop runs resolved promises; a call that hangs is
a failure), that a registered job that has work is eventually started (the
scheduler fires it daily; a weak fairness, as the work stays until it is done),
and that days go by. Nobody is required to make a request, to pay or to be
notified: lost notices are included. `FailuresEnd` says that failures, of any
number, stop at some time (a step that a handler takes in any case is not one,
even when it writes nothing): with a failure at every run no job could ever do
its work. `FairCommunitySpec` asks that the mail digest keeps running and that
its cooldown passes; readers, authors and the push digest owe nothing, and the
server stops at most `MaxStops` times. `Platform`'s `Spec` asks only that the
restoring job goes on (`RestoreSteps`), with at most `MaxFailures` failed calls.

## 5. What is proved

`Subscriptions_proof` proves for **all** values of the constants (users, ids,
plans, periods, workers, jobs, entry points, failures or none):

| Theorem | States |
|---|---|
| `Invariance` | `Spec => []IInv` |
| `TypeCorrect` | `Spec => []TypeOK` |
| `ConfirmedBeforeInForce` | `Spec => []InForceIsConfirmed` |
| `LedgerCorrect` | `Spec => []LedgerIsTrue` |
| `LinksCorrect` | `Spec => []LinkedPreapprovalIsOwn` |
| `LedgerStays` | `Spec => LedgerIsAppendOnly` |
| `ImplementsAccess` | `Spec => KeepsPromise`, the refinement of `Access` |

Assumptions: `PlansAssumption` (periods positive, trials and grace natural
numbers), `JobsAssumption` and `NullAssumption` (null is no id). TLC evaluates
them in every run.

**The argument.** `InForceIsConfirmed` is not inductive: `Activate` writes
"active" from a status read several awaits earlier, and knows nothing of the
payment at the moment of the write. What saves the code is *stability*: what a
handler has read and acts on cannot be undone by anyone.

- `Grows` collects these stable facts of a step: a subscription that exists goes
  on existing with the same user, an approved payment stays approved, a
  confirmed preapproval stays confirmed, none of them changes owner.
- `ProcOK(r)` says what a handler in flight still knows: the rows it holds
  exist (`KnowsRows`), the payment is the one MercadoPago has and "approved"
  still stands (`KnowsPayment`), the preapproval is the subscription's
  (`KnowsPreapproval`), what it is about to put in force is confirmed
  (`KnowsConfirmed`).
- `IInv` is `TypeOK`, the facts on the tables (`TablesOK`, of which
  `InForceIsConfirmed` and `LedgerIsTrue` are conjuncts) and
  `ProcOK` of every process.

Lemma `ProcGrows` is the heart: a step that `Grows` preserves `ProcOK` of every
handler that did not move, whoever moved. So each action only has to show
that it grows, that the tables stay in order, and that the record it leaves in
`proc` is `ProcOK`; one lemma per group of actions (`CreateSteps` ...
`TickStep`) does so and `NextKeeps` puts them together. For the refinement,
`Means` gives the meaning of each step for access (a grant, a revocation, news
of a confirmation, or nothing) and `NextMeans` shows every step has one. The
refinement needs the invariant: that the handler about to open a profile
holds a confirmed user is `KnowsConfirmed`.

`Credit` (`Spec => []CreditIsBounded`) has an invariant of its own, `CreditInv`:
every date, in a row, in the hand of a handler, or due next at MercadoPago, is
within what one payment or the trial of some plan reaches. What a step owes is
that each date stays or is explained anew (`SubEnds`, `ProcEnds`, `NextEnds`),
and that a day that goes by brings all of them nearer.

### The other services

All but the last row are about the specification of a service by itself, for
**all** values of its constants: users, rows, handlers and scenarios.

| Theorem (module) | States |
|---|---|
| `CronTypes`, `ExecutionsTruth` (`CronRunner_proof`) | `CronSpec => []CronTypeOK`, `[]ExecutionsTellTheTruth` |
| `FeedTypes`, `FeedWalk`, `FeedReaders`, `FeedLimits` (`Community_proof`) | `CommunitySpec => []FeedTypeOK`, `[]FeedWalkIsExact`, `[]FeedIsReadable`, `[]LimitsHoldUpToRaces` |
| `PushAnnouncesOnce`, `PushLeavesBadges` (`Community_proof`) | `CommunitySpec => AnnouncedOnce`, `PushKeepsBadges` (action properties) |
| `TaxonomyTree` (`Catalogue_proof`) | `TaxonomySpec => []TreeIsSound` |
| `LowPrices`, `Overlaps`, `OfferUses` (`Catalogue_proof`) | `DiscountsSpec => []LowPriceIsAccountedFor`, `[]OverlapsComeFromRaces`, `[]UsesStayNearLimit` |
| `MessageBadges`, `MessageHiding` (`Boards_proof`) | `MessagesSpec => []BadgeMatchesThread`, `HiddenByItsSide` |
| `JobTallies`, `FieldPlaces`, `WholeSync` (`Boards_proof`) | `JobsSpec => []JobTalliesAreTrue`, `LandingsSpec => []FieldOrdersClashOnlyInRaces`, `ExternalJobsSpec => []SyncIsWhole` |
| `ResetLinks`, `VerifiedTrials` (`People_proof`) | `AccountsSpec => []ResetLinkWorksOnce`, `[]TrialGoesWithVerification` |
| `Listings`, `PayerListed`, `FileUrls` (`People_proof`) | `ProfilesSpec => []ListingsFollowReview`, `[]PayerStaysListed`, `FilesSpec => []FilesMatchUrls` |
| `PlatformTypes`, `PlatformSafe`, `PlatformHides` (`Platform_proof`) | `Spec => []PlatformTypeOK`, `[]` of the fourteen invariants of the run `platform`, `HiddenByItsSide` |

**Assumptions**, each evaluated by TLC in the runs: there are finitely many
handlers and at least one (`HandlersAssumption`: a server has a bounded number of
requests in flight; without any, a quota of 0 posts would be "overrun by -1");
ids are numbers, and 0 is none where it stands for null; places, rubros and groups
have names of their own, and the professionals are users; a month and a page
have a length; the calendar of the discounts has a day; a scenario of `Platform` is about
one service (`PlatformAssumption`). Bounds such as `MaxClock`,
`MaxTokens` or `LastDay` are any numbers.

**The arguments.**

*Claims and rows.* Where a limit is checked in one step and used up in a later
one, the limit itself is not inductive: the second of two handlers has read the
same number. What is inductive is the sum of the rows and of the handlers that
are past their check (`RoomAtPlace`, `DiscountPeriodsOK`, `UsesOK`, `TokensOK`,
`TrialsOK`, `QuotaOK`): the write turns a claim into a row and the sum stays; a handler that passes the check adds one to a sum of claims
alone. That at most `Side` handlers are busy is `BusyOK`; `HandsOver` and
`TwoKinds` of `Service_proof` are the counting steps. The quota of the free plan
needs the claims of *later* months as well, since a post may be counted in one month
and stored in the next; the images of a post are bounded by a union over handlers
of sets that are each within the limit (`UnionBound`).

*What a check lasts.* `TaxonomyInv` says what an admin's handler that passed its
checks still knows, because categories are not removed and keep their level
(`ChecksLast`), and what it knows only if it runs alone (`CalmChecks`). `PriceInv`
does so for every run of the two jobs of the discounts and the rows on its list,
`OfferPeriodsOK` for the offers two handlers write side by side (a period nobody
else changed since it was checked is still clear), `ReviewOK` for a review that
wrote its row and not yet the profile, and `PayerOK` for a confirmed payment whose
profile is still to be written, beside logins that may act only on an over
trial they saw. `SyncInv` does it for the postings a synchronisation has fetched,
found, or still has to (`Covers`), and `FilesInv` for the files a handler has
stored or deleted and whose URL it has not written (`HeldOK`).

*Two readings of one table.* The badge and the thread, the two job boards and the
lists of the tree agree once the types are known; what is inductive is small
(`TwoSides`, `JobsInv`, `LevelsOK`). `FeedIsReadable` needs that a post of a group
has its group, through every deletion (`ReadersOK`).

*The feed.* `WalkOK` says of a reader under way that what he was shown does not
come after the cursor any more (`ShownOK`), and that what was in his feed all along was
shown or comes after it (`ThereOK`). It lasts because a post keeps its place and
its date and an id is not given out again (`PlacesKept`); this is why the model
remembers the ids in `made`. That a page takes the reader from one cursor to
the next without a gap is `PageIsExact`: there is a sorted sequence of the rows and
it holds each of them once (`SortedIsSorted`), and of two tables the first limit + 1 of
each are enough, since a post left out of one has that many of its own table
before it (`TakeIsEnough`).

*The push.* `PushOK` and `SettledOK` say that a post of the open community that
a push has counted for a user is in his row, as seen or as pushed, as long as the post exists.
Nothing takes it out: the steps that touch a row only add to it (`RowsKeepTelling`).
A new reading takes only what is in neither, so it announces nothing twice; and
marking writes to `pushed` alone, or makes a row that has seen nothing, so that no badge changes.

*The composition.* `PlatformInv` says that the service a scenario is about keeps the
inductive invariant of its own module (`Kept`) and that every other one is as it
began (`Apart`); `SyncIsWhole`, the one invariant that looks at the handlers whoever
runs them, needs in addition that no handler of another service synchronises. Each step
is one lemma of the service that moves (`MessagesStep`, ..., `FilesStep`), and
`ServiceMoves` for the rest.

*The runner.* Its log is written last: what a row of `job_executions` says follows
from how its run got there, so the strengthening (`RunsOK`) says that a run on
its way to "completed" has a handler that returned, that one on its way to
"failed" has one that threw unless the database was away, and that a run without
a last word was left by an earlier start of the server; `StartsOK` gives the
latter its induction. `OneRun` draws the invariant from what the run that moved
owes, `ExecutionsKept` from steps that touch no execution.

**What the proofs found.** A first attempt failed for a reason three times, and the
model was wrong each time: the ids of posts deleted with their group were given out
again, which no uuid is (now `made`); two cases of `UpdateProfessional` overlapped,
so that a field was left open that the code determines; and an instance without
handlers satisfied the assumptions.

**Only model-checked.** Liveness under fairness (`ExpiryIsNoticed`,
`NoAccessForFree`, `AbandonedIsClosed`, `DigestReachesReader`,
`ExpiredIsRestored`): outside the prover's reach. The library's induction
theorems cannot be instantiated here; where a fact needs induction over a number
(a finite set has a first element, a union of n sets is bounded) the proofs take
the least counterexample instead, by `LeastNumber` of `Service_proof`. Nothing in
the proof modules is recursive.

## 6. Plan

No safety property of a passing run is without a theorem. Modelling would go on with
the hazards `PROJECT.json` lists without a property, and with what two services do to
one row together (a registration and the profile it creates), which `Platform` has apart.

### Not modelled

Calendar arithmetic (`setMonth`), the mapping of a posting's fields, templates
and mail, captcha, statistics and exports, the checklist of a profile, `verifyDocument`, `changePassword` and the login of
admins, `createChannel` and `createLanding` (initial states), a change of a
post's text, `getTier`, contacts, locations, catalogs and the dashboard: single
writes or queries that no other step depends on.

## 7. Where code and texts disagree

Each `v_` run has a counterexample of a few steps.

- `v_idempotent`: a second notice of a payment already registered re-activates a
  cancelled subscription. `activateFromCheckoutPayment` writes whatever
  `registerPaymentBySubscriptionId` found.
- `v_charge_extends`: a recurring charge first notified while under review is
  registered as rejected; its approval then finds the row and is ignored.
- `v_cancel_access`: cancelling a recurring subscription makes MercadoPago
  notify "cancelled", which takes the profile down with time left.
- `v_one_in_force`: two requests at once leave two authorized preapprovals
  charging one user.
- `v_stays_overdue`: `subscribeWithBricks` takes the pending row of a checkout
  link over before MercadoPago answers. If that call fails and the old link is
  paid, the subscription is active with a recurring strategy and the externalId
  of a preference: the renewal job passes over its strategy, the one for
  preapprovals fails at every run, and the subscription stays active, and the
  profile up, for ever. `ExpiryIsNoticed` and `NoAccessForFree` say in
  `Reachable` and `RunOut` that they leave it out.

Reached in the billing models, of the same kinds, and without a run of their own:

- `cancel` stores the end date of a row it read before the gateway call, and
  overwrites a newer one;
- a handler that wrote "authorized" opens the profile after a pause was handled
  in between; no job takes it down, as the subscription says paused and has no end;
- the job for lapsed subscriptions takes a profile down although a payment
  arrived between its check and its write;
- a ledger row stays `sub_rejected` for a one-off payment first seen under
  review, while the subscription it paid is active;
- the job for stale links updates by id alone, and cancels a subscription paid
  between its read and its write;
- the redirect method's external reference is not a subscription id, so when
  `externalId` is missing or was overwritten by another method the notice of an
  authorized preapproval finds nothing;
- a late notice about an old preapproval takes the profile down although another
  subscription pays for it.

Met in the other services:

- a payment that arrives while a profile is `pending_review` makes it `active`:
  it is no longer in `getPendingReview`, and stays out of the listings, as
  `validatedAt` is null;
- the routes of a group ask for the role professional or admin, the feed and the
  menu do not: a company an admin made a member sees posts in its feed that
  `/channels` refuses (`FeedIsReadable` says so in its guard);
- the mail digest does not ask `isPaid`, which the feed does; a row it creates says "seen now" (`daily-digest-cron.service.ts:289`) and clears
  the badge, where the push digest takes care not to;
- a discount whose row is removed while the job applies it leaves the low price
  in place, and one that ends during a pause is marked restored without a call
  to MercadoPago; so do a call that takes effect and fails and a mark that fails
  (`slips` in `LowPriceIsAccountedFor`); the restoration of an earlier discount
  undoes the next one that was already applied, as does `updateSubscriptionAmount`;
- an update of an offer checks the row it read and writes the given fields alone:
  two at once leave two active offers for one day (`raced`), and a checkout takes
  any of them;
- a use of an offer that could not be counted leaves room for one more;
- a posting whose upsert fails is logged and passed over until the next run;
- a stop between the two writes of `verifyEmail` loses the trial, and a
  failure or a stop between a file and its row leaves a URL without a file or a
  file without a URL: identity files among them, which no approval erases any
  more (`parted` in `FilesMatchUrls`);
- a stop between the confirmation of a payment and the profile, and a login that
  read a trial that was over before a payment, leave a payer out of the listings
  until the next confirmation (`outed` in `PayerStaysListed`);
- a section saved from an earlier read sets `currentStep` back after a submission.
