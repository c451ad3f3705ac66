--------------------------- MODULE Subscriptions ---------------------------
(***************************************************************************)
(* The billing of the backend: requests, webhooks and cron jobs over one   *)
(* database, MercadoPago on the other side, and time.                      *)
(***************************************************************************)
EXTENDS SubscriptionRequests, PaymentWebhooks, BillingJobs

Start(p) == RequestStart(p) \/ WebhookStart(p) \/ JobStart(p)
Step(p)  == RequestStep(p) \/ WebhookStep(p) \/ JobStep(p)

Next ==
    \/ \E p \in Procs : Start(p) \/ Step(p) \/ Fail(p) \/ SkipOnError(p)
    \/ GatewayStep
    \/ Tick

Spec == Init /\ [][Next]_vars

(* Work the event loop has taken up goes on, the scheduler fires its jobs, *)
(* and days go by.  Nobody has to make a request, pay, or be notified.     *)
Fairness ==
    /\ \A p \in Procs : WF_vars(Step(p))
    /\ \A j \in Jobs : WF_vars(JobStart(j))
    /\ WF_vars(Tick)

FairSpec == Spec /\ Fairness

(* The server and its calls may fail any number of times, not for ever.    *)
(* A step that a handler takes in any case is no failure, even if it has   *)
(* nothing to write and so looks like one.                                 *)
FailuresEnd ==
    <>[][\A p \in Procs : Fail(p) \/ SkipOnError(p) => Step(p)]_vars

FairSpecWithFailures == FairSpec /\ FailuresEnd

(***************************************************************************)
(* Safety.                                                                 *)
(***************************************************************************)

(* A subscription the backend counts as in force has been confirmed by     *)
(* MercadoPago: an approved payment of its own for "active", that or an    *)
(* authorized preapproval of its own for "authorized".  Several handlers   *)
(* write these states from values they read earlier.                       *)
InForceIsConfirmed ==
    \A s \in Subs :
        /\ sub[s].status = "active" => Paid(s)
        /\ sub[s].status = "authorized" => Confirmed(s)

(* A row of the ledger is credited to the subscription the payment was     *)
(* made for, and says approved only if MercadoPago approved the payment.   *)
LedgerIsTrue ==
    \A q \in Payments :
        row[q].status # "none" =>
            /\ row[q].sub = payment[q].sub
            /\ row[q].status = "sub_approved" => payment[q].state = "approved"

(* The externalId that recurring charges are looked up by is the           *)
(* preapproval made for that very subscription, through every reuse of a   *)
(* pending subscription by another payment method.                         *)
LinkedPreapprovalIsOwn ==
    \A s \in Subs : sub[s].ext \in Preapprovals => preapproval[sub[s].ext].sub = s

(* However often a notice is delivered, and whatever else runs meanwhile,  *)
(* a subscription is never in force further ahead than one period and its  *)
(* grace, or the free trial MercadoPago grants: credit does not add up.    *)
CreditIsBounded ==
    \A s \in Subs : sub[s].end # None =>
        \E plan \in Plans :
            sub[s].end <= PaidUntil(plan) \/ sub[s].end <= TrialDays[plan]

(***************************************************************************)
(* What a step may never do.                                               *)
(***************************************************************************)

(* The ledger is append-only: no redelivered or overtaken notice changes a *)
(* payment already recorded.                                               *)
LedgerIsAppendOnly ==
    [][\A q \in Payments : row[q].status # "none" => row'[q] = row[q]]_vars

(***************************************************************************)
(* Liveness.                                                               *)
(***************************************************************************)

Overdue(s) == sub[s].status = "active" /\ Passed(sub[s].end)

(* The jobs go by paymentStrategy: one that asks for a new payment for the *)
(* one-off methods, one that asks MercadoPago about the preapproval for    *)
(* the others.  A subscription of a recurring method that has no           *)
(* preapproval's externalId is out of reach of both.                       *)
Reachable(s) == sub[s].kind \in OneOff \/ sub[s].ext \in Preapprovals

(* An active subscription whose end has passed does not stay that way      *)
(* while a renewal job can reach it: the job of its kind asks for a new    *)
(* payment, recovers one, or takes it out of force.  (Out of reach is the  *)
(* link that subscribeWithBricks took over before it failed, and that was  *)
(* paid all the same: see EveryExpiryIsNoticed.)                           *)
Forgotten(s) == Overdue(s) /\ Reachable(s)
ExpiryIsNoticed == \A s \in Subs : Forgotten(s) ~> ~Forgotten(s)

(* A link nobody pays, and nobody takes over, for StaleAge days            *)
Abandoned(s) == sub[s].status = "pending" /\ sub[s].link /\ sub[s].age = StaleAge

(* What some job will look for, because its time has run out               *)
RunOut(s) ==
    /\ Passed(sub[s].end)
    /\ sub[s].status = "cancelled" \/ Abandoned(s) \/ Forgotten(s)

(* A profile that is up without a trial, and whose every subscription has  *)
(* run out, comes down or finds a justification, although each of the jobs *)
(* writes subscription and profile apart, a failure may lie between them,  *)
(* and a webhook in flight may open the profile again after a job.  Not    *)
(* covered, because no job looks for them: subscriptions that are paused   *)
(* or cancelled without an end, and those out of reach of the renewal jobs.*)
Unjustified(u) ==
    /\ profile[u].status = "active"
    /\ profile[u].isActive
    /\ profile[u].trial = None
    /\ \E s \in Subs : sub[s].user = u
    /\ \A s \in Subs : sub[s].user = u => RunOut(s)
NoAccessForFree == \A u \in Users : Unjustified(u) ~> ~Unjustified(u)

(* A link nobody pays does not stay pending.                               *)
AbandonedIsClosed == \A s \in Subs : Abandoned(s) ~> ~Abandoned(s)

(***************************************************************************)
(* The billing code implements Access.                                     *)
(***************************************************************************)
Promise == INSTANCE Access WITH
    open      <- {u \in Users : profile[u].isActive},
    confirmed <- {u \in Users : ConfirmedUser(u)}

KeepsPromise == Promise!Spec

(***************************************************************************)
(* What comments and messages of the source say and the code does not do.  *)
(***************************************************************************)

(* "La confirmación por webhook es idempotente": a notice of a payment the *)
(* ledger already has leaves the subscription as it is.                    *)
ConfirmationIsIdempotent ==
    [][\A p \in Workers, s \in Subs :
          /\ At(p, "activate") /\ proc[p].again /\ proc[p].sid = s
          /\ row[proc[p].pay].status = "sub_approved"
          /\ proc'[p].pc = "activateProfile"
          => sub'[s].status = sub[s].status /\ sub'[s].end = sub[s].end]_vars

(* "Un pago aprobado extiende la vigencia": the handler of an approved     *)
(* charge of a subscription that is known does not end before the ledger   *)
(* shows the payment approved.                                             *)
ApprovedChargeExtends ==
    [][\A p \in Workers :
          /\ At(p, "findByExt")
          /\ proc[p].then = "renew"
          /\ SubWithExt(proc[p].pre) # {}
          /\ proc'[p].pc = "idle"
          => row[proc[p].pay].status = "sub_approved"]_vars

(* "Tu perfil seguirá activo hasta el fin del período pagado": while a     *)
(* cancelled subscription has time left, the profile stays up.             *)
CancelledKeepsAccess ==
    [][\A s \in Subs :
          /\ sub[s].status = "cancelled"
          /\ sub[s].end # None
          /\ ~Passed(sub[s].end)
          /\ profile[sub[s].user].isActive
          => profile'[sub[s].user].isActive]_vars

(* "Para cada strategy registrada, busca suscripciones activas con endDate *)
(* expirado y delega la renovación": whatever its method, an active        *)
(* subscription whose end has passed does not stay so.                     *)
EveryExpiryIsNoticed == \A s \in Subs : Overdue(s) ~> ~Overdue(s)

(* "Ya tenés una suscripción activa": no user has two subscriptions in     *)
(* force.                                                                  *)
OneInForce == \A u \in Users : Cardinality(StatusIn(u, Live)) <= 1
=============================================================================
