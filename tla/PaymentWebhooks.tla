-------------------------- MODULE PaymentWebhooks --------------------------
(***************************************************************************)
(* The webhook controller and the service methods it calls: what the       *)
(* backend does when MercadoPago notifies it of a payment or of a          *)
(* preapproval.  The handler reads the object's current state at           *)
(* MercadoPago and answers 200 whatever happens, so a notice whose handler *)
(* fails or finds no subscription is not sent again.                       *)
(***************************************************************************)
EXTENDS MercadoPago

(* --- notices of payments ----------------------------------------------- *)

(* Variant: acts on a payment that is still under review.                  *)
PaymentNoticeOptimistic(p, q) ==
    /\ CanStart(p, "webhook")
    /\ payment[q].state # "none"
    /\ payment[q].pre = None
    /\ Become(p, [Idle EXCEPT
           !.pc = "findRow", !.pay = q, !.sid = payment[q].sub,
           !.seen = payment[q].state,
           !.then = IF payment[q].state = "rejected" THEN "done" ELSE "activate"])
    /\ UNCHANGED <<sub, profile, row, payment, preapproval, links>>

(* handlePayment: a payment with an external reference and no preapproval  *)
(* is taken by the first strategy that knows it (checkout).                *)
PaymentNotice(p, q) ==
    /\ CanStart(p, "webhook")
    /\ payment[q].state # "none"
    /\ payment[q].pre = None
    /\ Become(p, [Idle EXCEPT
           !.pc = "findRow", !.pay = q, !.sid = payment[q].sub,
           !.seen = payment[q].state,
           !.then = IF payment[q].state = "approved" THEN "activate" ELSE "done"])
    /\ UNCHANGED <<sub, profile, row, payment, preapproval, links>>

(* A preapproval's payment, whether it comes as a "payment" event or as a  *)
(* "subscription_authorized_payment" one: looked up by preapproval.        *)
ChargeNotice(p, q) ==
    /\ CanStart(p, "webhook")
    /\ payment[q].state # "none"
    /\ payment[q].pre # None
    /\ Become(p, [Idle EXCEPT
           !.pc = "findByExt", !.pay = q, !.pre = payment[q].pre,
           !.seen = payment[q].state,
           !.then = IF payment[q].state = "approved" THEN "renew" ELSE "done"])
    /\ UNCHANGED <<sub, profile, row, payment, preapproval, links>>

(* --- the ledger -------------------------------------------------------- *)

(* What follows once the ledger has the payment.                           *)
AfterRow(p, r) ==
    CASE r.then \in {"activate", "renew"} -> Become(p, [r EXCEPT !.pc = "activate"])
      [] r.then = "reject"                -> Become(p, [r EXCEPT !.pc = "bricksReject"])
      [] OTHER                            -> Finish(p)

(* activateFromCheckoutPayment and registerPaymentBySubscriptionId read    *)
(* the subscription, then the ledger; a known payment is not registered    *)
(* again, and the handler goes on as after registering it.                 *)
FindRow(p) ==
    /\ At(p, "findRow")
    /\ LET r == [proc[p] EXCEPT !.plan = sub[proc[p].sid].plan,
                                !.user = sub[proc[p].sid].user]
       IN  IF row[proc[p].pay].status # "none"
           THEN AfterRow(p, [r EXCEPT !.again = TRUE])
           ELSE Become(p, [r EXCEPT !.pc = "createRow"])
    /\ UNCHANGED <<sub, profile, row, payment, preapproval, links>>

(* registerPayment: a known payment, or an unknown preapproval, ends it.   *)
FindByExt(p) ==
    /\ At(p, "findByExt")
    /\ IF row[proc[p].pay].status # "none" \/ SubWithExt(proc[p].pre) = {}
       THEN Finish(p)
       ELSE \E s \in SubWithExt(proc[p].pre) :
                Become(p, [proc[p] EXCEPT !.pc = "createRow", !.sid = s,
                               !.plan = sub[s].plan, !.user = sub[s].user])
    /\ UNCHANGED <<sub, profile, row, payment, preapproval, links>>

(* Variants: the gateway's status is stored as it is; a payment under      *)
(* review is stored as approved; a known payment is overwritten.           *)
CreateRowAs(p, status) ==
    /\ row' = [row EXCEPT ![proc[p].pay] = [status |-> status, sub |-> proc[p].sid]]
    /\ AfterRow(p, proc[p])
    /\ UNCHANGED <<sub, profile, payment, preapproval, links>>

CreateRowRaw(p) == At(p, "createRow") /\ CreateRowAs(p, proc[p].seen)

CreateRowOptimistic(p) ==
    /\ At(p, "createRow")
    /\ row[proc[p].pay].status = "none"
    /\ CreateRowAs(p, IF proc[p].seen = "rejected" THEN "sub_rejected"
                      ELSE "sub_approved")

CreateRowUpsert(p) ==
    /\ At(p, "createRow")
    /\ CreateRowAs(p, IF proc[p].seen = "approved" THEN "sub_approved"
                      ELSE "sub_rejected")

(* _createPaymentRecord: externalId is unique, so the second of two        *)
(* handlers that both missed the row gets an exception.                    *)
CreateRow(p) ==
    /\ At(p, "createRow")
    /\ IF row[proc[p].pay].status = "none"
       THEN /\ row' = [row EXCEPT ![proc[p].pay] =
                  [status |-> IF proc[p].seen = "approved" THEN "sub_approved"
                              ELSE "sub_rejected",
                   sub |-> proc[p].sid]]
            /\ AfterRow(p, proc[p])
       ELSE Finish(p) /\ UNCHANGED row
    /\ UNCHANGED <<sub, profile, payment, preapproval, links>>

(* Variants: the end date is forgotten; a period is added to the one that  *)
(* is running.                                                             *)
ActivateUntil(p, d) ==
    /\ At(p, "activate")
    /\ WriteSub(proc[p].sid, [sub[proc[p].sid] EXCEPT !.status = "active", !.end = d])
    /\ Goto(p, "activateProfile")
    /\ UNCHANGED <<profile, row, payment, preapproval, links>>

ActivateForEver(p) == ActivateUntil(p, sub[proc[p].sid].end)

ActivateAddsUp(p) ==
    ActivateUntil(p, PaidUntil(proc[p].plan)
        + IF sub[proc[p].sid].end = None THEN 0 ELSE sub[proc[p].sid].end)

(* The update of the subscription in activateFromCheckoutPayment and in    *)
(* _renewSubscriptionVigency: active, and paid from today on.              *)
Activate(p) ==
    /\ At(p, "activate")
    /\ WriteSub(proc[p].sid, [sub[proc[p].sid] EXCEPT
                                  !.status = "active",
                                  !.end = PaidUntil(proc[p].plan)])
    /\ Goto(p, "activateProfile")
    /\ UNCHANGED <<profile, row, payment, preapproval, links>>

ActivateProfile(p) ==
    /\ At(p, "activateProfile")
    /\ ActivateProfileOf(proc[p].user)
    /\ Finish(p)
    /\ UNCHANGED <<sub, row, payment, preapproval, links>>

(* --- notices of preapprovals ------------------------------------------- *)

PreapprovalNotice(p, m) ==
    /\ CanStart(p, "webhook")
    /\ preapproval[m].state # "none"
    /\ Become(p, [Idle EXCEPT !.pc = "findPreapproval", !.pre = m,
                              !.seen = preapproval[m].state])
    /\ UNCHANGED <<sub, profile, row, payment, preapproval, links>>

(* Variant: falls back on any subscription that waits for its externalId.  *)
FindPreapprovalAnyPending(p) ==
    /\ At(p, "findPreapproval")
    /\ \E s \in Subs :
           /\ \/ s \in SubWithExt(proc[p].pre)
              \/ sub[s].status = "pending" /\ sub[s].ext = None
           /\ Become(p, [proc[p] EXCEPT !.sid = s, !.plan = sub[s].plan,
                  !.user = sub[s].user,
                  !.pc = IF sub[s].ext = None THEN "linkExt" ELSE "writeStatus"])
    /\ UNCHANGED <<sub, profile, row, payment, preapproval, links>>

(* updateStatus: by externalId, else by the external reference when it is  *)
(* the id of a subscription, else the notice is dropped.                   *)
FindPreapproval(p) ==
    /\ At(p, "findPreapproval")
    /\ LET m == proc[p].pre
           found(s, l) == Become(p, [proc[p] EXCEPT !.pc = l, !.sid = s,
                              !.plan = sub[s].plan, !.user = sub[s].user])
       IN  IF SubWithExt(m) # {}
           THEN \E s \in SubWithExt(m) : found(s, "writeStatus")
           ELSE IF preapproval[m].ref
           THEN LET s == preapproval[m].sub
                IN  found(s, IF sub[s].ext = None THEN "linkExt" ELSE "writeStatus")
           ELSE Finish(p)
    /\ UNCHANGED <<sub, profile, row, payment, preapproval, links>>

LinkExt(p) ==
    /\ At(p, "linkExt")
    /\ WriteSub(proc[p].sid, [sub[proc[p].sid] EXCEPT !.ext = proc[p].pre])
    /\ Goto(p, "writeStatus")
    /\ UNCHANGED <<profile, row, payment, preapproval, links>>

(* The trial is granted when MercadoPago reports the start of the          *)
(* subscription, each time it reports it; the profile is taken down when   *)
(* it reports a pause or the end.                                          *)
AfterStatus(p) ==
    CASE proc[p].seen = "authorized" /\ TrialDays[proc[p].plan] > 0 ->
             Goto(p, "trialEnd")
      [] proc[p].seen \in {"paused", "cancelled"} -> Goto(p, "suspendProfile")
      [] OTHER -> Finish(p)

WriteStatus(p) ==
    /\ At(p, "writeStatus")
    /\ WriteSub(proc[p].sid, [sub[proc[p].sid] EXCEPT !.status = proc[p].seen])
    /\ AfterStatus(p)
    /\ UNCHANGED <<profile, row, payment, preapproval, links>>

TrialEnd(p) ==
    /\ At(p, "trialEnd")
    /\ profile' = [profile EXCEPT ![proc[p].user].trial =
                      preapproval[proc[p].pre].trial]
    /\ Finish(p)
    /\ UNCHANGED <<sub, row, payment, preapproval, links>>

SuspendProfile(p) ==
    /\ At(p, "suspendProfile")
    /\ DeactivateProfileOf(proc[p].user)
    /\ Finish(p)
    /\ UNCHANGED <<sub, row, payment, preapproval, links>>

(* ----------------------------------------------------------------------- *)

WebhookStart(p) ==
    \/ \E q \in Payments : PaymentNotice(p, q) \/ ChargeNotice(p, q)
    \/ \E m \in Preapprovals : PreapprovalNotice(p, m)

WebhookStep(p) ==
    \/ FindRow(p) \/ FindByExt(p) \/ CreateRow(p) \/ Activate(p)
    \/ ActivateProfile(p) \/ FindPreapproval(p) \/ LinkExt(p)
    \/ WriteStatus(p) \/ TrialEnd(p) \/ SuspendProfile(p)
=============================================================================
