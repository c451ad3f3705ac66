----------------------- MODULE SubscriptionRequests -----------------------
(***************************************************************************)
(* The requests a professional makes on subscriptions.service.ts: create,  *)
(* payWithBricks, subscribeWithBricks and cancel, one action per database  *)
(* or gateway round trip.                                                  *)
(***************************************************************************)
EXTENDS MercadoPago

Live     == {"authorized", "active"}
NotEnded == Live \cup {"pending"}

(* --- create ------------------------------------------------------------ *)

(* No subscription in force: go on.  (With one, the request is refused and *)
(* nothing changes.)                                                       *)
CreateCheckLive(p, u, plan, kind) ==
    /\ CanStart(p, kind)
    /\ StatusIn(u, Live) = {}
    /\ Become(p, [Idle EXCEPT !.pc = "createPending", !.user = u,
                              !.plan = plan, !.kind = kind])
    /\ UNCHANGED <<sub, profile, row, payment, preapproval, links>>

(* A pending subscription for the same plan is returned as it is.          *)
CreateCheckPending(p) ==
    /\ At(p, "createPending")
    /\ IF \E s \in StatusIn(proc[p].user, {"pending"}) : sub[s].plan = proc[p].plan
       THEN Finish(p)
       ELSE Goto(p, "createInsert")
    /\ UNCHANGED <<sub, profile, row, payment, preapproval, links>>

NewSub(u, plan, kind) ==
    [NoSub EXCEPT !.status = "pending", !.user = u, !.plan = plan, !.kind = kind]

(* The ids of Subs bound the number of subscriptions: a request that finds *)
(* none left is dropped.                                                   *)
CreateInsert(p) ==
    /\ At(p, "createInsert")
    /\ \/ \E s \in Unused :
              /\ WriteSub(s, NewSub(proc[p].user, proc[p].plan, proc[p].kind))
              /\ Become(p, [proc[p] EXCEPT !.pc = "createGateway", !.sid = s])
       \/ Unused = {} /\ Finish(p) /\ UNCHANGED sub
    /\ UNCHANGED <<profile, row, payment, preapproval, links>>

(* strategy.createPayment.  The two Bricks strategies always throw here.   *)
CreateGateway(p) ==
    /\ At(p, "createGateway")
    /\ \/ /\ proc[p].kind = "mp_checkout"
          /\ links' = links \cup {proc[p].sid}
          /\ Become(p, [proc[p] EXCEPT !.pc = "createSave", !.ext = Opaque])
          /\ UNCHANGED preapproval
       \/ /\ proc[p].kind = "mp_subscription"
          /\ \E m \in FreePreapprovals :
                 /\ NewPreapproval(m, proc[p].sid, proc[p].plan, "pending", FALSE)
                 /\ Become(p, [proc[p] EXCEPT !.pc = "createSave", !.ext = m])
          /\ UNCHANGED links
       \/ /\ \/ "failure" \in Entries
             \/ proc[p].kind \in {"mp_bricks", "mp_bricks_subscription"}
             \/ proc[p].kind = "mp_subscription" /\ FreePreapprovals = {}
          /\ Goto(p, "createFailed")
          /\ UNCHANGED <<preapproval, links>>
    /\ UNCHANGED <<sub, profile, row, payment>>

CreateFailed(p) ==
    /\ At(p, "createFailed")
    /\ WriteSub(proc[p].sid, [sub[proc[p].sid] EXCEPT !.status = "cancelled"])
    /\ Finish(p)
    /\ UNCHANGED <<profile, row, payment, preapproval, links>>

CreateSave(p) ==
    /\ At(p, "createSave")
    /\ WriteSub(proc[p].sid, [sub[proc[p].sid] EXCEPT !.ext = proc[p].ext,
                                                      !.link = TRUE])
    /\ Goto(p, "createProfile")
    /\ UNCHANGED <<profile, row, payment, preapproval, links>>

CreateProfile(p) ==
    /\ At(p, "createProfile")
    /\ profile' = [profile EXCEPT ![proc[p].user].status =
                      IF @ = "onboarding" THEN "waiting_payment" ELSE @]
    /\ Finish(p)
    /\ UNCHANGED <<sub, row, payment, preapproval, links>>

(* --- payWithBricks and subscribeWithBricks ----------------------------- *)

BricksCheckLive(p, u, plan, entry) ==
    /\ CanStart(p, entry)
    /\ StatusIn(u, Live) = {}
    /\ Become(p, [Idle EXCEPT !.pc = "bricksPending", !.user = u, !.plan = plan,
                              !.kind = IF entry = "payWithBricks" THEN "mp_bricks"
                                       ELSE "mp_bricks_subscription"])
    /\ UNCHANGED <<sub, profile, row, payment, preapproval, links>>

(* Any pending subscription of the user will do, whatever its plan.        *)
BricksFindPending(p) ==
    /\ At(p, "bricksPending")
    /\ LET pending == StatusIn(proc[p].user, {"pending"})
       IN  \/ \E s \in pending :
                  Become(p, [proc[p] EXCEPT !.pc = "bricksUpsert", !.sid = s])
           \/ pending = {} /\ Goto(p, "bricksUpsert")
    /\ UNCHANGED <<sub, profile, row, payment, preapproval, links>>

AfterUpsert(kind) ==
    IF kind = "mp_bricks" THEN "bricksCharge" ELSE "subscribeGateway"

(* The subscription found is taken over, whatever became of it since.      *)
BricksReuse(p) ==
    /\ At(p, "bricksUpsert")
    /\ proc[p].sid # None
    /\ WriteSub(proc[p].sid, [sub[proc[p].sid] EXCEPT !.plan = proc[p].plan,
                                                      !.kind = proc[p].kind])
    /\ Goto(p, AfterUpsert(proc[p].kind))
    /\ UNCHANGED <<profile, row, payment, preapproval, links>>

BricksInsert(p) ==
    /\ At(p, "bricksUpsert")
    /\ proc[p].sid = None
    /\ \/ \E s \in Unused :
              /\ WriteSub(s, NewSub(proc[p].user, proc[p].plan, proc[p].kind))
              /\ Become(p, [proc[p] EXCEPT !.pc = AfterUpsert(proc[p].kind),
                                           !.sid = s])
       \/ Unused = {} /\ Finish(p) /\ UNCHANGED sub
    /\ UNCHANGED <<profile, row, payment, preapproval, links>>

(* payWithToken charges at once.  An error thrown may hide a payment that  *)
(* was made: the request is gone, the payment stays at MercadoPago.        *)
BricksCharge(p) ==
    /\ At(p, "bricksCharge")
    /\ \/ \E q \in FreePayments, r \in {"approved", "pending", "rejected"} :
              /\ payment' = [payment EXCEPT ![q] =
                                [state |-> r, sub |-> proc[p].sid, pre |-> None]]
              /\ \/ Become(p, [proc[p] EXCEPT !.pc = "bricksSaveExt",
                                              !.pay = q, !.seen = r])
                 \/ "failure" \in Entries /\ Finish(p)
       \/ /\ FreePayments = {}
          /\ Finish(p)
          /\ UNCHANGED payment
    /\ UNCHANGED <<sub, profile, row, preapproval, links>>

(* Variant: activates unless the payment is rejected.                      *)
BricksSaveExtOptimistic(p) ==
    /\ At(p, "bricksSaveExt")
    /\ WriteSub(proc[p].sid, [sub[proc[p].sid] EXCEPT !.ext = Opaque])
    /\ Become(p, [proc[p] EXCEPT !.pc = "findRow",
           !.then = IF proc[p].seen = "rejected" THEN "reject" ELSE "activate"])
    /\ UNCHANGED <<profile, row, payment, preapproval, links>>

BricksSaveExt(p) ==
    /\ At(p, "bricksSaveExt")
    /\ WriteSub(proc[p].sid, [sub[proc[p].sid] EXCEPT !.ext = Opaque])
    /\ CASE proc[p].seen = "approved" ->
                Become(p, [proc[p] EXCEPT !.pc = "findRow", !.then = "activate"])
         [] proc[p].seen = "pending"  -> Finish(p)
         [] OTHER ->
                Become(p, [proc[p] EXCEPT !.pc = "findRow", !.then = "reject"])
    /\ UNCHANGED <<profile, row, payment, preapproval, links>>

(* After a rejected payment is in the ledger.                              *)
BricksReject(p) ==
    /\ At(p, "bricksReject")
    /\ WriteSub(proc[p].sid, [sub[proc[p].sid] EXCEPT !.status = "cancelled"])
    /\ Finish(p)
    /\ UNCHANGED <<profile, row, payment, preapproval, links>>

(* payWithCardToken asks for a preapproval that is authorized at once.     *)
SubscribeGateway(p) ==
    /\ At(p, "subscribeGateway")
    /\ \/ \E m \in FreePreapprovals, r \in {"authorized", "pending"} :
              /\ NewPreapproval(m, proc[p].sid, proc[p].plan, r, TRUE)
              /\ \/ Become(p, [proc[p] EXCEPT !.pc = "subscribeSave",
                                              !.ext = m, !.seen = r])
                 \/ "failure" \in Entries /\ Finish(p)
       \/ FreePreapprovals = {} /\ Finish(p) /\ UNCHANGED preapproval
    /\ UNCHANGED <<sub, profile, row, payment, links>>

(* Variant: takes for granted that the preapproval came back authorized.   *)
SubscribeSaveOptimistic(p) ==
    /\ At(p, "subscribeSave")
    /\ WriteSub(proc[p].sid, [sub[proc[p].sid] EXCEPT !.ext = proc[p].ext,
                                                      !.status = "authorized"])
    /\ Goto(p, "subscribeProfile")
    /\ UNCHANGED <<profile, row, payment, preapproval, links>>

SubscribeSave(p) ==
    /\ At(p, "subscribeSave")
    /\ WriteSub(proc[p].sid, [sub[proc[p].sid] EXCEPT !.ext = proc[p].ext,
                                                      !.status = proc[p].seen])
    /\ IF proc[p].seen \in Live THEN Goto(p, "subscribeProfile") ELSE Finish(p)
    /\ UNCHANGED <<profile, row, payment, preapproval, links>>

SubscribeProfile(p) ==
    /\ At(p, "subscribeProfile")
    /\ ActivateProfileOf(proc[p].user)
    /\ Finish(p)
    /\ UNCHANGED <<sub, row, payment, preapproval, links>>

(* --- cancel ------------------------------------------------------------ *)

(* findFirst returns any of the user's subscriptions that has not ended;   *)
(* for a one-off strategy nothing is asked of MercadoPago.                 *)
CancelFind(p, u) ==
    /\ CanStart(p, "cancel")
    /\ \E s \in StatusIn(u, NotEnded) :
           Become(p, [Idle EXCEPT
               !.user = u, !.sid = s, !.kind = sub[s].kind, !.ext = sub[s].ext,
               !.end = IF sub[s].end = None THEN 0 ELSE sub[s].end,
               !.pc = IF sub[s].kind \in OneOff THEN "cancelSave"
                      ELSE "cancelGateway"])
    /\ UNCHANGED <<sub, profile, row, payment, preapproval, links>>

(* cancelPreapproval, then the date of the next payment, which MercadoPago *)
(* may not give: then the end is now.  A subscription whose externalId is  *)
(* not a preapproval's cannot be cancelled: the call throws.               *)
CancelGateway(p) ==
    /\ At(p, "cancelGateway")
    /\ LET m == proc[p].ext
       IN  \/ /\ m = None
              /\ Become(p, [proc[p] EXCEPT !.pc = "cancelSave", !.end = 0])
              /\ UNCHANGED preapproval
           \/ /\ Cancellable(m)
              /\ preapproval' = [preapproval EXCEPT ![m].state = "cancelled"]
              /\ \E d \in {preapproval[m].next, 0} :
                     Become(p, [proc[p] EXCEPT !.pc = "cancelSave", !.end = d])
           \/ /\ m # None /\ ~Cancellable(m)
              /\ Finish(p)
              /\ UNCHANGED preapproval
    /\ UNCHANGED <<sub, profile, row, payment, links>>

CancelSave(p) ==
    /\ At(p, "cancelSave")
    /\ WriteSub(proc[p].sid, [sub[proc[p].sid] EXCEPT !.status = "cancelled",
                                                      !.end = proc[p].end])
    /\ Finish(p)
    /\ UNCHANGED <<profile, row, payment, preapproval, links>>

(* ----------------------------------------------------------------------- *)

RequestStart(p) ==
    \E u \in Users :
        \/ \E plan \in Plans, kind \in Kinds : CreateCheckLive(p, u, plan, kind)
        \/ \E plan \in Plans, entry \in {"payWithBricks", "subscribeWithBricks"} :
               BricksCheckLive(p, u, plan, entry)
        \/ CancelFind(p, u)

RequestStep(p) ==
    \/ CreateCheckPending(p) \/ CreateInsert(p) \/ CreateGateway(p)
    \/ CreateFailed(p) \/ CreateSave(p) \/ CreateProfile(p)
    \/ BricksFindPending(p) \/ BricksReuse(p) \/ BricksInsert(p)
    \/ BricksCharge(p) \/ BricksSaveExt(p) \/ BricksReject(p)
    \/ SubscribeGateway(p) \/ SubscribeSave(p) \/ SubscribeProfile(p)
    \/ CancelGateway(p) \/ CancelSave(p)
=============================================================================
