---------------------------- MODULE BillingJobs ----------------------------
(***************************************************************************)
(* The cron jobs of the billing code.  A job first lists the rows it will  *)
(* treat and then treats them one by one, each with several awaits; what   *)
(* it listed may have changed since.  A run that would find nothing to     *)
(* treat is left out: it changes nothing.                                  *)
(***************************************************************************)
EXTENDS MercadoPago

Starting(j, name) == j = name /\ j \in Jobs /\ At(j, "idle")

(* Pick(p, s, l): the loop of the job p reaches the subscription s.        *)
Pick(p, s, l) ==
    Become(p, [proc[p] EXCEPT !.pc = l, !.sid = s, !.user = sub[s].user,
                              !.todo = @ \ {s}])

Back(p, l) ==
    Become(p, [proc[p] EXCEPT !.pc = l, !.sid = None, !.user = None,
                              !.plan = None, !.seen = "none"])

(* An error about one subscription is caught, at whichever of its awaits:   *)
(* the job goes on with the next one.                                      *)
SkipOnError(j) ==
    /\ "failure" \in Entries
    /\ \/ /\ At(j, "renewNext") \/ At(j, "preapprovalNext")
          /\ \E s \in proc[j].todo : Become(j, [proc[j] EXCEPT !.todo = @ \ {s}])
       \/ /\ At(j, "renewSave") \/ At(j, "renewProfile")
          /\ Back(j, "renewNext")
       \/ /\ At(j, "preapprovalSave") \/ At(j, "preapprovalProfile")
          /\ Back(j, "preapprovalNext")
    /\ UNCHANGED <<sub, profile, row, payment, preapproval, links>>

(* --- subscriptionRenewals ---------------------------------------------- *)

Expired(kinds) ==
    {s \in Subs : sub[s].status = "active" /\ Passed(sub[s].end)
                  /\ sub[s].kind \in kinds}

(* The strategies are treated in the order they are registered.            *)
RenewalsStart(j) ==
    /\ Starting(j, "subscriptionRenewals")
    /\ Expired(OneOff) # {}
    /\ Become(j, [Idle EXCEPT !.pc = "renewNext", !.kind = "mp_checkout",
                              !.todo = Expired({"mp_checkout"})])
    /\ UNCHANGED <<sub, profile, row, payment, preapproval, links>>

RenewalsNextStrategy(j) ==
    /\ At(j, "renewNext")
    /\ proc[j].todo = {}
    /\ IF proc[j].kind = "mp_checkout"
       THEN Become(j, [proc[j] EXCEPT !.kind = "mp_bricks",
                                      !.todo = Expired({"mp_bricks"})])
       ELSE Finish(j)
    /\ UNCHANGED <<sub, profile, row, payment, preapproval, links>>

(* strategy.handleRenewal: checkout makes a new preference, Bricks only    *)
(* points to its page and keeps the externalId.                            *)
RenewalsPick(j) ==
    /\ At(j, "renewNext")
    /\ \E s \in proc[j].todo :
           /\ Pick(j, s, "renewSave")
           /\ links' = IF proc[j].kind = "mp_checkout" THEN links \cup {s}
                       ELSE links
    /\ UNCHANGED <<sub, profile, row, payment, preapproval>>

(* Variant: stores the new link and forgets the status.                    *)
RenewalsSaveLinkOnly(j) ==
    /\ At(j, "renewSave")
    /\ WriteSub(proc[j].sid, [sub[proc[j].sid] EXCEPT !.link = TRUE])
    /\ Goto(j, "renewProfile")
    /\ UNCHANGED <<profile, row, payment, preapproval, links>>

RenewalsSave(j) ==
    /\ At(j, "renewSave")
    /\ WriteSub(proc[j].sid, [sub[proc[j].sid] EXCEPT
           !.status = "pending", !.link = TRUE,
           !.ext = IF proc[j].kind = "mp_checkout" THEN Opaque ELSE @])
    /\ Goto(j, "renewProfile")
    /\ UNCHANGED <<profile, row, payment, preapproval, links>>

RenewalsProfile(j) ==
    /\ At(j, "renewProfile")
    /\ DeactivateProfileOf(proc[j].user)
    /\ Back(j, "renewNext")
    /\ UNCHANGED <<sub, row, payment, preapproval, links>>

(* --- cancelStalePendingSubscriptions ----------------------------------- *)

(* Variant: looks for subscriptions without a link.                        *)
StaleWithoutLink == {s \in Subs : sub[s].status = "pending" /\ ~sub[s].link
                                  /\ sub[s].age = StaleAge}

Stale == {s \in Subs : sub[s].status = "pending" /\ sub[s].link
                       /\ sub[s].age = StaleAge}

StaleStart(j) ==
    /\ Starting(j, "cancelStalePendingSubscriptions")
    /\ Stale # {}
    /\ Become(j, [Idle EXCEPT !.pc = "staleCancel", !.todo = Stale])
    /\ UNCHANGED <<sub, profile, row, payment, preapproval, links>>

(* The update goes by id alone.                                            *)
StaleCancel(j) ==
    /\ At(j, "staleCancel")
    /\ sub' = [s \in Subs |-> IF s \in proc[j].todo
                              THEN [sub[s] EXCEPT !.status = "cancelled", !.age = 0]
                              ELSE sub[s]]
    /\ Finish(j)
    /\ UNCHANGED <<profile, row, payment, preapproval, links>>

(* --- expiredTrials ------------------------------------------------------ *)

TrialOver(u) == profile[u].status = "active" /\ Passed(profile[u].trial)

(* One updateMany for all; the list read before it only feeds the log.     *)
ExpireTrials(j) ==
    /\ Starting(j, "expiredTrials")
    /\ \E u \in Users : TrialOver(u)
    /\ profile' = [u \in Users |->
           IF TrialOver(u)
           THEN [status |-> "waiting_payment", isActive |-> FALSE, trial |-> None]
           ELSE profile[u]]
    /\ UNCHANGED <<sub, row, payment, preapproval, links, proc>>

(* --- expiredCancelledSubs ----------------------------------------------- *)

Lapsed == {s \in Subs : sub[s].status = "cancelled" /\ Passed(sub[s].end)}

LapsedStart(j) ==
    /\ Starting(j, "expiredCancelledSubs")
    /\ Lapsed # {}
    /\ Become(j, [Idle EXCEPT !.pc = "lapsedNext", !.todo = Lapsed])
    /\ UNCHANGED <<sub, profile, row, payment, preapproval, links>>

(* Variant: a cancelled subscription counts as one in force.               *)
LapsedPickCountsCancelled(j) ==
    /\ At(j, "lapsedNext")
    /\ \E s \in proc[j].todo :
           IF StatusIn(sub[s].user, {"authorized", "active", "cancelled"}) = {}
           THEN Pick(j, s, "lapsedProfile")
           ELSE Become(j, [proc[j] EXCEPT !.todo = @ \ {s}])
    /\ UNCHANGED <<sub, profile, row, payment, preapproval, links>>

(* The next user of the list: spared when another subscription is in force.*)
LapsedPick(j) ==
    /\ At(j, "lapsedNext")
    /\ \E s \in proc[j].todo :
           IF StatusIn(sub[s].user, {"authorized", "active"}) = {}
           THEN Pick(j, s, "lapsedProfile")
           ELSE Become(j, [proc[j] EXCEPT !.todo = @ \ {s}])
    /\ UNCHANGED <<sub, profile, row, payment, preapproval, links>>

LapsedDone(j) ==
    /\ At(j, "lapsedNext")
    /\ proc[j].todo = {}
    /\ Finish(j)
    /\ UNCHANGED <<sub, profile, row, payment, preapproval, links>>

LapsedProfile(j) ==
    /\ At(j, "lapsedProfile")
    /\ LET u == proc[j].user
       IN  IF profile[u].status = "active" /\ profile[u].isActive
           THEN DeactivateProfileOf(u)
           ELSE UNCHANGED profile
    /\ Back(j, "lapsedNext")
    /\ UNCHANGED <<sub, row, payment, preapproval, links>>

(* --- subscriptionRenewPreapproval --------------------------------------- *)

ExpiredPreapproval == {s \in Expired(Recurring) : sub[s].ext # None}

(* Variant: lists subscriptions in any status.                             *)
PreapprovalStartAnyStatus(j) ==
    /\ Starting(j, "subscriptionRenewPreapproval")
    /\ \E s \in Subs : sub[s].ext # None /\ Passed(sub[s].end)
    /\ Become(j, [Idle EXCEPT !.pc = "preapprovalNext",
           !.todo = {s \in Subs : sub[s].ext # None /\ Passed(sub[s].end)}])
    /\ UNCHANGED <<sub, profile, row, payment, preapproval, links>>

PreapprovalStart(j) ==
    /\ Starting(j, "subscriptionRenewPreapproval")
    /\ ExpiredPreapproval # {}
    /\ Become(j, [Idle EXCEPT !.pc = "preapprovalNext", !.todo = ExpiredPreapproval])
    /\ UNCHANGED <<sub, profile, row, payment, preapproval, links>>

(* getPreapproval; an externalId that is no preapproval's makes it throw.  *)
PreapprovalPick(j) ==
    /\ At(j, "preapprovalNext")
    /\ \E s \in proc[j].todo :
           \/ \E m \in Preapprovals :
                  /\ sub[s].ext = m
                  /\ Become(j, [proc[j] EXCEPT !.pc = "preapprovalSave",
                         !.sid = s, !.user = sub[s].user, !.plan = sub[s].plan,
                         !.seen = preapproval[m].state, !.todo = @ \ {s}])
           \/ /\ sub[s].ext \notin Preapprovals
              /\ Become(j, [proc[j] EXCEPT !.todo = @ \ {s}])
    /\ UNCHANGED <<sub, profile, row, payment, preapproval, links>>

PreapprovalDone(j) ==
    /\ At(j, "preapprovalNext")
    /\ proc[j].todo = {}
    /\ Finish(j)
    /\ UNCHANGED <<sub, profile, row, payment, preapproval, links>>

(* Variant: the end date is forgotten.                                     *)
PreapprovalSaveKeepsEnd(j) ==
    /\ At(j, "preapprovalSave")
    /\ WriteSub(proc[j].sid, [sub[proc[j].sid] EXCEPT
           !.status = IF proc[j].seen = "authorized" THEN "active" ELSE "paused"])
    /\ Goto(j, "preapprovalProfile")
    /\ UNCHANGED <<profile, row, payment, preapproval, links>>

(* The recovered period has no days of grace.                              *)
PreapprovalSave(j) ==
    /\ At(j, "preapprovalSave")
    /\ WriteSub(proc[j].sid,
           CASE proc[j].seen = "authorized" ->
                    [sub[proc[j].sid] EXCEPT !.status = "active",
                                             !.end = Period[proc[j].plan]]
             [] proc[j].seen = "cancelled" ->
                    [sub[proc[j].sid] EXCEPT !.status = "cancelled"]
             [] OTHER ->
                    [sub[proc[j].sid] EXCEPT !.status = "paused"])
    /\ Goto(j, "preapprovalProfile")
    /\ UNCHANGED <<profile, row, payment, preapproval, links>>

PreapprovalProfile(j) ==
    /\ At(j, "preapprovalProfile")
    /\ LET u == proc[j].user
       IN  IF proc[j].seen = "authorized"
           THEN profile' = [profile EXCEPT ![u].status = "active",
                                           ![u].isActive = TRUE]
           ELSE DeactivateProfileOf(u)
    /\ Back(j, "preapprovalNext")
    /\ UNCHANGED <<sub, row, payment, preapproval, links>>

(* ------------------------------------------------------------------------ *)

JobStart(j) ==
    \/ RenewalsStart(j) \/ StaleStart(j) \/ ExpireTrials(j)
    \/ LapsedStart(j) \/ PreapprovalStart(j)

JobStep(j) ==
    \/ RenewalsNextStrategy(j) \/ RenewalsPick(j) \/ RenewalsSave(j)
    \/ RenewalsProfile(j) \/ StaleCancel(j)
    \/ LapsedPick(j) \/ LapsedDone(j) \/ LapsedProfile(j)
    \/ PreapprovalPick(j) \/ PreapprovalDone(j) \/ PreapprovalSave(j)
    \/ PreapprovalProfile(j)
=============================================================================
