-------------------------- MODULE SubscriptionsInv --------------------------
(***************************************************************************)
(* The inductive invariant behind the safety properties of Subscriptions.  *)
(* The properties speak of rows; what makes them hold across awaits is     *)
(* what each handler in flight still knows from its earlier reads.         *)
(***************************************************************************)
EXTENDS Subscriptions

Used(s) == s \in Subs /\ sub[s].status # "none"

(* --- rows -------------------------------------------------------------- *)

SubsOK ==
    \A s \in Subs :
        /\ sub[s].status = "none" => sub[s].ext = None
        /\ sub[s].status # "none" =>
               sub[s].user \in Users /\ sub[s].plan \in Plans

PaymentsOK ==
    \A q \in Payments :
        payment[q].state # "none" =>
            /\ Used(payment[q].sub)
            /\ payment[q].pre # None =>
                   /\ preapproval[payment[q].pre].state # "none"
                   /\ preapproval[payment[q].pre].sub = payment[q].sub

PreapprovalsOK ==
    \A m \in Preapprovals :
        /\ preapproval[m].state = "none" => ~preapproval[m].confirmed
        /\ preapproval[m].state = "authorized" => preapproval[m].confirmed
        /\ preapproval[m].state # "none" =>
               Used(preapproval[m].sub) /\ preapproval[m].plan \in Plans

LinksOK == \A s \in links : Used(s)

RowsOK == \A q \in Payments : row[q].status # "none" => payment[q].state # "none"

ExtOK ==
    \A s \in Subs : sub[s].ext \in Preapprovals =>
        preapproval[sub[s].ext].state # "none" /\ preapproval[sub[s].ext].sub = s

ActiveHasEnd == \A s \in Subs : sub[s].status = "active" => sub[s].end # None

(* --- what a handler in flight may rely on ------------------------------ *)

NeedsSub ==
    {"createGateway", "createFailed", "createSave", "bricksCharge",
     "bricksSaveExt", "bricksReject", "subscribeGateway", "subscribeSave",
     "cancelGateway", "cancelSave", "findRow", "createRow", "activate",
     "linkExt", "writeStatus", "renewSave", "preapprovalSave"}

NeedsUser ==
    {"createPending", "createInsert", "bricksPending", "bricksUpsert",
     "subscribeGateway", "subscribeSave", "createRow", "activate",
     "preapprovalSave"}

NeedsPlan ==
    {"createPending", "createInsert", "createGateway", "bricksPending",
     "bricksUpsert", "subscribeGateway", "createRow", "activate",
     "preapprovalSave"}

(* The handler r holds a payment; if it read "approved", that still stands.*)
HoldsPayment(r) ==
    /\ r.pay \in Payments
    /\ payment[r.pay].state # "none"
    /\ r.seen = "approved" => payment[r.pay].state = "approved"

(* Only a handler that read "approved" means to put in force.              *)
MeansWell(r) == r.then \in {"activate", "renew"} => r.seen = "approved"

HoldsPreapproval(r) ==
    /\ r.pre \in Preapprovals
    /\ preapproval[r.pre].state # "none"
    /\ r.seen \in {"pending", "authorized", "paused", "cancelled"}
    /\ r.seen = "authorized" => preapproval[r.pre].confirmed

(* Its rows exist, and its user is the subscription's.                     *)
KnowsRows(r) ==
    /\ r.sid # None =>
           Used(r.sid) /\ (r.user # None => r.user = sub[r.sid].user)
    /\ \A s \in r.todo : Used(s)
    /\ r.pc \in NeedsSub => r.sid # None
    /\ r.pc \in NeedsUser => r.user # None
    /\ r.pc \in NeedsPlan => r.plan # None

(* The payment it registers is the one MercadoPago has, of the             *)
(* subscription it registers it for.                                       *)
KnowsPayment(r) ==
    /\ r.pc \in {"findRow", "createRow", "bricksSaveExt"} =>
           HoldsPayment(r) /\ r.sid = payment[r.pay].sub
    /\ r.pc = "findByExt" =>
           HoldsPayment(r) /\ r.pre = payment[r.pay].pre /\ r.pre # None
    /\ r.pc \in {"findRow", "createRow", "findByExt"} => MeansWell(r)

(* The preapproval it writes about is the subscription's own.              *)
KnowsPreapproval(r) ==
    /\ r.pc \in {"createSave", "subscribeSave", "cancelGateway"}
       /\ r.ext \in Preapprovals =>
           preapproval[r.ext].state # "none" /\ preapproval[r.ext].sub = r.sid
    /\ r.pc = "subscribeSave" =>
           /\ r.seen \in {"authorized", "pending"}
           /\ r.ext \in Preapprovals
           /\ r.seen = "authorized" => preapproval[r.ext].confirmed
    /\ r.pc \in {"findPreapproval", "linkExt", "writeStatus"} => HoldsPreapproval(r)
    /\ r.pc \in {"linkExt", "writeStatus"} => r.sid = preapproval[r.pre].sub
    /\ r.pc = "trialEnd" => r.pre \in Preapprovals

(* What it is about to put in force has been confirmed.                    *)
KnowsConfirmed(r) ==
    /\ r.pc \in {"activate", "preapprovalSave"} => Paid(r.sid)
    /\ r.pc \in {"activateProfile", "subscribeProfile"} => ConfirmedUser(r.user)
    /\ r.pc \in {"preapprovalNext", "preapprovalSave", "preapprovalProfile"} =>
           \A s \in r.todo : Paid(s)
    /\ r.pc = "preapprovalProfile" /\ r.seen = "authorized" => ConfirmedUser(r.user)

ProcOK(r) ==
    KnowsRows(r) /\ KnowsPayment(r) /\ KnowsPreapproval(r) /\ KnowsConfirmed(r)

ProcsOK == \A p \in Procs : ProcOK(proc[p])

(* --- the inductive invariant -------------------------------------------- *)

TablesOK ==
    /\ SubsOK /\ PaymentsOK /\ PreapprovalsOK /\ LinksOK /\ RowsOK /\ ExtOK
    /\ InForceIsConfirmed /\ LedgerIsTrue /\ ActiveHasEnd

(* What the tables and the handlers in flight satisfy together: strong     *)
(* enough to be kept by every step, of whatever handler, at any await.     *)
IInv == TypeOK /\ TablesOK /\ ProcsOK
=============================================================================
