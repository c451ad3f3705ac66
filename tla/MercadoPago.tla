---------------------------- MODULE MercadoPago ----------------------------
(***************************************************************************)
(* The payment gateway, as the code in src/ uses it: what a customer or    *)
(* MercadoPago itself may do to payments and preapprovals between two      *)
(* calls of the backend.  Notifications are not queued here: a webhook     *)
(* handler may start for any payment or preapproval at any time, which     *)
(* covers late, repeated and reordered deliveries; a notice that never     *)
(* starts is a lost one.                                                   *)
(***************************************************************************)
EXTENDS Billing

(* The payer follows the link of a checkout preference, once the backend   *)
(* has stored and handed it out.  A preference stays payable whatever      *)
(* happens to the subscription meanwhile.                                  *)
PayLink(s) ==
    /\ "payLink" \in Entries
    /\ s \in links
    /\ sub[s].link
    /\ \E q \in FreePayments, r \in {"approved", "pending", "rejected"} :
           payment' = [payment EXCEPT ![q] =
                          [state |-> r, sub |-> s, pre |-> None]]
    /\ UNCHANGED <<sub, profile, row, preapproval, links, proc>>

(* A payment under review gets its answer.                                 *)
SettlePayment(q) ==
    /\ payment[q].state = "pending"
    /\ \E r \in {"approved", "rejected"} :
           payment' = [payment EXCEPT ![q].state = r]
    /\ UNCHANGED <<sub, profile, row, preapproval, links, proc>>

(* A payer who is sent to MercadoPago needs the link to authorize it; a    *)
(* card token given on site does not.                                      *)
HandedOut(m) == preapproval[m].ref \/ sub[preapproval[m].sub].link

(* The next states of a preapproval; a confirmed one was authorized by the *)
(* payer at some time.                                                     *)
PreapprovalMoves(state) ==
    CASE state = "pending"    -> {"authorized", "cancelled"}
      [] state = "authorized" -> {"paused", "cancelled"}
      [] state = "paused"     -> {"authorized", "cancelled"}
      [] OTHER                -> {}

MovePreapproval(m) ==
    /\ preapproval[m].state = "pending" => HandedOut(m)
    /\ \E r \in PreapprovalMoves(preapproval[m].state) :
           preapproval' = [preapproval EXCEPT
                              ![m].state = r,
                              ![m].confirmed = @ \/ r = "authorized"]
    /\ UNCHANGED <<sub, profile, row, payment, links, proc>>

(* MercadoPago charges the payer when the next payment is due; a rejected  *)
(* charge is tried again.                                                  *)
ChargePreapproval(m) ==
    /\ preapproval[m].state = "authorized"
    /\ preapproval[m].next = 0
    /\ \E q \in FreePayments, r \in {"approved", "pending", "rejected"} :
           /\ payment' = [payment EXCEPT ![q] =
                             [state |-> r, sub |-> preapproval[m].sub, pre |-> m]]
           /\ preapproval' = [preapproval EXCEPT ![m].next =
                                 IF r = "rejected" THEN 0
                                 ELSE Period[preapproval[m].plan]]
    /\ UNCHANGED <<sub, profile, row, links, proc>>

GatewayStep ==
    \/ \E s \in Subs : PayLink(s)
    \/ \E q \in Payments : SettlePayment(q)
    \/ \E m \in Preapprovals : MovePreapproval(m) \/ ChargePreapproval(m)

(* The effect of a call that creates a preapproval.  ref: the external     *)
(* reference is the subscription's id.                                     *)
NewPreapproval(m, s, plan, state, ref) ==
    preapproval' = [preapproval EXCEPT ![m] =
        [state |-> state, sub |-> s, plan |-> plan, ref |-> ref,
         confirmed |-> state = "authorized",
         next |-> TrialDays[plan], trial |-> TrialDays[plan]]]

(* Setting a preapproval's status to cancelled fails for one that is       *)
(* already cancelled and for an id that is not a preapproval's.            *)
Cancellable(ext) ==
    ext \in Preapprovals /\ preapproval[ext].state # "cancelled"
=============================================================================
