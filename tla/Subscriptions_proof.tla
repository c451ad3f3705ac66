------------------------ MODULE Subscriptions_proof ------------------------
(***************************************************************************)
(* Proofs about Subscriptions, for any number of users, subscriptions,     *)
(* payments, preapprovals, plans, handlers and jobs.                       *)
(*                                                                         *)
(* A step changes the record of at most one process and, in the tables,    *)
(* only adds to what the others rely on (Grows).  So each action owes two  *)
(* facts: the tables stay in order, and the record it leaves behind is in  *)
(* order; lemma Moved draws the rest.                                      *)
(***************************************************************************)
EXTENDS SubscriptionsInv, TLAPS

(* What no step takes back: rows are not deleted or given to another user, *)
(* and what MercadoPago has confirmed stays confirmed.                     *)
Grows ==
    /\ \A s \in Subs : Used(s) => Used(s)' /\ sub'[s].user = sub[s].user
    /\ \A q \in Payments : payment[q].state # "none" =>
           /\ payment'[q].state # "none"
           /\ payment'[q].sub = payment[q].sub
           /\ payment'[q].pre = payment[q].pre
           /\ payment[q].state = "approved" => payment'[q].state = "approved"
    /\ \A m \in Preapprovals : preapproval[m].state # "none" =>
           /\ preapproval'[m].state # "none"
           /\ preapproval'[m].sub = preapproval[m].sub
           /\ preapproval'[m].plan = preapproval[m].plan
           /\ preapproval[m].confirmed => preapproval'[m].confirmed

(* What every step owes.                                                   *)
Keeps == Grows /\ IInv'

TablesType ==
    /\ sub \in [Subs -> SubRecord]
    /\ profile \in [Users -> ProfileRecord]
    /\ row \in [Payments -> RowRecord]
    /\ payment \in [Payments -> PaymentRecord]
    /\ preapproval \in [Preapprovals -> PreapprovalRecord]
    /\ links \subseteq Subs

(* A payment that is approved stays approved and keeps its subscription. *)
LEMMA PaidGrows ==
    ASSUME Grows, TypeOK, NEW s, Paid(s)
    PROVE  Paid(s)'
  BY DEF Grows, Paid

(* So does a confirmed preapproval.                                        *)
LEMMA ConfirmedGrows ==
    ASSUME Grows, TypeOK, PreapprovalsOK, NEW s, Confirmed(s)
    PROVE  Confirmed(s)'
<1>1. CASE Paid(s)
  BY <1>1, PaidGrows DEF Confirmed
<1>2. CASE ~Paid(s)
  BY <1>2 DEF Confirmed, Grows, PreapprovalsOK
<1> QED BY <1>1, <1>2

(* A confirmed subscription has a user, who stays confirmed.               *)
LEMMA ConfirmedUsed ==
    ASSUME TypeOK, PaymentsOK, PreapprovalsOK, NEW s \in Subs, Confirmed(s)
    PROVE  Used(s)
  BY DEF Confirmed, Paid, PaymentsOK, PreapprovalsOK

(* A user MercadoPago has confirmed once stays confirmed.                 *)
LEMMA ConfirmedUserGrows ==
    ASSUME Grows, TypeOK, TablesOK, NEW u, ConfirmedUser(u)
    PROVE  ConfirmedUser(u)'
<1>1. PICK s \in Subs : sub[s].user = u /\ Confirmed(s)
  BY DEF ConfirmedUser
<1>2. Used(s)
  BY <1>1, ConfirmedUsed DEF TablesOK
<1>3. sub'[s].user = u
  BY <1>1, <1>2 DEF Grows
<1>4. Confirmed(s)'
  BY <1>1, ConfirmedGrows DEF TablesOK
<1> QED BY <1>3, <1>4 DEF ConfirmedUser

(* What a handler relies on is not taken away by the steps of others.      *)
LEMMA ProcGrows ==
    ASSUME Grows, TypeOK, TablesOK, NEW r \in ProcRecord, ProcOK(r),
           NEW p \in Procs, proc'[p] = r
    PROVE  ProcOK(proc[p])'
<1>1. \A s \in Subs : Used(s) => Used(s)' /\ sub'[s].user = sub[s].user
  BY DEF Grows
<1>2. \A s : Paid(s) => Paid(s)'
  BY PaidGrows
<1>3. \A u : ConfirmedUser(u) => ConfirmedUser(u)'
  BY ConfirmedUserGrows
<1>4. /\ r.sid \in Subs \cup {None} /\ r.todo \subseteq Subs
      /\ r.user \in Users \cup {None} /\ r.pre \in Preapprovals \cup {None}
  BY DEF ProcRecord
<1>5. KnowsRows(proc[p])'
  BY <1>1, <1>4 DEF ProcOK, KnowsRows
<1>6. KnowsPayment(proc[p])'
  BY <1>4 DEF ProcOK, KnowsPayment, HoldsPayment, MeansWell, Grows
<1>7. KnowsPreapproval(proc[p])'
  BY <1>4 DEF ProcOK, KnowsPreapproval, HoldsPreapproval, Grows
<1>8. KnowsConfirmed(proc[p])'
  BY <1>2, <1>3, <1>4 DEF ProcOK, KnowsConfirmed
<1> QED BY <1>5, <1>6, <1>7, <1>8 DEF ProcOK

(* One process moves on, the others keep what they know.                   *)
LEMMA Moved ==
    ASSUME IInv, Grows, TablesType', TablesOK',
           NEW p \in Procs, NEW r \in ProcRecord, Become(p, r), ProcOK(proc[p])'
    PROVE  Keeps
<1>1. proc' \in [Procs -> ProcRecord]
  BY DEF IInv, TypeOK, Become
<1>2. ASSUME NEW o \in Procs PROVE ProcOK(proc[o])'
  <2>1. CASE o = p
    BY <2>1
  <2>2. CASE o # p
    <3>1. proc'[o] = proc[o] /\ proc[o] \in ProcRecord /\ ProcOK(proc[o])
      BY <2>2 DEF IInv, TypeOK, ProcsOK, Become
    <3> QED BY <3>1, ProcGrows DEF IInv
  <2> QED BY <2>1, <2>2
<1>3. ProcsOK'
  BY <1>2 DEF ProcsOK
<1> QED BY <1>1, <1>3 DEF Keeps, IInv, TypeOK, TablesType

(* The same when what it knows next, it knows from the state before.       *)
LEMMA MovedOn ==
    ASSUME IInv, Grows, TablesType', TablesOK',
           NEW p \in Procs, NEW r \in ProcRecord, Become(p, r), ProcOK(r)
    PROVE  Keeps
<1>1. proc'[p] = r
  BY DEF IInv, TypeOK, Become
<1> QED BY <1>1, ProcGrows, Moved DEF IInv

(* A step that only reads.                                                 *)
LEMMA Reads ==
    ASSUME IInv, UNCHANGED <<sub, profile, row, payment, preapproval, links>>
    PROVE  Grows /\ TablesType' /\ TablesOK'
<1>1. Grows
  BY DEF Grows, Used
<1>2. TablesType'
  BY DEF IInv, TypeOK, TablesType
<1>3. TablesOK'
  BY DEF IInv, TablesOK, SubsOK, PaymentsOK, PreapprovalsOK, LinksOK, RowsOK,
         ExtOK, InForceIsConfirmed, LedgerIsTrue, ActiveHasEnd, Used, Paid, Confirmed
<1> QED BY <1>1, <1>2, <1>3

(* A handler that only reads and moves on keeps the invariant.            *)
LEMMA ReadsOn ==
    ASSUME IInv, UNCHANGED <<sub, profile, row, payment, preapproval, links>>,
           NEW p \in Procs, NEW r \in ProcRecord, Become(p, r), ProcOK(r)
    PROVE  Keeps
  BY Reads, MovedOn

(* A step that only writes a profile.                                      *)
LEMMA WritesProfile ==
    ASSUME IInv, UNCHANGED <<sub, row, payment, preapproval, links>>,
           profile' \in [Users -> ProfileRecord]
    PROVE  Grows /\ TablesType' /\ TablesOK'
<1>1. Grows
  BY DEF Grows, Used
<1>2. TablesType'
  BY DEF IInv, TypeOK, TablesType
<1>3. TablesOK'
  BY DEF IInv, TablesOK, SubsOK, PaymentsOK, PreapprovalsOK, LinksOK, RowsOK,
         ExtOK, InForceIsConfirmed, LedgerIsTrue, ActiveHasEnd, Used, Paid, Confirmed
<1> QED BY <1>1, <1>2, <1>3

(* What an update of a subscription owes the tables.                       *)
RowOK(s, w) ==
    /\ w.status # "none"
    /\ w.user \in Users /\ w.plan \in Plans
    /\ w.ext \in Preapprovals =>
           preapproval[w.ext].state # "none" /\ preapproval[w.ext].sub = s
    /\ w.status = "active" => Paid(s) /\ w.end # None
    /\ w.status = "authorized" => Confirmed(s)

(* A step that writes one subscription, and may hand out a link to it.     *)
LEMMA WritesSub ==
    ASSUME IInv, UNCHANGED <<profile, row, payment, preapproval, links>>,
           NEW s \in Subs, NEW w \in SubRecord, WriteSub(s, w), RowOK(s, w),
           Used(s) => w.user = sub[s].user
    PROVE  Grows /\ TablesType' /\ TablesOK'
<1>1. /\ sub' \in [Subs -> SubRecord]
      /\ sub'[s] = [w EXCEPT !.age = 0]
      /\ \A t \in Subs : t # s => sub'[t] = sub[t]
  BY PlansAssumption DEF IInv, TypeOK, WriteSub, SubRecord
<1>2. /\ sub'[s].status = w.status /\ sub'[s].user = w.user
      /\ sub'[s].plan = w.plan /\ sub'[s].ext = w.ext /\ sub'[s].end = w.end
  BY <1>1 DEF SubRecord
<1>3. Grows
  BY <1>1, <1>2 DEF Grows, Used, RowOK
<1>4. TablesType'
  BY <1>1 DEF IInv, TypeOK, TablesType
<1>5. \A t \in Subs : Used(t) => Used(t)'
  BY <1>3 DEF Grows
<1>6. (SubsOK /\ ExtOK)'
  BY ZenonT(60), <1>1, <1>2 DEF IInv, TablesOK, SubsOK, ExtOK, RowOK
<1>7. (PaymentsOK /\ PreapprovalsOK /\ LinksOK /\ RowsOK /\ LedgerIsTrue)'
  BY <1>5 DEF IInv, TypeOK, TablesOK, PaymentsOK, PreapprovalsOK, LinksOK,
              RowsOK, LedgerIsTrue, Used
<1>8. \A t : (Paid(t) => Paid(t)') /\ (Confirmed(t) => Confirmed(t)')
  BY DEF Paid, Confirmed
<1>9. (InForceIsConfirmed /\ ActiveHasEnd)'
  BY <1>1, <1>2, <1>8 DEF IInv, TablesOK, InForceIsConfirmed, ActiveHasEnd, RowOK
<1> QED BY <1>3, <1>4, <1>6, <1>7, <1>9 DEF TablesOK

(***************************************************************************)
(* The initial states.                                                     *)
(***************************************************************************)
LEMMA IdleOK == Idle \in ProcRecord /\ ProcOK(Idle)
<1>1. Idle \in ProcRecord
  BY DEF Idle, ProcRecord, Labels, PaymentStates, Continuations, Date, Days
<1>2. ProcOK(Idle)
  BY DEF Idle, ProcOK, KnowsRows, KnowsPayment, KnowsPreapproval,
         KnowsConfirmed, NeedsSub, NeedsUser, NeedsPlan
<1> QED BY <1>1, <1>2

(* The initial states, freshly verified accounts and empty tables, satisfy*)
(* the invariant.                                                         *)
LEMMA InitInv == Init => IInv
<1> SUFFICES ASSUME Init PROVE IInv
  OBVIOUS
<1>1. TypeOK
  <2>1. NoSub \in SubRecord
    BY PlansAssumption DEF NoSub, SubRecord, SubStates, Date, Days
  <2>2. NewProfiles \subseteq ProfileRecord
    <3> SUFFICES ASSUME NEW x \in NewProfiles PROVE x \in ProfileRecord
      OBVIOUS
    <3>1. PICK a \in ProfileStates, b \in BOOLEAN, d \in {None, 1} :
              x = [status |-> a, isActive |-> b, trial |-> d]
      BY DEF NewProfiles, ProfileStates
    <3> QED BY <3>1 DEF ProfileRecord, Date, Days
  <2>3. NoRow \in RowRecord /\ NoPayment \in PaymentRecord
    BY DEF NoRow, RowRecord, NoPayment, PaymentRecord, PaymentStates
  <2>4. NoPreapproval \in PreapprovalRecord
    BY DEF NoPreapproval, PreapprovalRecord, PreapprovalStates, Days
  <2> QED BY <2>1, <2>2, <2>3, <2>4, IdleOK DEF Init, TypeOK
<1>2. TablesOK
  BY NullAssumption DEF Init, TablesOK, SubsOK, PaymentsOK, PreapprovalsOK, LinksOK, RowsOK,
         ExtOK, InForceIsConfirmed, LedgerIsTrue, ActiveHasEnd, NoSub, NoRow,
         NoPayment, NoPreapproval
<1>3. ProcsOK
  BY IdleOK DEF Init, ProcsOK
<1> QED BY <1>1, <1>2, <1>3 DEF IInv

(***************************************************************************)
(* Requests.                                                               *)
(***************************************************************************)
LEMMA ProcFacts ==
    ASSUME IInv, NEW p \in Procs
    PROVE  proc[p] \in ProcRecord /\ ProcOK(proc[p])
  BY DEF IInv, TypeOK, ProcsOK

(* A handler that ends, whatever it was doing.                             *)
LEMMA Finishes ==
    ASSUME IInv, Grows, TablesType', TablesOK', NEW p \in Procs, Finish(p)
    PROVE  Keeps
  BY IdleOK, MovedOn DEF Finish

(* A controller that takes up a request (create, payWithBricks,           *)
(* subscribeWithBricks, cancel) keeps the invariant.                      *)
LEMMA RequestStarts ==
    ASSUME IInv, NEW p \in Procs, RequestStart(p)
    PROVE  Keeps
<1> USE DEF ProcRecord, Labels, Idle, PaymentStates, Continuations, Date, Days
<1>1. ASSUME NEW u \in Users, NEW plan \in Plans, NEW kind \in Kinds,
             CreateCheckLive(p, u, plan, kind)
      PROVE  Keeps
  <2> DEFINE r == [Idle EXCEPT !.pc = "createPending", !.user = u,
                               !.plan = plan, !.kind = kind]
  <2>1. r \in ProcRecord
    OBVIOUS
  <2>2. ProcOK(r)
    BY NullAssumption
       DEF ProcOK, KnowsRows, KnowsPayment, KnowsPreapproval, KnowsConfirmed,
           NeedsSub, NeedsUser, NeedsPlan
  <2>3. Become(p, r) /\ UNCHANGED <<sub, profile, row, payment, preapproval, links>>
    BY <1>1 DEF CreateCheckLive
  <2> HIDE DEF r
  <2> QED BY <2>1, <2>2, <2>3, ReadsOn
<1>2. ASSUME NEW u \in Users, NEW plan \in Plans,
             NEW entry \in {"payWithBricks", "subscribeWithBricks"},
             BricksCheckLive(p, u, plan, entry)
      PROVE  Keeps
  <2> DEFINE r == [Idle EXCEPT !.pc = "bricksPending", !.user = u, !.plan = plan,
                               !.kind = IF entry = "payWithBricks" THEN "mp_bricks"
                                        ELSE "mp_bricks_subscription"]
  <2>1. r \in ProcRecord
    <3>1. CASE entry = "payWithBricks"
      BY <3>1 DEF Kinds
    <3>2. CASE entry # "payWithBricks"
      BY <3>2 DEF Kinds
    <3> QED BY <3>1, <3>2
  <2>2. ProcOK(r)
    BY NullAssumption
       DEF ProcOK, KnowsRows, KnowsPayment, KnowsPreapproval, KnowsConfirmed,
           NeedsSub, NeedsUser, NeedsPlan
  <2>3. Become(p, r) /\ UNCHANGED <<sub, profile, row, payment, preapproval, links>>
    BY <1>2 DEF BricksCheckLive
  <2> HIDE DEF r
  <2> QED BY <2>1, <2>2, <2>3, ReadsOn
<1>3. ASSUME NEW u \in Users, CancelFind(p, u)
      PROVE  Keeps
  <2>1. PICK s \in StatusIn(u, NotEnded) :
            Become(p, [Idle EXCEPT
               !.user = u, !.sid = s, !.kind = sub[s].kind, !.ext = sub[s].ext,
               !.end = IF sub[s].end = None THEN 0 ELSE sub[s].end,
               !.pc = IF sub[s].kind \in OneOff THEN "cancelSave"
                      ELSE "cancelGateway"])
    BY <1>3 DEF CancelFind
  <2>2. s \in Subs /\ sub[s] \in SubRecord /\ sub[s].user = u /\ Used(s)
    BY <2>1 DEF StatusIn, NotEnded, Live, Used, IInv, TypeOK
  <2>3. PICK l \in {"cancelSave", "cancelGateway"}, d \in Days :
            Become(p, [Idle EXCEPT !.user = u, !.sid = s, !.kind = sub[s].kind,
                                   !.ext = sub[s].ext, !.end = d, !.pc = l])
    <3>1. (IF sub[s].end = None THEN 0 ELSE sub[s].end) \in Days
      BY <2>2 DEF SubRecord
    <3>2. (IF sub[s].kind \in OneOff THEN "cancelSave" ELSE "cancelGateway")
              \in {"cancelSave", "cancelGateway"}
      OBVIOUS
    <3> QED BY <2>1, <3>1, <3>2
  <2> DEFINE r == [Idle EXCEPT !.user = u, !.sid = s, !.kind = sub[s].kind,
                               !.ext = sub[s].ext, !.end = d, !.pc = l]
  <2>4. r \in ProcRecord
    <3>1. /\ sub[s].kind \in Kinds \cup {None}
          /\ sub[s].ext \in Preapprovals \cup {None, Opaque}
      BY <2>2 DEF SubRecord
    <3>2. l \in Labels /\ d \in Date /\ s \in Subs
      BY <2>2
    <3> QED BY <3>1, <3>2
  <2>5. ProcOK(r)
    BY <2>2, NullAssumption
       DEF ProcOK, KnowsRows, KnowsPayment, KnowsPreapproval, KnowsConfirmed,
           NeedsSub, NeedsUser, NeedsPlan, IInv, TablesOK, ExtOK
  <2>6. Become(p, r) /\ UNCHANGED <<sub, profile, row, payment, preapproval, links>>
    BY <1>3, <2>3 DEF CancelFind
  <2> HIDE DEF r
  <2> QED BY <2>4, <2>5, <2>6, ReadsOn
<1> QED BY <1>1, <1>2, <1>3 DEF RequestStart

(* The record a handler becomes is the one it has in the next state.      *)
LEMMA BecomeIs ==
    ASSUME IInv, NEW p \in Procs, NEW r, Become(p, r)
    PROVE  proc'[p] = r
  BY DEF IInv, TypeOK, Become

(* A new subscription, and the handler that goes on to ask for payment.    *)
LEMMA Inserts ==
    ASSUME IInv, UNCHANGED <<profile, row, payment, preapproval, links>>,
           NEW s \in Unused, NEW u \in Users, NEW plan \in Plans,
           NEW kind \in Kinds \cup {None},
           WriteSub(s, NewSub(u, plan, kind)),
           NEW p \in Procs, NEW r \in ProcRecord, Become(p, r),
           r.pc \in {"createGateway", "bricksCharge", "subscribeGateway"},
           r.sid = s, r.user = u, r.plan = plan, \A t \in r.todo : Used(t)
    PROVE  Keeps
<1> DEFINE w == NewSub(u, plan, kind)
<1>1. s \in Subs /\ ~Used(s)
  BY DEF Unused, Used
<1>2. w.status = "pending" /\ w.user = u /\ w.plan = plan /\ w.ext = None
  BY DEF NewSub, NoSub
<1>3. w \in SubRecord
  <2>1. 0 \in 0 .. StaleAge
    BY PlansAssumption
  <2> QED BY <2>1 DEF NewSub, NoSub, SubRecord, SubStates, Date
<1>4. RowOK(s, w)
  BY <1>2, NullAssumption DEF RowOK
<1>5. Grows /\ TablesType' /\ TablesOK'
  BY <1>1, <1>3, <1>4, WritesSub
<1>6. Used(s)' /\ sub'[s].user = u
  BY <1>1, <1>2, <1>3 DEF IInv, TypeOK, WriteSub, SubRecord, Used
<1>7. proc'[p] = r
  BY BecomeIs
<1>8. KnowsRows(proc[p])'
  <2>1. \A t \in r.todo : Used(t)'
    BY <1>5 DEF Grows, ProcRecord
  <2> QED BY <1>1, <1>6, <1>7, <2>1, NullAssumption DEF KnowsRows, NeedsSub, NeedsUser, NeedsPlan
<1>9. (KnowsPayment(proc[p]) /\ KnowsPreapproval(proc[p]) /\ KnowsConfirmed(proc[p]))'
  BY <1>7 DEF KnowsPayment, KnowsPreapproval, KnowsConfirmed
<1> QED BY <1>5, <1>8, <1>9, Moved DEF ProcOK

(* The row of a subscription that exists is typed and in order.           *)
LEMMA RowFacts ==
    ASSUME IInv, NEW s \in Subs, Used(s)
    PROVE  sub[s] \in SubRecord /\ RowOK(s, sub[s])
  BY DEF IInv, TypeOK, TablesOK, SubsOK, ExtOK, InForceIsConfirmed, ActiveHasEnd,
         Used, RowOK

(* A step that writes the row of a subscription in use.                    *)
LEMMA WritesOn ==
    ASSUME IInv, UNCHANGED <<profile, row, payment, preapproval, links>>,
           NEW s \in Subs, Used(s),
           NEW w \in SubRecord, WriteSub(s, w), RowOK(s, w), w.user = sub[s].user,
           NEW p \in Procs, NEW r \in ProcRecord, Become(p, r), ProcOK(r)
    PROVE  Keeps
  BY WritesSub, MovedOn

(* The database steps of create keep the invariant.                       *)
LEMMA CreateSteps ==
    ASSUME IInv, NEW p \in Procs,
           \/ CreateCheckPending(p) \/ CreateInsert(p)
           \/ CreateFailed(p) \/ CreateSave(p) \/ CreateProfile(p)
    PROVE  Keeps
<1> USE DEF ProcRecord, Labels, Date, Days, At, Goto
<1>a. proc[p] \in ProcRecord /\ ProcOK(proc[p])
  BY ProcFacts
<1>1. CASE CreateCheckPending(p)
  <2>1. UNCHANGED <<sub, profile, row, payment, preapproval, links>>
    BY <1>1 DEF CreateCheckPending
  <2>2. CASE Finish(p)
    BY <2>1, <2>2, Reads, Finishes
  <2>3. CASE ~Finish(p)
    <3> DEFINE r == [proc[p] EXCEPT !.pc = "createInsert"]
    <3>1. proc[p].pc = "createPending" /\ Become(p, r)
      BY <1>1, <2>3 DEF CreateCheckPending
    <3>2. r \in ProcRecord
      BY <1>a
    <3>3. ProcOK(r)
      BY <1>a, <3>1
         DEF ProcOK, KnowsRows, KnowsPayment, KnowsPreapproval, KnowsConfirmed,
             NeedsSub, NeedsUser, NeedsPlan
    <3> HIDE DEF r
    <3> QED BY <2>1, <3>1, <3>2, <3>3, ReadsOn
  <2> QED BY <2>2, <2>3
<1>2. CASE CreateInsert(p)
  <2>1. UNCHANGED <<profile, row, payment, preapproval, links>>
        /\ proc[p].pc = "createInsert"
    BY <1>2 DEF CreateInsert
  <2>2. CASE Finish(p) /\ UNCHANGED sub
    BY <2>1, <2>2, Reads, Finishes
  <2>3. CASE ~(Finish(p) /\ UNCHANGED sub)
    <3>1. PICK s \in Unused :
              /\ WriteSub(s, NewSub(proc[p].user, proc[p].plan, proc[p].kind))
              /\ Become(p, [proc[p] EXCEPT !.pc = "createGateway", !.sid = s])
      BY <1>2, <2>3 DEF CreateInsert
    <3> DEFINE r == [proc[p] EXCEPT !.pc = "createGateway", !.sid = s]
    <3>0. s \in Subs
      BY DEF Unused
    <3>2. r \in ProcRecord
      BY ZenonT(60), <1>a, <3>0
    <3>4. r.pc = "createGateway" /\ r.sid = s
          /\ r.user = proc[p].user /\ r.plan = proc[p].plan /\ r.todo = proc[p].todo
      BY <1>a
    <3>3. proc[p].user \in Users /\ proc[p].plan \in Plans
          /\ proc[p].kind \in Kinds \cup {None} /\ \A t \in proc[p].todo : Used(t)
      BY <1>a, <2>1 DEF ProcOK, KnowsRows, NeedsUser, NeedsPlan
    <3>5. Become(p, r)
      BY <3>1
    <3> HIDE DEF r
    <3> QED BY <2>1, <3>1, <3>2, <3>3, <3>4, <3>5, Inserts
  <2> QED BY <2>2, <2>3
<1>3. CASE CreateFailed(p)
  <2> DEFINE s == proc[p].sid
             w == [sub[s] EXCEPT !.status = "cancelled"]
  <2>1. s \in Subs /\ Used(s)
    BY <1>a, <1>3 DEF CreateFailed, ProcOK, KnowsRows, NeedsSub
  <2>2. w \in SubRecord /\ RowOK(s, w) /\ w.user = sub[s].user
    BY <2>1, RowFacts DEF SubRecord, SubStates, RowOK
  <2>3. WriteSub(s, w) /\ Finish(p) /\ UNCHANGED <<profile, row, payment, preapproval, links>>
    BY <1>3 DEF CreateFailed
  <2> HIDE DEF s, w
  <2> QED BY <2>1, <2>2, <2>3, WritesSub, Finishes
<1>4. CASE CreateSave(p)
  <2> DEFINE s == proc[p].sid
             w == [sub[s] EXCEPT !.ext = proc[p].ext, !.link = TRUE]
             r == [proc[p] EXCEPT !.pc = "createProfile"]
  <2>0. proc[p].pc = "createSave"
    BY <1>4 DEF CreateSave
  <2>1. s \in Subs /\ Used(s)
    BY <1>a, <2>0 DEF ProcOK, KnowsRows, NeedsSub
  <2>a. sub[s] \in SubRecord /\ RowOK(s, sub[s])
    BY <2>1, RowFacts
  <2>b. proc[p].ext \in Preapprovals \cup {None, Opaque}
    BY <1>a
  <2>c. w \in SubRecord /\ w.user = sub[s].user
    BY <2>a, <2>b DEF SubRecord
  <2>d. proc[p].ext \in Preapprovals =>
            preapproval[proc[p].ext].state # "none" /\ preapproval[proc[p].ext].sub = s
    BY <1>a, <2>0 DEF ProcOK, KnowsPreapproval
  <2>2. w \in SubRecord /\ RowOK(s, w) /\ w.user = sub[s].user
    BY <2>a, <2>c, <2>d DEF SubRecord, RowOK
  <2>3. WriteSub(s, w) /\ Become(p, r) /\ UNCHANGED <<profile, row, payment, preapproval, links>>
    BY <1>4 DEF CreateSave
  <2>4. r \in ProcRecord /\ ProcOK(r)
    BY <1>a, <2>0
       DEF ProcOK, KnowsRows, KnowsPayment, KnowsPreapproval, KnowsConfirmed,
           NeedsSub, NeedsUser, NeedsPlan
  <2> HIDE DEF s, w, r
  <2> QED BY <2>1, <2>2, <2>3, <2>4, WritesOn
<1>5. CASE CreateProfile(p)
  <2> DEFINE u == proc[p].user
             st == IF profile[u].status = "onboarding" THEN "waiting_payment"
                   ELSE profile[u].status
  <2>1. profile' \in [Users -> ProfileRecord]
    <3>1. profile \in [Users -> ProfileRecord]
      BY DEF IInv, TypeOK
    <3>2. u \in Users => st \in ProfileStates
      BY <3>1 DEF ProfileRecord, ProfileStates
    <3>3. profile' = [profile EXCEPT ![u].status = st]
      BY <1>5 DEF CreateProfile
    <3> HIDE DEF st
    <3> QED BY <3>1, <3>2, <3>3 DEF ProfileRecord
  <2> QED BY <1>5, <2>1, WritesProfile, Finishes DEF CreateProfile
<1> QED BY <1>1, <1>2, <1>3, <1>4, <1>5

(* What MercadoPago does on its side keeps the backend's tables in order,  *)
(* as long as it takes nothing back.                                       *)
LEMMA GatewayTables ==
    ASSUME IInv, UNCHANGED <<sub, profile, row, links>>, Grows, TablesType',
           PaymentsOK', PreapprovalsOK'
    PROVE  TablesOK'
<1>1. \A s : (Paid(s) => Paid(s)') /\ (Confirmed(s) => Confirmed(s)')
  BY PaidGrows, ConfirmedGrows DEF IInv, TablesOK
<1>2. (SubsOK /\ LinksOK /\ ActiveHasEnd)'
  BY DEF IInv, TablesOK, SubsOK, LinksOK, ActiveHasEnd, Used
<1>3. (InForceIsConfirmed)'
  BY <1>1 DEF IInv, TablesOK, InForceIsConfirmed
<1>4. (RowsOK /\ LedgerIsTrue)'
  BY DEF IInv, TypeOK, TablesOK, RowsOK, LedgerIsTrue, Grows
<1>5. ExtOK'
  BY DEF IInv, TablesOK, ExtOK, Grows
<1> QED BY <1>1, <1>2, <1>3, <1>4, <1>5 DEF TablesOK

(* A new preapproval for a subscription that exists.                       *)
LEMMA CreatesPreapproval ==
    ASSUME IInv, UNCHANGED <<sub, profile, row, payment, links>>,
           NEW m \in FreePreapprovals, NEW s \in Subs, Used(s),
           NEW plan \in Plans, NEW ref \in BOOLEAN,
           NEW state \in {"pending", "authorized"},
           NewPreapproval(m, s, plan, state, ref)
    PROVE  /\ Grows /\ TablesType' /\ TablesOK'
           /\ preapproval'[m].state = state /\ preapproval'[m].sub = s
           /\ state = "authorized" => preapproval'[m].confirmed
<1> DEFINE w == [state |-> state, sub |-> s, plan |-> plan, ref |-> ref,
                 confirmed |-> state = "authorized",
                 next |-> TrialDays[plan], trial |-> TrialDays[plan]]
<1>1. w \in PreapprovalRecord
  BY PlansAssumption DEF PreapprovalRecord, PreapprovalStates, Days
<1>2. m \in Preapprovals /\ preapproval[m].state = "none"
  BY DEF FreePreapprovals
<1>3. /\ preapproval' \in [Preapprovals -> PreapprovalRecord]
      /\ preapproval'[m] = w
      /\ \A o \in Preapprovals : o # m => preapproval'[o] = preapproval[o]
  BY <1>1, <1>2 DEF NewPreapproval, IInv, TypeOK
<1>4. w.state = state /\ w.sub = s /\ w.plan = plan /\ (w.confirmed <=> state = "authorized")
  OBVIOUS
<1> HIDE DEF w
<1>5. Grows
  BY <1>2, <1>3 DEF Grows, Used
<1>6. TablesType'
  BY <1>3 DEF TablesType, IInv, TypeOK
<1>7. PreapprovalsOK'
  BY <1>3, <1>4 DEF IInv, TablesOK, PreapprovalsOK, Used
<1>8. PaymentsOK'
  <2>1. \A q \in Payments : payment[q].pre \in Preapprovals \cup {None}
    BY DEF IInv, TypeOK, PaymentRecord
  <2> QED BY <1>5, <2>1 DEF IInv, TablesOK, PaymentsOK, Used, Grows
<1> QED BY <1>3, <1>4, <1>5, <1>6, <1>7, <1>8, GatewayTables

(* One more link to a subscription that exists.                            *)
LEMMA AddsLink ==
    ASSUME IInv, UNCHANGED <<sub, profile, row, payment, preapproval>>,
           NEW s \in Subs, Used(s), links' = links \cup {s}
    PROVE  Grows /\ TablesType' /\ TablesOK'
<1>1. Grows
  BY DEF Grows, Used
<1>2. TablesType'
  BY DEF IInv, TypeOK, TablesType
<1>3. TablesOK'
  BY DEF IInv, TablesOK, SubsOK, PaymentsOK, PreapprovalsOK, LinksOK, RowsOK,
         ExtOK, InForceIsConfirmed, LedgerIsTrue, ActiveHasEnd, Used, Paid, Confirmed
<1> QED BY <1>1, <1>2, <1>3

(* The call of create to MercadoPago, preference or preapproval, keeps the*)
(* invariant.                                                             *)
LEMMA CreateGatewayStep ==
    ASSUME IInv, NEW p \in Procs, CreateGateway(p)
    PROVE  Keeps
<1> USE DEF ProcRecord, Labels, Date, Days, At, Goto
<1>a. proc[p] \in ProcRecord /\ ProcOK(proc[p])
  BY ProcFacts
<1> DEFINE s == proc[p].sid
<1>b. proc[p].pc = "createGateway" /\ UNCHANGED <<sub, profile, row, payment>>
  BY DEF CreateGateway
<1>c. s \in Subs /\ Used(s) /\ proc[p].plan \in Plans
  BY <1>a, <1>b DEF ProcOK, KnowsRows, NeedsSub, NeedsPlan
<1>1. CASE /\ links' = links \cup {s} /\ UNCHANGED preapproval
           /\ Become(p, [proc[p] EXCEPT !.pc = "createSave", !.ext = Opaque])
  <2> DEFINE r == [proc[p] EXCEPT !.pc = "createSave", !.ext = Opaque]
  <2>1. r \in ProcRecord
    BY ZenonT(60), <1>a
  <2>2. ProcOK(r)
    BY <1>a, <1>b, NullAssumption
       DEF ProcOK, KnowsRows, KnowsPayment, KnowsPreapproval, KnowsConfirmed,
           NeedsSub, NeedsUser, NeedsPlan
  <2>3. Grows /\ TablesType' /\ TablesOK'
    BY <1>1, <1>b, <1>c, AddsLink
  <2>4. Become(p, r)
    BY <1>1
  <2> HIDE DEF r
  <2> QED BY <2>1, <2>2, <2>3, <2>4, MovedOn
<1>2. ASSUME NEW m \in FreePreapprovals,
             NewPreapproval(m, s, proc[p].plan, "pending", FALSE),
             Become(p, [proc[p] EXCEPT !.pc = "createSave", !.ext = m]),
             UNCHANGED links
      PROVE  Keeps
  <2> DEFINE r == [proc[p] EXCEPT !.pc = "createSave", !.ext = m]
  <2>0. m \in Preapprovals
    BY DEF FreePreapprovals
  <2>1. r \in ProcRecord
    BY ZenonT(60), <1>a, <2>0
  <2>2. /\ Grows /\ TablesType' /\ TablesOK'
        /\ preapproval'[m].state = "pending" /\ preapproval'[m].sub = s
    BY <1>2, <1>b, <1>c, CreatesPreapproval
  <2>3. Become(p, r)
    BY <1>2
  <2>4. proc'[p] = r
    BY <2>3, BecomeIs
  <2>5. r.pc = "createSave" /\ r.ext = m /\ r.sid = s /\ r.user = proc[p].user
        /\ r.todo = proc[p].todo
    BY <1>a
  <2> HIDE DEF r
  <2>6. KnowsRows(proc[p])'
    <3>1. r.todo \subseteq Subs
      BY <2>1
    <3> QED BY <1>a, <1>b, <1>c, <2>2, <2>4, <2>5, <3>1
               DEF ProcOK, KnowsRows, NeedsSub, NeedsUser, NeedsPlan, Grows
  <2>7. (KnowsPayment(proc[p]) /\ KnowsPreapproval(proc[p]) /\ KnowsConfirmed(proc[p]))'
    BY <2>2, <2>4, <2>5 DEF KnowsPayment, KnowsPreapproval, KnowsConfirmed
  <2> QED BY <2>1, <2>2, <2>3, <2>6, <2>7, Moved DEF ProcOK
<1>3. CASE Goto(p, "createFailed") /\ UNCHANGED <<preapproval, links>>
  <2> DEFINE r == [proc[p] EXCEPT !.pc = "createFailed"]
  <2>1. r \in ProcRecord
    BY <1>a
  <2>2. ProcOK(r)
    BY <1>a, <1>b
       DEF ProcOK, KnowsRows, KnowsPayment, KnowsPreapproval, KnowsConfirmed,
           NeedsSub, NeedsUser, NeedsPlan
  <2>3. Become(p, r)
    BY <1>3
  <2> HIDE DEF r
  <2> QED BY <1>3, <1>b, <2>1, <2>2, <2>3, ReadsOn
<1> QED BY <1>1, <1>2, <1>3 DEF CreateGateway

(* A new payment for a subscription that exists.                           *)
LEMMA CreatesPayment ==
    ASSUME IInv, UNCHANGED <<sub, profile, row, preapproval, links>>,
           NEW q \in FreePayments, NEW s \in Subs, Used(s),
           NEW x \in {"approved", "pending", "rejected"},
           payment' = [payment EXCEPT ![q] = [state |-> x, sub |-> s, pre |-> None]]
    PROVE  /\ Grows /\ TablesType' /\ TablesOK'
           /\ payment'[q].state = x /\ payment'[q].sub = s
<1> DEFINE w == [state |-> x, sub |-> s, pre |-> None]
<1>1. w \in PaymentRecord
  BY DEF PaymentRecord, PaymentStates
<1>2. q \in Payments /\ payment[q].state = "none"
  BY DEF FreePayments
<1>3. /\ payment' \in [Payments -> PaymentRecord]
      /\ payment'[q] = w
      /\ \A o \in Payments : o # q => payment'[o] = payment[o]
  BY <1>1, <1>2 DEF IInv, TypeOK
<1>4. w.state = x /\ w.sub = s /\ w.pre = None
  OBVIOUS
<1> HIDE DEF w
<1>5. Grows
  BY <1>2, <1>3 DEF Grows, Used
<1>6. TablesType'
  BY <1>3 DEF TablesType, IInv, TypeOK
<1>7. PaymentsOK'
  BY <1>3, <1>4 DEF IInv, TablesOK, PaymentsOK, Used
<1>8. PreapprovalsOK'
  BY DEF IInv, TablesOK, PreapprovalsOK, Used
<1> QED BY <1>3, <1>4, <1>5, <1>6, <1>7, <1>8, GatewayTables

(* payWithBricks and subscribeWithBricks up to the charge: the search and *)
(* reuse of a pending row, the insert, and the payment itself.            *)
LEMMA BricksSteps ==
    ASSUME IInv, NEW p \in Procs,
           BricksFindPending(p) \/ BricksReuse(p) \/ BricksInsert(p) \/ BricksCharge(p)
    PROVE  Keeps
<1> USE DEF ProcRecord, Labels, Date, Days, At, Goto
<1>a. proc[p] \in ProcRecord /\ ProcOK(proc[p])
  BY ProcFacts
<1>1. CASE BricksFindPending(p)
  <2>0. /\ proc[p].pc = "bricksPending"
        /\ UNCHANGED <<sub, profile, row, payment, preapproval, links>>
    BY <1>1 DEF BricksFindPending
  <2>1. ASSUME NEW s \in StatusIn(proc[p].user, {"pending"}),
               Become(p, [proc[p] EXCEPT !.pc = "bricksUpsert", !.sid = s])
        PROVE  Keeps
    <3> DEFINE r == [proc[p] EXCEPT !.pc = "bricksUpsert", !.sid = s]
    <3>1. s \in Subs /\ Used(s) /\ sub[s].user = proc[p].user
      BY DEF StatusIn, Used
    <3>2. r \in ProcRecord
      BY ZenonT(60), <1>a, <3>1
    <3>3. ProcOK(r)
      BY <1>a, <2>0, <3>1
         DEF ProcOK, KnowsRows, KnowsPayment, KnowsPreapproval, KnowsConfirmed,
             NeedsSub, NeedsUser, NeedsPlan
    <3>4. Become(p, r)
      BY <2>1
    <3> HIDE DEF r
    <3> QED BY <2>0, <3>2, <3>3, <3>4, ReadsOn
  <2>2. CASE Goto(p, "bricksUpsert")
    <3> DEFINE r == [proc[p] EXCEPT !.pc = "bricksUpsert"]
    <3>2. r \in ProcRecord
      BY <1>a
    <3>3. ProcOK(r)
      BY <1>a, <2>0
         DEF ProcOK, KnowsRows, KnowsPayment, KnowsPreapproval, KnowsConfirmed,
             NeedsSub, NeedsUser, NeedsPlan
    <3>4. Become(p, r)
      BY <2>2
    <3> HIDE DEF r
    <3> QED BY <2>0, <3>2, <3>3, <3>4, ReadsOn
  <2> QED BY <1>1, <2>1, <2>2 DEF BricksFindPending
<1>b. PICK l \in {"bricksCharge", "subscribeGateway"} : l = AfterUpsert(proc[p].kind)
  BY DEF AfterUpsert
<1>2. CASE BricksReuse(p)
  <2> DEFINE s == proc[p].sid
             w == [sub[s] EXCEPT !.plan = proc[p].plan, !.kind = proc[p].kind]
             r == [proc[p] EXCEPT !.pc = l]
  <2>0. proc[p].pc = "bricksUpsert" /\ s # None
    BY <1>2 DEF BricksReuse
  <2>1. /\ s \in Subs /\ Used(s) /\ proc[p].plan \in Plans
        /\ proc[p].kind \in Kinds \cup {None}
    BY <1>a, <2>0 DEF ProcOK, KnowsRows, NeedsPlan
  <2>2. sub[s] \in SubRecord /\ RowOK(s, sub[s])
    BY <2>1, RowFacts
  <2>3. w \in SubRecord /\ w.user = sub[s].user
    BY <2>1, <2>2 DEF SubRecord
  <2>4. RowOK(s, w)
    BY <2>1, <2>2 DEF SubRecord, RowOK
  <2>5. r \in ProcRecord
    BY <1>a
  <2>6. ProcOK(r)
    BY <1>a, <2>0
       DEF ProcOK, KnowsRows, KnowsPayment, KnowsPreapproval, KnowsConfirmed,
           NeedsSub, NeedsUser, NeedsPlan
  <2>7. WriteSub(s, w) /\ Become(p, r) /\ UNCHANGED <<profile, row, payment, preapproval, links>>
    BY <1>2, <1>b DEF BricksReuse
  <2> HIDE DEF s, w, r
  <2> QED BY <2>1, <2>3, <2>4, <2>5, <2>6, <2>7, WritesOn
<1>3. CASE BricksInsert(p)
  <2>1. UNCHANGED <<profile, row, payment, preapproval, links>>
        /\ proc[p].pc = "bricksUpsert"
    BY <1>3 DEF BricksInsert
  <2>2. CASE Finish(p) /\ UNCHANGED sub
    BY <2>1, <2>2, Reads, Finishes
  <2>3. CASE ~(Finish(p) /\ UNCHANGED sub)
    <3>1. PICK s \in Unused :
              /\ WriteSub(s, NewSub(proc[p].user, proc[p].plan, proc[p].kind))
              /\ Become(p, [proc[p] EXCEPT !.pc = l, !.sid = s])
      BY <1>3, <1>b, <2>3 DEF BricksInsert
    <3> DEFINE r == [proc[p] EXCEPT !.pc = l, !.sid = s]
    <3>0. s \in Subs
      BY DEF Unused
    <3>2. r \in ProcRecord
      BY ZenonT(60), <1>a, <3>0
    <3>3. proc[p].user \in Users /\ proc[p].plan \in Plans
          /\ proc[p].kind \in Kinds \cup {None} /\ \A t \in proc[p].todo : Used(t)
      BY <1>a, <2>1 DEF ProcOK, KnowsRows, NeedsUser, NeedsPlan
    <3>4. r.pc = l /\ r.sid = s
          /\ r.user = proc[p].user /\ r.plan = proc[p].plan /\ r.todo = proc[p].todo
      BY <1>a
    <3>5. Become(p, r)
      BY <3>1
    <3> HIDE DEF r
    <3> QED BY <2>1, <3>1, <3>2, <3>3, <3>4, <3>5, Inserts
  <2> QED BY <2>2, <2>3
<1>4. CASE BricksCharge(p)
  <2> DEFINE s == proc[p].sid
  <2>0. UNCHANGED <<sub, profile, row, preapproval, links>>
        /\ proc[p].pc = "bricksCharge"
    BY <1>4 DEF BricksCharge
  <2>1. s \in Subs /\ Used(s)
    BY <1>a, <2>0 DEF ProcOK, KnowsRows, NeedsSub
  <2>2. CASE Finish(p) /\ UNCHANGED payment
    BY <2>0, <2>2, Reads, Finishes
  <2>3. ASSUME NEW q \in FreePayments, NEW x \in {"approved", "pending", "rejected"},
               payment' = [payment EXCEPT ![q] = [state |-> x, sub |-> s, pre |-> None]]
        PROVE  /\ Grows /\ TablesType' /\ TablesOK'
               /\ payment'[q].state = x /\ payment'[q].sub = s
    BY <2>0, <2>1, <2>3, CreatesPayment
  <2>4. ASSUME NEW q \in FreePayments, NEW x \in {"approved", "pending", "rejected"},
               payment' = [payment EXCEPT ![q] = [state |-> x, sub |-> s, pre |-> None]],
               Finish(p)
        PROVE  Keeps
    BY <2>3, <2>4, Finishes
  <2>5. ASSUME NEW q \in FreePayments, NEW x \in {"approved", "pending", "rejected"},
               payment' = [payment EXCEPT ![q] = [state |-> x, sub |-> s, pre |-> None]],
               Become(p, [proc[p] EXCEPT !.pc = "bricksSaveExt", !.pay = q, !.seen = x])
        PROVE  Keeps
    <3> DEFINE r == [proc[p] EXCEPT !.pc = "bricksSaveExt", !.pay = q, !.seen = x]
    <3>0. q \in Payments
      BY DEF FreePayments
    <3>1. r \in ProcRecord
      <4> DEFINE a == [proc[p] EXCEPT !.seen = x]
                 b == [a EXCEPT !.pay = q]
      <4>1. x \in PaymentStates \cup PreapprovalStates
        BY DEF PaymentStates
      <4>2. r = [b EXCEPT !.pc = "bricksSaveExt"]
        BY <1>a
      <4>3. a \in ProcRecord
        BY <1>a, <4>1
      <4> HIDE DEF a, r
      <4>4. b \in ProcRecord
        BY <3>0, <4>3
      <4> HIDE DEF b
      <4> QED BY <4>2, <4>4
    <3>2. /\ Grows /\ TablesType' /\ TablesOK'
          /\ payment'[q].state = x /\ payment'[q].sub = s
      BY <2>3, <2>5
    <3>3. Become(p, r)
      BY <2>5
    <3>4. proc'[p] = r
      BY <3>3, BecomeIs
    <3>5. r.pc = "bricksSaveExt" /\ r.pay = q /\ r.seen = x /\ r.sid = s
          /\ r.user = proc[p].user /\ r.todo = proc[p].todo
      BY <1>a
    <3> HIDE DEF r
    <3>6. KnowsRows(proc[p])'
      <4>1. r.todo \subseteq Subs
        BY <3>1
      <4>2. \A t \in Subs : Used(t) => Used(t)'
        BY <3>2 DEF Grows
      <4>4. s # None
        BY <2>1, NullAssumption
      <4>3. Used(s) /\ (r.user # None => r.user = sub[s].user)
            /\ \A t \in r.todo : Used(t)
        BY <1>a, <3>5, <4>4 DEF ProcOK, KnowsRows
      <4> HIDE DEF s
      <4> QED BY <2>0, <2>1, <3>4, <3>5, <4>1, <4>2, <4>3, <4>4
                 DEF KnowsRows, NeedsSub, NeedsUser, NeedsPlan
    <3>7. KnowsPayment(proc[p])'
      BY <3>0, <3>2, <3>4, <3>5 DEF KnowsPayment, HoldsPayment
    <3>8. (KnowsPreapproval(proc[p]) /\ KnowsConfirmed(proc[p]))'
      BY <3>4, <3>5 DEF KnowsPreapproval, KnowsConfirmed
    <3> QED BY <3>1, <3>2, <3>3, <3>6, <3>7, <3>8, Moved DEF ProcOK
  <2> QED BY <1>4, <2>2, <2>4, <2>5 DEF BricksCharge
<1> QED BY <1>1, <1>2, <1>3, <1>4

(* A preapproval that changes its state and takes no confirmation back.    *)
LEMMA ChangesPreapproval ==
    ASSUME IInv, UNCHANGED <<sub, profile, row, payment, links>>,
           NEW m \in Preapprovals, preapproval[m].state # "none",
           NEW w \in PreapprovalRecord, w.state # "none",
           w.sub = preapproval[m].sub, w.plan = preapproval[m].plan,
           preapproval[m].confirmed => w.confirmed,
           w.state = "authorized" => w.confirmed,
           preapproval' = [preapproval EXCEPT ![m] = w]
    PROVE  Grows /\ TablesType' /\ TablesOK'
<1>3. /\ preapproval' \in [Preapprovals -> PreapprovalRecord]
      /\ preapproval'[m] = w
      /\ \A o \in Preapprovals : o # m => preapproval'[o] = preapproval[o]
  BY DEF IInv, TypeOK
<1>5. Grows
  BY <1>3 DEF Grows, Used
<1>6. TablesType'
  BY <1>3 DEF TablesType, IInv, TypeOK
<1>7. PreapprovalsOK'
  BY <1>3 DEF IInv, TablesOK, PreapprovalsOK, Used
<1>8. PaymentsOK'
  <2>1. \A q \in Payments : payment[q].pre \in Preapprovals \cup {None}
    BY DEF IInv, TypeOK, PaymentRecord
  <2> QED BY <1>5, <2>1 DEF IInv, TablesOK, PaymentsOK, Used, Grows
<1> QED BY <1>5, <1>6, <1>7, <1>8, GatewayTables

(* A handler that ends by writing the row of its subscription.             *)
LEMMA WritesAndFinishes ==
    ASSUME IInv, UNCHANGED <<profile, row, payment, preapproval, links>>,
           NEW s \in Subs, Used(s),
           NEW w \in SubRecord, WriteSub(s, w), RowOK(s, w), w.user = sub[s].user,
           NEW p \in Procs, Finish(p)
    PROVE  Keeps
  BY WritesSub, Finishes

(* The end of payWithBricks, accepted or rejected.                        *)
LEMMA BricksEnds ==
    ASSUME IInv, NEW p \in Procs, BricksSaveExt(p) \/ BricksReject(p)
    PROVE  Keeps
<1> USE DEF ProcRecord, Labels, Date, Days, At, Goto
<1>a. proc[p] \in ProcRecord /\ ProcOK(proc[p])
  BY ProcFacts
<1> DEFINE s == proc[p].sid
<1>0. proc[p].pc \in {"bricksSaveExt", "bricksReject"}
  BY DEF BricksSaveExt, BricksReject
<1>1. s \in Subs /\ Used(s)
  BY <1>a, <1>0 DEF ProcOK, KnowsRows, NeedsSub
<1>2. sub[s] \in SubRecord /\ RowOK(s, sub[s])
  BY <1>1, RowFacts
<1>3. CASE BricksSaveExt(p)
  <2> DEFINE w == [sub[s] EXCEPT !.ext = Opaque]
  <2>0. proc[p].pc = "bricksSaveExt"
    BY <1>3 DEF BricksSaveExt
  <2>1. w \in SubRecord /\ w.user = sub[s].user
    BY <1>2 DEF SubRecord
  <2>2. RowOK(s, w)
    BY <1>2, NullAssumption DEF SubRecord, RowOK
  <2>3. WriteSub(s, w) /\ UNCHANGED <<profile, row, payment, preapproval, links>>
    BY <1>3 DEF BricksSaveExt
  <2>4. ASSUME NEW then \in {"activate", "reject"},
               then = "activate" => proc[p].seen = "approved",
               Become(p, [proc[p] EXCEPT !.pc = "findRow", !.then = then])
        PROVE  Keeps
    <3> DEFINE r == [proc[p] EXCEPT !.pc = "findRow", !.then = then]
    <3>1. r \in ProcRecord
      <4>1. then \in Continuations
        BY DEF Continuations
      <4> QED BY ZenonT(60), <1>a, <4>1
    <3>2. KnowsRows(r) /\ KnowsPreapproval(r) /\ KnowsConfirmed(r)
      BY <1>a, <2>0
         DEF ProcOK, KnowsRows, KnowsPreapproval, KnowsConfirmed,
             NeedsSub, NeedsUser, NeedsPlan
    <3>3. KnowsPayment(r)
      BY <1>a, <2>0, <2>4 DEF ProcOK, KnowsPayment, HoldsPayment, MeansWell
    <3>4. Become(p, r)
      BY <2>4
    <3> HIDE DEF r, w, s
    <3> QED BY <1>1, <2>1, <2>2, <2>3, <3>1, <3>2, <3>3, <3>4, WritesOn DEF ProcOK
  <2>5. CASE Finish(p)
    <3> HIDE DEF w, s
    <3> QED BY <1>1, <2>1, <2>2, <2>3, <2>5, WritesAndFinishes
  <2> QED BY <1>3, <2>4, <2>5 DEF BricksSaveExt
<1>4. CASE BricksReject(p)
  <2> DEFINE w == [sub[s] EXCEPT !.status = "cancelled"]
  <2>1. w \in SubRecord /\ w.user = sub[s].user
    BY <1>2 DEF SubRecord, SubStates
  <2>2. RowOK(s, w)
    BY <1>2 DEF SubRecord, RowOK
  <2>3. WriteSub(s, w) /\ Finish(p) /\ UNCHANGED <<profile, row, payment, preapproval, links>>
    BY <1>4 DEF BricksReject
  <2> HIDE DEF w, s
  <2> QED BY <1>1, <2>1, <2>2, <2>3, WritesAndFinishes
<1> QED BY <1>3, <1>4

(* The preapproval of subscribeWithBricks and the writes that follow it.  *)
LEMMA SubscribeSteps ==
    ASSUME IInv, NEW p \in Procs,
           SubscribeGateway(p) \/ SubscribeSave(p) \/ SubscribeProfile(p)
    PROVE  Keeps
<1> USE DEF ProcRecord, Labels, Date, Days, At, Goto
<1>a. proc[p] \in ProcRecord /\ ProcOK(proc[p])
  BY ProcFacts
<1> DEFINE s == proc[p].sid
<1>1. CASE SubscribeGateway(p)
  <2>0. UNCHANGED <<sub, profile, row, payment, links>>
        /\ proc[p].pc = "subscribeGateway"
    BY <1>1 DEF SubscribeGateway
  <2>1. /\ s \in Subs /\ Used(s) /\ proc[p].plan \in Plans
        /\ proc[p].user \in Users /\ proc[p].user = sub[s].user
    BY <1>a, <2>0, NullAssumption DEF ProcOK, KnowsRows, NeedsSub, NeedsPlan, NeedsUser
  <2>2. CASE Finish(p) /\ UNCHANGED preapproval
    BY <2>0, <2>2, Reads, Finishes
  <2>3. ASSUME NEW m \in FreePreapprovals, NEW x \in {"authorized", "pending"},
               NewPreapproval(m, s, proc[p].plan, x, TRUE)
        PROVE  /\ Grows /\ TablesType' /\ TablesOK'
               /\ preapproval'[m].state = x /\ preapproval'[m].sub = s
               /\ x = "authorized" => preapproval'[m].confirmed
    <3> HIDE DEF s
    <3>1. CASE x = "pending"
      BY <2>0, <2>1, <2>3, <3>1, CreatesPreapproval
    <3>2. CASE x = "authorized"
      BY <2>0, <2>1, <2>3, <3>2, CreatesPreapproval
    <3> QED BY <3>1, <3>2
  <2>4. ASSUME NEW m \in FreePreapprovals, NEW x \in {"authorized", "pending"},
               NewPreapproval(m, s, proc[p].plan, x, TRUE), Finish(p)
        PROVE  Keeps
    BY <2>3, <2>4, Finishes
  <2>5. ASSUME NEW m \in FreePreapprovals, NEW x \in {"authorized", "pending"},
               NewPreapproval(m, s, proc[p].plan, x, TRUE),
               Become(p, [proc[p] EXCEPT !.pc = "subscribeSave", !.ext = m, !.seen = x])
        PROVE  Keeps
    <3> DEFINE r == [proc[p] EXCEPT !.pc = "subscribeSave", !.ext = m, !.seen = x]
    <3>0. m \in Preapprovals /\ x \in PaymentStates \cup PreapprovalStates
      BY DEF FreePreapprovals, PaymentStates, PreapprovalStates
    <3>1. r \in ProcRecord
      <4> DEFINE a == [proc[p] EXCEPT !.seen = x]
                 b == [a EXCEPT !.ext = m]
      <4>1. r = [b EXCEPT !.pc = "subscribeSave"]
        BY <1>a
      <4>2. a \in ProcRecord
        BY <1>a, <3>0
      <4> HIDE DEF a, r
      <4>3. b \in ProcRecord
        BY <3>0, <4>2
      <4> HIDE DEF b
      <4> QED BY <4>1, <4>3
    <3>2. /\ Grows /\ TablesType' /\ TablesOK'
          /\ preapproval'[m].state = x /\ preapproval'[m].sub = s
          /\ x = "authorized" => preapproval'[m].confirmed
      BY <2>3, <2>5
    <3>3. Become(p, r)
      BY <2>5
    <3>4. proc'[p] = r
      BY <3>3, BecomeIs
    <3>5. r.pc = "subscribeSave" /\ r.ext = m /\ r.seen = x /\ r.sid = s
          /\ r.user = proc[p].user /\ r.todo = proc[p].todo
      BY <1>a
    <3> HIDE DEF r
    <3>6. KnowsRows(proc[p])'
      <4>1. r.todo \subseteq Subs
        BY <3>1
      <4>2. \A t \in Subs : Used(t) => Used(t)'
        BY <3>2 DEF Grows
      <4>3. s # None /\ proc[p].user # None
        BY <2>1, NullAssumption
      <4>4. \A t \in r.todo : Used(t)
        BY <1>a, <3>5 DEF ProcOK, KnowsRows
      <4> HIDE DEF s
      <4> QED BY <2>0, <2>1, <3>4, <3>5, <4>1, <4>2, <4>3, <4>4
                 DEF KnowsRows, NeedsSub, NeedsUser, NeedsPlan
    <3>7. (KnowsPayment(proc[p]) /\ KnowsConfirmed(proc[p]))'
      BY <3>4, <3>5 DEF KnowsPayment, KnowsConfirmed
    <3>8. KnowsPreapproval(proc[p])'
      BY <3>0, <3>2, <3>4, <3>5 DEF KnowsPreapproval
    <3> QED BY <3>1, <3>2, <3>3, <3>6, <3>7, <3>8, Moved DEF ProcOK
  <2> QED BY <1>1, <2>2, <2>4, <2>5 DEF SubscribeGateway
<1>2. CASE SubscribeSave(p)
  <2> DEFINE w == [sub[s] EXCEPT !.ext = proc[p].ext, !.status = proc[p].seen]
  <2>0. proc[p].pc = "subscribeSave"
    BY <1>2 DEF SubscribeSave
  <2>1. s \in Subs /\ Used(s) /\ proc[p].user = sub[s].user
    BY <1>a, <2>0 DEF ProcOK, KnowsRows, NeedsSub, NeedsUser
  <2>2. /\ proc[p].ext \in Preapprovals /\ proc[p].seen \in {"authorized", "pending"}
        /\ preapproval[proc[p].ext].state # "none" /\ preapproval[proc[p].ext].sub = s
        /\ proc[p].seen = "authorized" => preapproval[proc[p].ext].confirmed
    BY <1>a, <2>0 DEF ProcOK, KnowsPreapproval
  <2>3. proc[p].seen = "authorized" => Confirmed(s)
    BY <2>2 DEF Confirmed
  <2>4. sub[s] \in SubRecord /\ RowOK(s, sub[s])
    BY <2>1, RowFacts
  <2>5. w \in SubRecord /\ w.user = sub[s].user
    BY <2>2, <2>4 DEF SubRecord, SubStates
  <2>6. RowOK(s, w)
    BY <2>2, <2>3, <2>4 DEF SubRecord, RowOK
  <2>7. WriteSub(s, w) /\ UNCHANGED <<profile, row, payment, preapproval, links>>
    BY <1>2 DEF SubscribeSave
  <2>8. CASE Finish(p)
    <3> HIDE DEF w, s
    <3> QED BY <2>1, <2>5, <2>6, <2>7, <2>8, WritesAndFinishes
  <2>9. CASE proc[p].seen \in Live /\ Goto(p, "subscribeProfile")
    <3> DEFINE r == [proc[p] EXCEPT !.pc = "subscribeProfile"]
    <3>1. r \in ProcRecord
      BY <1>a
    <3>2. ConfirmedUser(proc[p].user)
      BY <2>1, <2>2, <2>3, <2>9 DEF ConfirmedUser, Live
    <3>3. ProcOK(r)
      BY <1>a, <2>0, <3>2
         DEF ProcOK, KnowsRows, KnowsPayment, KnowsPreapproval, KnowsConfirmed,
             NeedsSub, NeedsUser, NeedsPlan
    <3>4. Become(p, r)
      BY <2>9
    <3> HIDE DEF r, w, s
    <3> QED BY <2>1, <2>5, <2>6, <2>7, <3>1, <3>3, <3>4, WritesOn
  <2> QED BY <1>2, <2>8, <2>9 DEF SubscribeSave
<1>3. CASE SubscribeProfile(p)
  <2>1. profile' \in [Users -> ProfileRecord]
    BY <1>3 DEF SubscribeProfile, ActivateProfileOf, IInv, TypeOK, ProfileRecord, ProfileStates
  <2> QED BY <1>3, <2>1, WritesProfile, Finishes DEF SubscribeProfile
<1> QED BY <1>1, <1>2, <1>3

(* cancel, at MercadoPago and then in the database.                       *)
LEMMA CancelSteps ==
    ASSUME IInv, NEW p \in Procs, CancelGateway(p) \/ CancelSave(p)
    PROVE  Keeps
<1> USE DEF ProcRecord, Labels, Date, Days, At, Goto
<1>a. proc[p] \in ProcRecord /\ ProcOK(proc[p])
  BY ProcFacts
<1> DEFINE s == proc[p].sid
<1>0. proc[p].pc \in {"cancelGateway", "cancelSave"}
  BY DEF CancelGateway, CancelSave
<1>1. s \in Subs /\ Used(s)
  BY <1>a, <1>0 DEF ProcOK, KnowsRows, NeedsSub
<1>2. CASE CancelGateway(p)
  <2> DEFINE m == proc[p].ext
  <2>0. UNCHANGED <<sub, profile, row, payment, links>> /\ proc[p].pc = "cancelGateway"
    BY <1>2 DEF CancelGateway
  <2>1. ASSUME NEW d \in Days
        PROVE  /\ [proc[p] EXCEPT !.pc = "cancelSave", !.end = d] \in ProcRecord
               /\ ProcOK([proc[p] EXCEPT !.pc = "cancelSave", !.end = d])
    <3> DEFINE r == [proc[p] EXCEPT !.pc = "cancelSave", !.end = d]
    <3>1. r \in ProcRecord
      BY ZenonT(60), <1>a
    <3>2. ProcOK(r)
      BY <1>a, <2>0
         DEF ProcOK, KnowsRows, KnowsPayment, KnowsPreapproval, KnowsConfirmed,
             NeedsSub, NeedsUser, NeedsPlan
    <3> QED BY <3>1, <3>2
  <2>2. CASE Become(p, [proc[p] EXCEPT !.pc = "cancelSave", !.end = 0]) /\ UNCHANGED preapproval
    BY <2>0, <2>1, <2>2, ReadsOn
  <2>3. CASE Finish(p) /\ UNCHANGED preapproval
    BY <2>0, <2>3, Reads, Finishes
  <2>4. ASSUME Cancellable(m), preapproval' = [preapproval EXCEPT ![m].state = "cancelled"],
               NEW d \in {preapproval[m].next, 0},
               Become(p, [proc[p] EXCEPT !.pc = "cancelSave", !.end = d])
        PROVE  Keeps
    <3> DEFINE w == [preapproval[m] EXCEPT !.state = "cancelled"]
    <3>1. m \in Preapprovals /\ preapproval[m] \in PreapprovalRecord
      BY <2>4 DEF Cancellable, IInv, TypeOK
    <3>2. preapproval[m].state # "none"
      BY <1>a, <2>0, <3>1 DEF ProcOK, KnowsPreapproval
    <3>3. w \in PreapprovalRecord
      BY <3>1 DEF PreapprovalRecord, PreapprovalStates
    <3>4. /\ w.state = "cancelled" /\ w.sub = preapproval[m].sub
          /\ w.plan = preapproval[m].plan /\ w.confirmed = preapproval[m].confirmed
      BY <3>1 DEF PreapprovalRecord
    <3>5. preapproval' = [preapproval EXCEPT ![m] = w]
      BY <2>4
    <3> HIDE DEF w
    <3>6. Grows /\ TablesType' /\ TablesOK'
      BY <2>0, <3>1, <3>2, <3>3, <3>4, <3>5, ChangesPreapproval
    <3>7. d \in Days
      BY <3>1 DEF PreapprovalRecord
    <3> QED BY <2>1, <2>4, <3>6, <3>7, MovedOn
  <2> QED BY <1>2, <2>2, <2>3, <2>4 DEF CancelGateway
<1>3. CASE CancelSave(p)
  <2> DEFINE w == [sub[s] EXCEPT !.status = "cancelled", !.end = proc[p].end]
  <2>1. sub[s] \in SubRecord /\ RowOK(s, sub[s]) /\ proc[p].end \in Date
    BY <1>a, <1>1, RowFacts
  <2>2. w \in SubRecord /\ w.user = sub[s].user
    BY <2>1 DEF SubRecord, SubStates
  <2>3. RowOK(s, w)
    BY <2>1 DEF SubRecord, RowOK
  <2>4. WriteSub(s, w) /\ Finish(p) /\ UNCHANGED <<profile, row, payment, preapproval, links>>
    BY <1>3 DEF CancelSave
  <2> HIDE DEF w, s
  <2> QED BY <1>1, <2>2, <2>3, <2>4, WritesAndFinishes
<1> QED BY <1>2, <1>3

(* Every step of a request under way keeps the invariant.                 *)
LEMMA RequestSteps ==
    ASSUME IInv, NEW p \in Procs, RequestStep(p)
    PROVE  Keeps
  BY CreateSteps, CreateGatewayStep, BricksSteps, BricksEnds, SubscribeSteps,
     CancelSteps DEF RequestStep

(***************************************************************************)
(* Webhooks.                                                               *)
(***************************************************************************)
LEMMA WebhookStarts ==
    ASSUME IInv, NEW p \in Procs, WebhookStart(p)
    PROVE  Keeps
<1> USE DEF ProcRecord, Labels, Idle, Continuations, Date
<1>a. ASSUME NEW q \in Payments, payment[q].state # "none"
      PROVE  /\ payment[q] \in PaymentRecord
             /\ payment[q].state \in PaymentStates \cup PreapprovalStates
             /\ payment[q].sub \in Subs /\ Used(payment[q].sub)
             /\ payment[q].pre \in Preapprovals \cup {None}
  <2>1. payment[q] \in PaymentRecord
    BY DEF IInv, TypeOK
  <2> QED BY <1>a, <2>1 DEF PaymentRecord, IInv, TablesOK, PaymentsOK, Used
<1>1. ASSUME NEW q \in Payments, PaymentNotice(p, q)
      PROVE  Keeps
  <2> DEFINE then == IF payment[q].state = "approved" THEN "activate" ELSE "done"
             r == [Idle EXCEPT !.pc = "findRow", !.pay = q, !.sid = payment[q].sub,
                               !.seen = payment[q].state, !.then = then]
  <2>1. /\ payment[q].state # "none" /\ Become(p, r)
        /\ UNCHANGED <<sub, profile, row, payment, preapproval, links>>
    BY <1>1 DEF PaymentNotice
  <2>2. then \in Continuations /\ (then = "activate" => payment[q].state = "approved")
        /\ then # "renew"
    OBVIOUS
  <2> HIDE DEF then
  <2>3. r \in ProcRecord
    BY <1>a, <2>1, <2>2
  <2>4. KnowsRows(r)
    BY <1>a, <2>1, NullAssumption DEF KnowsRows, NeedsSub, NeedsUser, NeedsPlan
  <2>5. KnowsPayment(r) /\ KnowsPreapproval(r) /\ KnowsConfirmed(r)
    BY <1>a, <2>1, <2>2
       DEF KnowsPayment, HoldsPayment, MeansWell, KnowsPreapproval, KnowsConfirmed
  <2> HIDE DEF r
  <2> QED BY <2>1, <2>3, <2>4, <2>5, ReadsOn DEF ProcOK
<1>2. ASSUME NEW q \in Payments, ChargeNotice(p, q)
      PROVE  Keeps
  <2> DEFINE then == IF payment[q].state = "approved" THEN "renew" ELSE "done"
             r == [Idle EXCEPT !.pc = "findByExt", !.pay = q, !.pre = payment[q].pre,
                               !.seen = payment[q].state, !.then = then]
  <2>1. /\ payment[q].state # "none" /\ payment[q].pre # None /\ Become(p, r)
        /\ UNCHANGED <<sub, profile, row, payment, preapproval, links>>
    BY <1>2 DEF ChargeNotice
  <2>2. then \in Continuations /\ (then = "renew" => payment[q].state = "approved")
        /\ then # "activate"
    OBVIOUS
  <2> HIDE DEF then
  <2>3. r \in ProcRecord
    BY <1>a, <2>1, <2>2
  <2>4. KnowsRows(r)
    BY <2>1, NullAssumption DEF KnowsRows, NeedsSub, NeedsUser, NeedsPlan
  <2>5. KnowsPayment(r) /\ KnowsPreapproval(r) /\ KnowsConfirmed(r)
    BY <1>a, <2>1, <2>2
       DEF KnowsPayment, HoldsPayment, MeansWell, KnowsPreapproval, KnowsConfirmed
  <2> HIDE DEF r
  <2> QED BY <2>1, <2>3, <2>4, <2>5, ReadsOn DEF ProcOK
<1>3. ASSUME NEW m \in Preapprovals, PreapprovalNotice(p, m)
      PROVE  Keeps
  <2> DEFINE r == [Idle EXCEPT !.pc = "findPreapproval", !.pre = m,
                               !.seen = preapproval[m].state]
  <2>1. /\ preapproval[m].state # "none" /\ Become(p, r)
        /\ UNCHANGED <<sub, profile, row, payment, preapproval, links>>
    BY <1>3 DEF PreapprovalNotice
  <2>2. /\ preapproval[m].state \in {"pending", "authorized", "paused", "cancelled"}
        /\ preapproval[m].state = "authorized" => preapproval[m].confirmed
    BY <2>1 DEF IInv, TypeOK, TablesOK, PreapprovalsOK, PreapprovalRecord, PreapprovalStates
  <2>3. r \in ProcRecord
    <3>1. preapproval[m].state \in PaymentStates \cup PreapprovalStates
      BY <2>2 DEF PreapprovalStates
    <3> QED BY <3>1
  <2>4. KnowsRows(r)
    BY NullAssumption DEF KnowsRows, NeedsSub, NeedsUser, NeedsPlan
  <2>5. KnowsPayment(r) /\ KnowsPreapproval(r) /\ KnowsConfirmed(r)
    BY <2>1, <2>2
       DEF KnowsPayment, KnowsPreapproval, HoldsPreapproval, KnowsConfirmed
  <2> HIDE DEF r
  <2> QED BY <2>1, <2>3, <2>4, <2>5, ReadsOn DEF ProcOK
<1> QED BY <1>1, <1>2, <1>3 DEF WebhookStart

(* A handler with a payment in the ledger puts in force what is paid.      *)
LEMMA AfterRowOK ==
    ASSUME IInv, NEW p \in Procs, NEW r \in ProcRecord, AfterRow(p, r),
           HoldsPayment(r), MeansWell(r), KnowsRows(r),
           r.sid = payment[r.pay].sub, r.user = sub[r.sid].user, r.plan # None
    PROVE  \E x \in ProcRecord : Become(p, x) /\ ProcOK(x)
<1> USE DEF ProcRecord, Labels
<1>1. r.sid \in Subs /\ Used(r.sid)
  BY DEF HoldsPayment, IInv, TablesOK, PaymentsOK, Used
<1>2. r.sid # None /\ r.user # None
  BY <1>1, NullAssumption DEF Used, IInv, TablesOK, SubsOK
<1>3. ASSUME NEW l \in {"activate", "bricksReject"}, l = "activate" => Paid(r.sid)
      PROVE  [r EXCEPT !.pc = l] \in ProcRecord /\ ProcOK([r EXCEPT !.pc = l])
  <2> DEFINE x == [r EXCEPT !.pc = l]
  <2>1. x \in ProcRecord
    OBVIOUS
  <2>2. /\ x.pc = l /\ x.sid = r.sid /\ x.user = r.user /\ x.plan = r.plan
        /\ x.todo = r.todo
    OBVIOUS
  <2> HIDE DEF x
  <2>3. KnowsRows(x)
    BY <1>2, <2>2 DEF KnowsRows, NeedsSub, NeedsUser, NeedsPlan
  <2>4. KnowsPayment(x) /\ KnowsPreapproval(x) /\ KnowsConfirmed(x)
    BY <1>3, <2>2 DEF KnowsPayment, KnowsPreapproval, KnowsConfirmed
  <2> QED BY <2>1, <2>3, <2>4 DEF ProcOK, x
<1>4. CASE r.then \in {"activate", "renew"}
  <2>1. Paid(r.sid)
    BY <1>4 DEF MeansWell, HoldsPayment, Paid
  <2> QED BY <1>3, <1>4, <2>1 DEF AfterRow
<1>5. CASE r.then = "reject"
  BY <1>3, <1>5 DEF AfterRow
<1>6. CASE r.then \notin {"activate", "renew", "reject"}
  BY <1>6, IdleOK DEF AfterRow, Finish
<1> QED BY <1>4, <1>5, <1>6

(* A row of the ledger for a payment a handler holds.                      *)
LEMMA WritesRow ==
    ASSUME IInv, UNCHANGED <<sub, profile, payment, preapproval, links>>,
           NEW q \in Payments, payment[q].state # "none",
           NEW x \in {"sub_approved", "sub_rejected"},
           x = "sub_approved" => payment[q].state = "approved",
           row' = [row EXCEPT ![q] = [status |-> x, sub |-> payment[q].sub]]
    PROVE  Grows /\ TablesType' /\ TablesOK'
<1>1. Grows
  BY DEF Grows, Used
<1>2. /\ row' \in [Payments -> RowRecord]
      /\ row'[q].status = x /\ row'[q].sub = payment[q].sub
      /\ \A o \in Payments : o # q => row'[o] = row[o]
  BY DEF IInv, TypeOK, RowRecord, TablesOK, PaymentsOK, Used
<1>3. TablesType'
  BY <1>2 DEF IInv, TypeOK, TablesType
<1>4. (RowsOK /\ LedgerIsTrue)'
  BY <1>2 DEF IInv, TablesOK, RowsOK, LedgerIsTrue
<1>5. TablesOK'
  BY <1>4 DEF IInv, TablesOK, SubsOK, PaymentsOK, PreapprovalsOK, LinksOK,
              ExtOK, InForceIsConfirmed, ActiveHasEnd, Used, Paid, Confirmed
<1> QED BY <1>1, <1>3, <1>5

(* What a handler learns by reading a subscription keeps it typed.          *)
LEMMA LearnsRow ==
    ASSUME NEW r \in ProcRecord,
           NEW plan \in Plans \cup {None}, NEW user \in Users \cup {None}
    PROVE  [r EXCEPT !.plan = plan, !.user = user] \in ProcRecord
  BY DEF ProcRecord

(* registerPayment and registerPaymentBySubscriptionId: the look-ups and  *)
(* the insert in the ledger.                                              *)
LEMMA LedgerSteps ==
    ASSUME IInv, NEW p \in Procs, FindRow(p) \/ FindByExt(p) \/ CreateRow(p)
    PROVE  Keeps
<1> USE DEF ProcRecord, Labels, Date, Days, At, Goto
<1>a. proc[p] \in ProcRecord /\ ProcOK(proc[p])
  BY ProcFacts
<1> DEFINE q == proc[p].pay
<1>b. /\ proc[p].pc \in {"findRow", "findByExt", "createRow"}
      /\ UNCHANGED <<sub, profile, payment, preapproval, links>>
  BY DEF FindRow, FindByExt, CreateRow
<1>c. HoldsPayment(proc[p]) /\ MeansWell(proc[p])
  BY <1>a, <1>b DEF ProcOK, KnowsPayment
(* What the handler knows once it has read its subscription.               *)
<1>d. ASSUME NEW r \in ProcRecord, r.pc \in {"createRow", "findRow"},
             r.sid \in Subs, r.sid = payment[q].sub, r.pay = q,
             r.seen = proc[p].seen, r.then = proc[p].then, r.todo = proc[p].todo,
             r.user = sub[r.sid].user, r.plan = sub[r.sid].plan
      PROVE  KnowsRows(r) /\ HoldsPayment(r) /\ MeansWell(r) /\ r.plan # None
  <2>1. Used(r.sid) /\ sub[r.sid].user \in Users /\ sub[r.sid].plan \in Plans
    BY <1>c, <1>d DEF HoldsPayment, IInv, TablesOK, PaymentsOK, SubsOK, Used
  <2>2. KnowsRows(r)
    BY <1>a, <1>d, <2>1, NullAssumption
       DEF ProcOK, KnowsRows, NeedsSub, NeedsUser, NeedsPlan
  <2>3. HoldsPayment(r) /\ MeansWell(r)
    BY <1>c, <1>d DEF HoldsPayment, MeansWell
  <2> QED BY <1>d, <2>1, <2>2, <2>3, NullAssumption
<1>f. ASSUME NEW s \in Subs
      PROVE  /\ sub[s].user \in Users \cup {None} /\ sub[s].plan \in Plans \cup {None}
             /\ [proc[p] EXCEPT !.plan = sub[s].plan, !.user = sub[s].user] \in ProcRecord
  <2>1. sub[s].user \in Users \cup {None} /\ sub[s].plan \in Plans \cup {None}
    BY DEF IInv, TypeOK, SubRecord
  <2> HIDE DEF ProcRecord
  <2> QED BY <1>a, <2>1, LearnsRow
<1>e. ASSUME NEW r \in ProcRecord, r.pc = "createRow", KnowsRows(r), HoldsPayment(r),
             MeansWell(r), r.sid = payment[r.pay].sub
      PROVE  ProcOK(r)
  BY <1>e DEF ProcOK, KnowsPayment, KnowsPreapproval, KnowsConfirmed
<1>1. CASE FindRow(p)
  <2> DEFINE s == proc[p].sid
             a == [proc[p] EXCEPT !.plan = sub[s].plan, !.user = sub[s].user]
  <2>0. proc[p].pc = "findRow" /\ UNCHANGED row
    BY <1>1 DEF FindRow
  <2>1. s \in Subs /\ s = payment[q].sub
    BY <1>a, <2>0 DEF ProcOK, KnowsRows, KnowsPayment, NeedsSub
  <2>a. a \in ProcRecord
    BY <1>f, <2>1
  <2>2. CASE row[q].status # "none"
    <3> DEFINE r == [a EXCEPT !.again = TRUE]
    <3>1. AfterRow(p, r)
      BY <1>1, <2>2 DEF FindRow
    <3>2. /\ r.pc = "findRow" /\ r.sid = s /\ r.pay = q /\ r.seen = proc[p].seen
          /\ r.then = proc[p].then /\ r.todo = proc[p].todo
          /\ r.user = sub[s].user /\ r.plan = sub[s].plan
      BY <1>a, <2>0
    <3>3. r \in ProcRecord
      <4> HIDE DEF a
      <4> QED BY ZenonT(60), <2>a
    <3> HIDE DEF r, s, q
    <3>4. KnowsRows(r) /\ HoldsPayment(r) /\ MeansWell(r) /\ r.plan # None
      BY <1>d, <2>1, <3>2, <3>3
    <3>5. \E x \in ProcRecord : Become(p, x) /\ ProcOK(x)
      BY <2>1, <3>1, <3>2, <3>3, <3>4, AfterRowOK
    <3> QED BY <1>b, <2>0, <3>5, ReadsOn
  <2>3. CASE row[q].status = "none"
    <3> DEFINE r == [a EXCEPT !.pc = "createRow"]
    <3>1. Become(p, r)
      BY <1>1, <2>3 DEF FindRow
    <3>2. /\ r.pc = "createRow" /\ r.sid = s /\ r.pay = q /\ r.seen = proc[p].seen
          /\ r.then = proc[p].then /\ r.todo = proc[p].todo
          /\ r.user = sub[s].user /\ r.plan = sub[s].plan
      BY <1>a
    <3>3. r \in ProcRecord
      <4> HIDE DEF a
      <4> QED BY <2>a
    <3> HIDE DEF r, s, q
    <3>4. KnowsRows(r) /\ HoldsPayment(r) /\ MeansWell(r) /\ r.plan # None
      BY <1>d, <2>1, <3>2, <3>3
    <3>5. ProcOK(r)
      BY <1>e, <2>1, <3>2, <3>3, <3>4
    <3> QED BY <1>b, <2>0, <3>1, <3>3, <3>5, ReadsOn
  <2> QED BY <2>2, <2>3
<1>2. CASE FindByExt(p)
  <2>0. proc[p].pc = "findByExt" /\ UNCHANGED row
    BY <1>2 DEF FindByExt
  <2>1. CASE Finish(p)
    BY <1>b, <2>0, <2>1, Reads, Finishes
  <2>2. ASSUME NEW s \in SubWithExt(proc[p].pre),
               Become(p, [proc[p] EXCEPT !.pc = "createRow", !.sid = s,
                              !.plan = sub[s].plan, !.user = sub[s].user])
        PROVE  Keeps
    <3>1. /\ s \in Subs /\ sub[s].ext = proc[p].pre
          /\ proc[p].pre \in Preapprovals /\ proc[p].pre = payment[q].pre
      BY <1>a, <2>0 DEF SubWithExt, ProcOK, KnowsPayment
    <3>2. s = payment[q].sub
      BY <1>c, <3>1, NullAssumption
         DEF IInv, TablesOK, ExtOK, PaymentsOK, HoldsPayment
    <3> DEFINE r == [proc[p] EXCEPT !.pc = "createRow", !.sid = s,
                                    !.plan = sub[s].plan, !.user = sub[s].user]
    <3>3. Become(p, r)
      BY <2>2
    <3>4. /\ r.pc = "createRow" /\ r.sid = s /\ r.pay = q /\ r.seen = proc[p].seen
          /\ r.then = proc[p].then /\ r.todo = proc[p].todo
          /\ r.user = sub[s].user /\ r.plan = sub[s].plan
      BY <1>a
    <3>5. r \in ProcRecord
      <4> DEFINE a == [proc[p] EXCEPT !.plan = sub[s].plan, !.user = sub[s].user]
                 b == [a EXCEPT !.sid = s]
      <4>1. r = [b EXCEPT !.pc = "createRow"]
        BY <1>a
      <4>2. a \in ProcRecord
        BY <1>f, <3>1
      <4> HIDE DEF a, r
      <4>3. b \in ProcRecord
        BY <3>1, <4>2
      <4> HIDE DEF b
      <4> QED BY <4>1, <4>3
    <3> HIDE DEF r, q
    <3>6. KnowsRows(r) /\ HoldsPayment(r) /\ MeansWell(r) /\ r.plan # None
      BY <1>d, <3>1, <3>2, <3>4, <3>5
    <3>7. ProcOK(r)
      BY <1>e, <3>2, <3>4, <3>5, <3>6
    <3> QED BY <1>b, <2>0, <3>3, <3>5, <3>7, ReadsOn
  <2> QED BY <1>2, <2>1, <2>2 DEF FindByExt
<1>3. CASE CreateRow(p)
  <2>0. proc[p].pc = "createRow"
    BY <1>3 DEF CreateRow
  <2>1. CASE Finish(p) /\ UNCHANGED row
    BY <1>b, <2>1, Reads, Finishes
  <2>2. CASE ~(Finish(p) /\ UNCHANGED row)
    <3> DEFINE x == IF proc[p].seen = "approved" THEN "sub_approved" ELSE "sub_rejected"
    <3>1. /\ row' = [row EXCEPT ![q] = [status |-> x, sub |-> proc[p].sid]]
          /\ AfterRow(p, proc[p])
      BY <1>3, <2>2 DEF CreateRow
    <3>2. /\ q \in Payments /\ payment[q].state # "none"
          /\ x \in {"sub_approved", "sub_rejected"}
          /\ x = "sub_approved" => payment[q].state = "approved"
      BY <1>c DEF HoldsPayment
    <3>3. /\ proc[p].sid \in Subs /\ proc[p].sid = payment[q].sub /\ KnowsRows(proc[p])
          /\ proc[p].user = sub[proc[p].sid].user /\ proc[p].plan # None
      BY <1>a, <2>0 DEF ProcOK, KnowsRows, KnowsPayment, NeedsSub, NeedsUser, NeedsPlan
    <3> HIDE DEF x
    <3>4. Grows /\ TablesType' /\ TablesOK'
      BY <1>b, <3>1, <3>2, <3>3, WritesRow
    <3>5. \E y \in ProcRecord : Become(p, y) /\ ProcOK(y)
      BY <1>a, <1>c, <3>1, <3>3, AfterRowOK
    <3> QED BY <3>4, <3>5, MovedOn
  <2> QED BY <2>1, <2>2
<1> QED BY <1>1, <1>2, <1>3

(* activateFromCheckoutPayment and the renewal of a period: what they put *)
(* in force has been paid.                                                *)
LEMMA ActivateSteps ==
    ASSUME IInv, NEW p \in Procs, Activate(p) \/ ActivateProfile(p)
    PROVE  Keeps
<1> USE DEF ProcRecord, Labels, Date, Days, At, Goto
<1>a. proc[p] \in ProcRecord /\ ProcOK(proc[p])
  BY ProcFacts
<1>1. CASE Activate(p)
  <2> DEFINE s == proc[p].sid
             d == PaidUntil(proc[p].plan)
             w == [sub[s] EXCEPT !.status = "active", !.end = d]
             r == [proc[p] EXCEPT !.pc = "activateProfile"]
  <2>0. proc[p].pc = "activate"
    BY <1>1 DEF Activate
  <2>1. /\ s \in Subs /\ Used(s) /\ Paid(s) /\ proc[p].plan \in Plans
        /\ proc[p].user = sub[s].user
    BY <1>a, <2>0 DEF ProcOK, KnowsRows, KnowsConfirmed, NeedsSub, NeedsPlan, NeedsUser
  <2>2. d \in Nat /\ d # None
    BY <2>1, PlansAssumption, NullAssumption DEF PaidUntil
  <2>3. sub[s] \in SubRecord /\ RowOK(s, sub[s])
    BY <2>1, RowFacts
  <2> HIDE DEF d
  <2>4. w \in SubRecord /\ w.user = sub[s].user
    BY <2>2, <2>3 DEF SubRecord, SubStates
  <2>5. RowOK(s, w)
    BY <2>1, <2>2, <2>3 DEF SubRecord, RowOK
  <2>6. WriteSub(s, w) /\ Become(p, r) /\ UNCHANGED <<profile, row, payment, preapproval, links>>
    BY <1>1 DEF Activate, d
  <2>7. r \in ProcRecord
    BY <1>a
  <2>8. ConfirmedUser(proc[p].user)
    BY <2>1 DEF ConfirmedUser, Confirmed
  <2>9. ProcOK(r)
    BY <1>a, <2>0, <2>8
       DEF ProcOK, KnowsRows, KnowsPayment, KnowsPreapproval, KnowsConfirmed,
           NeedsSub, NeedsUser, NeedsPlan
  <2> HIDE DEF w, r, s
  <2> QED BY <2>1, <2>4, <2>5, <2>6, <2>7, <2>9, WritesOn
<1>2. CASE ActivateProfile(p)
  <2>1. profile' \in [Users -> ProfileRecord]
    BY <1>2 DEF ActivateProfile, ActivateProfileOf, IInv, TypeOK, ProfileRecord, ProfileStates
  <2> QED BY <1>2, <2>1, WritesProfile, Finishes DEF ActivateProfile
<1> QED BY <1>1, <1>2

(* Taking a profile down, or moving the end of its trial.                  *)
LEMMA ProfileTypes ==
    ASSUME IInv, NEW u
    PROVE  /\ DeactivateProfileOf(u) => profile' \in [Users -> ProfileRecord]
           /\ ActivateProfileOf(u) => profile' \in [Users -> ProfileRecord]
           /\ \A d \in Date : profile' = [profile EXCEPT ![u].trial = d]
                                  => profile' \in [Users -> ProfileRecord]
<1>1. profile \in [Users -> ProfileRecord]
  BY DEF IInv, TypeOK
<1>2. DeactivateProfileOf(u) => profile' \in [Users -> ProfileRecord]
  BY <1>1 DEF DeactivateProfileOf, ProfileRecord, ProfileStates
<1>3. ActivateProfileOf(u) => profile' \in [Users -> ProfileRecord]
  <2>1. [status |-> "active", isActive |-> TRUE, trial |-> None] \in ProfileRecord
    BY DEF ProfileRecord, ProfileStates, Date
  <2> QED BY <1>1, <2>1 DEF ActivateProfileOf
<1>4. \A d \in Date : profile' = [profile EXCEPT ![u].trial = d]
                          => profile' \in [Users -> ProfileRecord]
  BY <1>1 DEF ProfileRecord
<1> QED BY <1>2, <1>3, <1>4

(* updateStatus up to the write of the subscription.                      *)
LEMMA PreapprovalSteps ==
    ASSUME IInv, NEW p \in Procs,
           FindPreapproval(p) \/ LinkExt(p) \/ WriteStatus(p)
    PROVE  Keeps
<1> USE DEF ProcRecord, Labels, Date, Days, At, Goto
<1>a. proc[p] \in ProcRecord /\ ProcOK(proc[p])
  BY ProcFacts
<1> DEFINE m == proc[p].pre
           s == proc[p].sid
<1>0. /\ proc[p].pc \in {"findPreapproval", "linkExt", "writeStatus"}
      /\ UNCHANGED <<profile, row, payment, preapproval, links>>
  BY DEF FindPreapproval, LinkExt, WriteStatus
<1>b. HoldsPreapproval(proc[p])
  BY <1>a, <1>0 DEF ProcOK, KnowsPreapproval
<1>c. m \in Preapprovals /\ preapproval[m].state # "none"
  BY <1>b DEF HoldsPreapproval
<1>1. CASE FindPreapproval(p)
  <2>0. UNCHANGED sub
    BY <1>1 DEF FindPreapproval
  <2>1. CASE Finish(p)
    BY <1>0, <2>0, <2>1, Reads, Finishes
  <2>2. ASSUME NEW t \in Subs, t = preapproval[m].sub, Used(t),
               NEW l \in {"linkExt", "writeStatus"},
               Become(p, [proc[p] EXCEPT !.pc = l, !.sid = t,
                              !.plan = sub[t].plan, !.user = sub[t].user])
        PROVE  Keeps
    <3> DEFINE u == sub[t].user
               plan == sub[t].plan
               r == [proc[p] EXCEPT !.pc = l, !.sid = t, !.plan = plan, !.user = u]
    <3>1. u \in Users \cup {None} /\ plan \in Plans \cup {None} /\ l \in Labels
      BY DEF IInv, TypeOK, SubRecord
    <3>2. Become(p, r)
      BY <2>2
    <3>3. u = sub[t].user
      OBVIOUS
    <3> HIDE DEF u, plan
    <3>4. r \in ProcRecord
      <4> DEFINE a == [proc[p] EXCEPT !.sid = t, !.plan = plan, !.user = u]
      <4>1. a \in ProcRecord
        BY ZenonT(60), <1>a, <3>1
      <4>2. r = [a EXCEPT !.pc = l]
        BY <1>a
      <4> HIDE DEF a, r
      <4> QED BY <3>1, <4>1, <4>2
    <3>5. /\ r.pc = l /\ r.sid = t /\ r.user = u /\ r.pre = m /\ r.seen = proc[p].seen
          /\ r.todo = proc[p].todo
      BY <1>a
    <3> HIDE DEF r
    <3>6. KnowsRows(r)
      <4>1. \A x \in r.todo : Used(x)
        BY <1>a, <3>5 DEF ProcOK, KnowsRows
      <4>2. Used(r.sid) /\ r.sid # None /\ r.user = sub[r.sid].user
        BY <2>2, <3>3, <3>5, NullAssumption
      <4>3. r.pc \notin NeedsUser /\ r.pc \notin NeedsPlan
        BY <2>2, <3>5 DEF NeedsUser, NeedsPlan
      <4> HIDE DEF ProcRecord, Labels
      <4> QED BY <4>1, <4>2, <4>3 DEF KnowsRows
    <3>7. HoldsPreapproval(r)
      BY <1>b, <3>5 DEF HoldsPreapproval
    <3>8. KnowsPayment(r) /\ KnowsPreapproval(r) /\ KnowsConfirmed(r)
      BY <2>2, <3>5, <3>7 DEF KnowsPayment, KnowsPreapproval, KnowsConfirmed
    <3> QED BY <1>0, <2>0, <3>2, <3>4, <3>6, <3>8, ReadsOn DEF ProcOK
  <2>3. ASSUME NEW t \in SubWithExt(m)
        PROVE  t \in Subs /\ t = preapproval[m].sub /\ Used(t)
    BY <1>c, NullAssumption DEF SubWithExt, IInv, TablesOK, ExtOK, PreapprovalsOK
  <2>4. preapproval[m].sub \in Subs /\ Used(preapproval[m].sub)
    BY <1>c DEF IInv, TablesOK, PreapprovalsOK, Used
  <2> QED BY <1>1, <2>1, <2>2, <2>3, <2>4 DEF FindPreapproval
<1>d. CASE LinkExt(p) \/ WriteStatus(p)
  <2>0. proc[p].pc \in {"linkExt", "writeStatus"}
    BY <1>d DEF LinkExt, WriteStatus
  <2>1. s \in Subs /\ Used(s) /\ s = preapproval[m].sub
    BY <1>a, <2>0 DEF ProcOK, KnowsRows, KnowsPreapproval, NeedsSub
  <2>2. sub[s] \in SubRecord /\ RowOK(s, sub[s])
    BY <2>1, RowFacts
  <2>3. CASE LinkExt(p)
    <3> DEFINE w == [sub[s] EXCEPT !.ext = m]
               r == [proc[p] EXCEPT !.pc = "writeStatus"]
    <3>0. proc[p].pc = "linkExt"
      BY <2>3 DEF LinkExt
    <3>1. w \in SubRecord /\ w.user = sub[s].user
      BY <1>c, <2>2 DEF SubRecord
    <3>2. RowOK(s, w)
      BY <1>c, <2>1, <2>2 DEF SubRecord, RowOK
    <3>3. WriteSub(s, w) /\ Become(p, r)
      BY <2>3 DEF LinkExt
    <3>4. r \in ProcRecord
      BY <1>a
    <3>5. ProcOK(r)
      BY <1>a, <3>0
         DEF ProcOK, KnowsRows, KnowsPayment, KnowsPreapproval, HoldsPreapproval,
             KnowsConfirmed, NeedsSub, NeedsUser, NeedsPlan
    <3> HIDE DEF w, r, s, m
    <3> QED BY <1>0, <2>1, <3>1, <3>2, <3>3, <3>4, <3>5, WritesOn
  <2>4. CASE WriteStatus(p)
    <3> DEFINE x == proc[p].seen
               w == [sub[s] EXCEPT !.status = x]
    <3>0. proc[p].pc = "writeStatus"
      BY <2>4 DEF WriteStatus
    <3>1. /\ x \in {"pending", "authorized", "paused", "cancelled"}
          /\ x = "authorized" => Confirmed(s)
      BY <1>b, <1>c, <2>1 DEF HoldsPreapproval, Confirmed
    <3>2. WriteSub(s, w) /\ AfterStatus(p)
      BY <2>4 DEF WriteStatus
    <3> HIDE DEF x
    <3>3. w \in SubRecord /\ w.user = sub[s].user
      BY <2>2, <3>1 DEF SubRecord, SubStates
    <3>4. RowOK(s, w)
      BY <2>2, <3>1 DEF SubRecord, RowOK
    <3>5. ASSUME NEW l \in {"trialEnd", "suspendProfile"}, Goto(p, l)
          PROVE  Keeps
      <4> DEFINE r == [proc[p] EXCEPT !.pc = l]
      <4>1. r \in ProcRecord
        BY <1>a
      <4>2. ProcOK(r)
        BY <1>a, <1>c, <3>0
           DEF ProcOK, KnowsRows, KnowsPayment, KnowsPreapproval, KnowsConfirmed,
               NeedsSub, NeedsUser, NeedsPlan
      <4>3. Become(p, r)
        BY <3>5
      <4> HIDE DEF w, r, s
      <4> QED BY <1>0, <2>1, <3>2, <3>3, <3>4, <4>1, <4>2, <4>3, WritesOn
    <3>6. CASE Finish(p)
      <4> HIDE DEF w, s
      <4> QED BY <1>0, <2>1, <3>2, <3>3, <3>4, <3>6, WritesAndFinishes
    <3> QED BY <3>2, <3>5, <3>6 DEF AfterStatus
  <2> QED BY <1>d, <2>3, <2>4
<1> QED BY <1>1, <1>d

(* updateStatus after the write of the subscription: the trial and the    *)
(* profile.                                                               *)
LEMMA ProfileSteps ==
    ASSUME IInv, NEW p \in Procs, TrialEnd(p) \/ SuspendProfile(p)
    PROVE  Keeps
<1>1. CASE TrialEnd(p)
  <2>1. preapproval[proc[p].pre].trial \in Date
    <3>1. proc[p].pre \in Preapprovals
      BY <1>1, ProcFacts DEF TrialEnd, At, ProcOK, KnowsPreapproval
    <3> QED BY <3>1 DEF IInv, TypeOK, PreapprovalRecord, Date
  <2>2. profile' \in [Users -> ProfileRecord]
    BY <1>1, <2>1, ProfileTypes DEF TrialEnd
  <2> QED BY <1>1, <2>2, WritesProfile, Finishes DEF TrialEnd
<1>2. CASE SuspendProfile(p)
  BY <1>2, ProfileTypes, WritesProfile, Finishes DEF SuspendProfile
<1> QED BY <1>1, <1>2

(* Every step of a webhook under way keeps the invariant.                 *)
LEMMA WebhookSteps ==
    ASSUME IInv, NEW p \in Procs, WebhookStep(p)
    PROVE  Keeps
  BY LedgerSteps, ActivateSteps, PreapprovalSteps, ProfileSteps DEF WebhookStep

(***************************************************************************)
(* Jobs.                                                                   *)
(***************************************************************************)

(* A step in which no process moves on.                                    *)
LEMMA Still ==
    ASSUME IInv, Grows, TablesType', TablesOK', UNCHANGED proc
    PROVE  Keeps
<1>1. ASSUME NEW p \in Procs PROVE ProcOK(proc[p])'
  <2>1. proc'[p] = proc[p] /\ proc[p] \in ProcRecord /\ ProcOK(proc[p])
    BY ProcFacts
  <2> QED BY <2>1, ProcGrows DEF IInv
<1>2. ProcsOK'
  BY <1>1 DEF ProcsOK
<1> QED BY <1>2 DEF Keeps, IInv, TypeOK, TablesType

(* A job that has listed the subscriptions it will treat.                  *)
LEMMA Lists ==
    ASSUME IInv, UNCHANGED <<sub, profile, row, payment, preapproval, links>>,
           NEW p \in Procs, NEW T \in SUBSET Subs, \A s \in T : Used(s),
           NEW l \in {"renewNext", "staleCancel", "lapsedNext", "preapprovalNext"},
           l = "preapprovalNext" => \A s \in T : Paid(s),
           NEW r, Become(p, r),
           \/ r = [Idle EXCEPT !.pc = l, !.todo = T]
           \/ r = [Idle EXCEPT !.pc = l, !.kind = "mp_checkout", !.todo = T]
    PROVE  Keeps
<1>1. r \in ProcRecord
  <2>1. l \in Labels /\ "mp_checkout" \in Kinds
    BY DEF Labels, Kinds
  <2> QED BY ZenonT(60), <2>1, IdleOK DEF ProcRecord
<1>2. r.pc = l /\ r.sid = None /\ r.user = None /\ r.todo = T
  BY DEF Idle
<1>4. ProcOK(r)
  BY <1>2 DEF ProcOK, KnowsRows, KnowsPayment, KnowsPreapproval, KnowsConfirmed,
              NeedsSub, NeedsUser, NeedsPlan
<1> QED BY <1>1, <1>4, ReadsOn

(* A job the scheduler fires, with the rows it selects, keeps the         *)
(* invariant.                                                             *)
LEMMA JobStarts ==
    ASSUME IInv, NEW j \in Procs, JobStart(j)
    PROVE  Keeps
<1>a. \A kinds : Expired(kinds) \in SUBSET Subs
                 /\ \A s \in Expired(kinds) : Used(s) /\ Paid(s)
  BY DEF Expired, Used, IInv, TablesOK, InForceIsConfirmed
<1>1. CASE RenewalsStart(j)
  <2>1. Become(j, [Idle EXCEPT !.pc = "renewNext", !.kind = "mp_checkout",
                               !.todo = Expired({"mp_checkout"})])
        /\ UNCHANGED <<sub, profile, row, payment, preapproval, links>>
    BY <1>1 DEF RenewalsStart
  <2> QED BY <1>a, <2>1, Lists
<1>2. CASE StaleStart(j)
  <2>1. Stale \in SUBSET Subs /\ \A s \in Stale : Used(s)
    BY DEF Stale, Used
  <2>2. Become(j, [Idle EXCEPT !.pc = "staleCancel", !.todo = Stale])
        /\ UNCHANGED <<sub, profile, row, payment, preapproval, links>>
    BY <1>2 DEF StaleStart
  <2> QED BY <2>1, <2>2, Lists
<1>3. CASE ExpireTrials(j)
  <2>1. profile' \in [Users -> ProfileRecord]
    <3>1. [status |-> "waiting_payment", isActive |-> FALSE, trial |-> None] \in ProfileRecord
      BY DEF ProfileRecord, ProfileStates, Date
    <3> QED BY <1>3, <3>1 DEF ExpireTrials, IInv, TypeOK
  <2> QED BY <1>3, <2>1, WritesProfile, Still DEF ExpireTrials
<1>4. CASE LapsedStart(j)
  <2>1. Lapsed \in SUBSET Subs /\ \A s \in Lapsed : Used(s)
    BY DEF Lapsed, Used
  <2>2. Become(j, [Idle EXCEPT !.pc = "lapsedNext", !.todo = Lapsed])
        /\ UNCHANGED <<sub, profile, row, payment, preapproval, links>>
    BY <1>4 DEF LapsedStart
  <2> QED BY <2>1, <2>2, Lists
<1>5. CASE PreapprovalStart(j)
  <2>1. ExpiredPreapproval \in SUBSET Subs
        /\ \A s \in ExpiredPreapproval : Used(s) /\ Paid(s)
    BY <1>a DEF ExpiredPreapproval
  <2>2. Become(j, [Idle EXCEPT !.pc = "preapprovalNext", !.todo = ExpiredPreapproval])
        /\ UNCHANGED <<sub, profile, row, payment, preapproval, links>>
    BY <1>5 DEF PreapprovalStart
  <2> QED BY <2>1, <2>2, Lists
<1> QED BY <1>1, <1>2, <1>3, <1>4, <1>5 DEF JobStart

(* The loop of a job goes on, with this subscription done or dropped.      *)
Loops == {"renewNext", "lapsedNext", "preapprovalNext"}

(* A job that goes back to its list still knows what it knew.             *)
LEMMA BackOK ==
    ASSUME IInv, NEW p \in Procs, NEW l \in Loops, Back(p, l),
           l = "preapprovalNext" => proc[p].pc \in {"preapprovalSave", "preapprovalProfile"}
    PROVE  \E r \in ProcRecord : Become(p, r) /\ ProcOK(r)
<1>a. proc[p] \in ProcRecord /\ ProcOK(proc[p])
  BY ProcFacts
<1> DEFINE r == [proc[p] EXCEPT !.pc = l, !.sid = None, !.user = None,
                                !.plan = None, !.seen = "none"]
<1>1. r \in ProcRecord
  BY <1>a DEF ProcRecord, Labels, Loops, PaymentStates
<1>2. r.pc = l /\ r.sid = None /\ r.user = None /\ r.todo = proc[p].todo
  BY <1>a DEF ProcRecord
<1>3. Become(p, r)
  BY DEF Back
<1> HIDE DEF r
<1>4. ProcOK(r)
  BY <1>a, <1>2 DEF Loops, ProcOK, KnowsRows, KnowsPayment, KnowsPreapproval,
                    KnowsConfirmed, NeedsSub, NeedsUser, NeedsPlan
<1> QED BY <1>1, <1>3, <1>4

(* A job that drops a row from its list keeps the invariant.              *)
LEMMA Drops ==
    ASSUME IInv, UNCHANGED <<sub, profile, row, payment, preapproval, links>>,
           NEW p \in Procs, proc[p].pc \in Loops, NEW s,
           Become(p, [proc[p] EXCEPT !.todo = @ \ {s}])
    PROVE  Keeps
<1>a. proc[p] \in ProcRecord /\ ProcOK(proc[p])
  BY ProcFacts
<1> DEFINE r == [proc[p] EXCEPT !.todo = @ \ {s}]
<1>1. r \in ProcRecord
  BY <1>a DEF ProcRecord
<1>2. /\ r.pc = proc[p].pc /\ r.sid = proc[p].sid /\ r.user = proc[p].user
      /\ r.plan = proc[p].plan /\ r.todo = proc[p].todo \ {s}
  BY <1>a DEF ProcRecord
<1>3. Become(p, r)
  OBVIOUS
<1> HIDE DEF r
<1>4. ProcOK(r)
  BY <1>a, <1>2 DEF Loops, ProcOK, KnowsRows, KnowsPayment, KnowsPreapproval,
                    KnowsConfirmed, NeedsSub, NeedsUser, NeedsPlan
<1> QED BY <1>1, <1>3, <1>4, ReadsOn

(* The loop reaches a subscription.                                        *)
LEMMA PickOK ==
    ASSUME IInv, NEW p \in Procs, NEW s \in proc[p].todo,
           NEW l \in {"renewSave", "lapsedProfile"}, Pick(p, s, l)
    PROVE  /\ s \in Subs /\ Used(s)
           /\ \E r \in ProcRecord : Become(p, r) /\ ProcOK(r)
<1>a. proc[p] \in ProcRecord /\ ProcOK(proc[p])
  BY ProcFacts
<1>b. s \in Subs /\ Used(s)
  BY <1>a DEF ProcRecord, ProcOK, KnowsRows
<1> DEFINE u == sub[s].user
           T == proc[p].todo \ {s}
           r == [proc[p] EXCEPT !.pc = l, !.sid = s, !.user = u, !.todo = T]
<1>0. u \in Users \cup {None} /\ T \in SUBSET Subs /\ u = sub[s].user
      /\ \A t \in T : Used(t)
  BY <1>a, <1>b DEF ProcRecord, IInv, TypeOK, SubRecord, ProcOK, KnowsRows
<1>3. Become(p, r)
  BY <1>a DEF Pick, ProcRecord
<1> HIDE DEF u, T
<1>1. r \in ProcRecord
  <2> DEFINE a == [proc[p] EXCEPT !.sid = s, !.user = u, !.todo = T]
  <2>1. a \in ProcRecord
    BY ZenonT(60), <1>a, <1>b, <1>0 DEF ProcRecord
  <2>2. r = [a EXCEPT !.pc = l] /\ l \in Labels
    BY <1>a DEF ProcRecord, Labels
  <2> HIDE DEF a, r
  <2> QED BY <2>1, <2>2 DEF ProcRecord
<1>2. r.pc = l /\ r.sid = s /\ r.user = u /\ r.todo = T
  BY <1>a DEF ProcRecord
<1> HIDE DEF r
<1>4. ProcOK(r)
  BY <1>b, <1>0, <1>2, NullAssumption
     DEF ProcOK, KnowsRows, KnowsPayment, KnowsPreapproval,
         KnowsConfirmed, NeedsSub, NeedsUser, NeedsPlan
<1> QED BY <1>1, <1>3, <1>4, <1>b

(* Every step of handleRenewals keeps the invariant.                      *)
LEMMA RenewalSteps ==
    ASSUME IInv, NEW j \in Procs,
           \/ RenewalsNextStrategy(j) \/ RenewalsPick(j)
           \/ RenewalsSave(j) \/ RenewalsProfile(j)
    PROVE  Keeps
<1> USE DEF At, Goto
<1>a. proc[j] \in ProcRecord /\ ProcOK(proc[j])
  BY ProcFacts
<1>1. CASE RenewalsNextStrategy(j)
  <2>0. /\ proc[j].pc = "renewNext"
        /\ UNCHANGED <<sub, profile, row, payment, preapproval, links>>
    BY <1>1 DEF RenewalsNextStrategy
  <2>1. CASE Finish(j)
    BY <2>0, <2>1, Reads, Finishes
  <2>2. CASE ~Finish(j)
    <3> DEFINE T == Expired({"mp_bricks"})
               r == [proc[j] EXCEPT !.kind = "mp_bricks", !.todo = T]
    <3>1. T \in SUBSET Subs /\ \A s \in T : Used(s)
      BY DEF Expired, Used
    <3>2. Become(j, r)
      BY <1>1, <2>2 DEF RenewalsNextStrategy
    <3> HIDE DEF T
    <3>3. r \in ProcRecord
      BY <1>a, <3>1 DEF ProcRecord, Kinds
    <3>4. /\ r.pc = "renewNext" /\ r.sid = proc[j].sid /\ r.user = proc[j].user
          /\ r.todo = T
      BY <1>a, <2>0 DEF ProcRecord
    <3> HIDE DEF r
    <3>5. ProcOK(r)
      BY <1>a, <3>1, <3>4
         DEF ProcOK, KnowsRows, KnowsPayment, KnowsPreapproval, KnowsConfirmed,
             NeedsSub, NeedsUser, NeedsPlan
    <3> QED BY <2>0, <3>2, <3>3, <3>5, ReadsOn
  <2> QED BY <2>1, <2>2
<1>2. CASE RenewalsPick(j)
  <2>1. PICK s \in proc[j].todo :
            /\ Pick(j, s, "renewSave")
            /\ links' = IF proc[j].kind = "mp_checkout" THEN links \cup {s} ELSE links
    BY <1>2 DEF RenewalsPick
  <2>2. /\ s \in Subs /\ Used(s)
        /\ \E r \in ProcRecord : Become(j, r) /\ ProcOK(r)
    BY <2>1, PickOK
  <2>3. UNCHANGED <<sub, profile, row, payment, preapproval>>
    BY <1>2 DEF RenewalsPick
  <2>4. CASE links' = links
    BY <2>2, <2>3, <2>4, ReadsOn
  <2>5. CASE links' = links \cup {s}
    BY <2>2, <2>3, <2>5, AddsLink, MovedOn
  <2> QED BY <2>1, <2>4, <2>5
<1>3. CASE RenewalsSave(j)
  <2> DEFINE s == proc[j].sid
             e == IF proc[j].kind = "mp_checkout" THEN Opaque ELSE sub[s].ext
             w == [sub[s] EXCEPT !.status = "pending", !.link = TRUE, !.ext = e]
             r == [proc[j] EXCEPT !.pc = "renewProfile"]
  <2>0. proc[j].pc = "renewSave"
    BY <1>3 DEF RenewalsSave
  <2>1. s \in Subs /\ Used(s)
    BY <1>a, <2>0 DEF ProcRecord, ProcOK, KnowsRows, NeedsSub
  <2>2. sub[s] \in SubRecord /\ RowOK(s, sub[s])
    BY <2>1, RowFacts
  <2>3. WriteSub(s, w) /\ Become(j, r)
        /\ UNCHANGED <<profile, row, payment, preapproval, links>>
    BY <1>3 DEF RenewalsSave
  <2>4. /\ e \in Preapprovals \cup {None, Opaque}
        /\ e \in Preapprovals => e = sub[s].ext
    BY <2>2, NullAssumption DEF SubRecord
  <2> HIDE DEF e
  <2>5. w \in SubRecord /\ w.user = sub[s].user
    BY <2>2, <2>4 DEF SubRecord, SubStates
  <2>6. RowOK(s, w)
    BY <2>2, <2>4 DEF SubRecord, RowOK
  <2>7. r \in ProcRecord
    BY <1>a DEF ProcRecord, Labels
  <2>8. ProcOK(r)
    BY <1>a, <2>0
       DEF ProcRecord, ProcOK, KnowsRows, KnowsPayment, KnowsPreapproval,
           KnowsConfirmed, NeedsSub, NeedsUser, NeedsPlan
  <2> HIDE DEF w, r, s
  <2> QED BY <2>1, <2>3, <2>5, <2>6, <2>7, <2>8, WritesOn
<1>4. CASE RenewalsProfile(j)
  <2>1. \E r \in ProcRecord : Become(j, r) /\ ProcOK(r)
    BY <1>4, BackOK DEF RenewalsProfile, Loops
  <2> QED BY <1>4, <2>1, ProfileTypes, WritesProfile, MovedOn DEF RenewalsProfile
<1> QED BY <1>1, <1>2, <1>3, <1>4

(* The job for stale links writes several rows in one statement.           *)
LEMMA StaleCancelStep ==
    ASSUME IInv, NEW j \in Procs, StaleCancel(j)
    PROVE  Keeps
<1>0. UNCHANGED <<profile, row, payment, preapproval, links>> /\ Finish(j)
  BY DEF StaleCancel
<1>a. \A s \in proc[j].todo : Used(s)
  BY ProcFacts DEF ProcOK, KnowsRows
<1>1. ASSUME NEW s \in Subs
      PROVE  /\ sub'[s] \in SubRecord
             /\ sub'[s].user = sub[s].user /\ sub'[s].plan = sub[s].plan
             /\ sub'[s].ext = sub[s].ext /\ sub'[s].end = sub[s].end
             /\ \/ s \notin proc[j].todo /\ sub'[s].status = sub[s].status
                \/ Used(s) /\ sub'[s].status = "cancelled"
  <2>1. sub[s] \in SubRecord
    BY DEF IInv, TypeOK
  <2>2. 0 \in 0 .. StaleAge /\ "cancelled" \in SubStates
    BY PlansAssumption DEF SubStates
  <2>3. CASE s \in proc[j].todo
    <3>1. sub'[s] = [sub[s] EXCEPT !.status = "cancelled", !.age = 0]
      BY <2>3 DEF StaleCancel
    <3> QED BY <1>a, <2>1, <2>2, <2>3, <3>1 DEF SubRecord
  <2>4. CASE s \notin proc[j].todo
    <3>1. sub'[s] = sub[s]
      BY <2>4 DEF StaleCancel
    <3> QED BY <2>1, <2>4, <3>1
  <2> QED BY <2>3, <2>4
<1>2. \A s \in Subs : Used(s) => Used(s)' /\ sub'[s].user = sub[s].user
  BY <1>1 DEF Used
<1>3. Grows
  BY <1>0, <1>2 DEF Grows
<1>4. TablesType'
  <2>1. sub' \in [Subs -> SubRecord]
    BY <1>1 DEF StaleCancel
  <2> QED BY <1>0, <2>1 DEF IInv, TypeOK, TablesType
<1>5. (SubsOK /\ ExtOK)'
  BY <1>0, <1>1 DEF IInv, TablesOK, SubsOK, ExtOK, Used
<1>6. (PaymentsOK /\ PreapprovalsOK /\ LinksOK /\ RowsOK /\ LedgerIsTrue)'
  BY <1>0, <1>2 DEF IInv, TypeOK, TablesOK, PaymentsOK, PreapprovalsOK, LinksOK,
                    RowsOK, LedgerIsTrue, Used
<1>7. \A t : (Paid(t) => Paid(t)') /\ (Confirmed(t) => Confirmed(t)')
  BY <1>0 DEF Paid, Confirmed
<1>8. (InForceIsConfirmed /\ ActiveHasEnd)'
  BY <1>1, <1>7 DEF IInv, TablesOK, InForceIsConfirmed, ActiveHasEnd
<1> QED BY <1>0, <1>3, <1>4, <1>5, <1>6, <1>8, Finishes DEF TablesOK

(* Every step of handleExpiredCancelledSubscriptions keeps the invariant. *)
LEMMA LapsedSteps ==
    ASSUME IInv, NEW j \in Procs, LapsedPick(j) \/ LapsedDone(j) \/ LapsedProfile(j)
    PROVE  Keeps
<1> USE DEF At
<1>1. CASE LapsedPick(j)
  <2>0. /\ proc[j].pc = "lapsedNext"
        /\ UNCHANGED <<sub, profile, row, payment, preapproval, links>>
    BY <1>1 DEF LapsedPick
  <2>1. ASSUME NEW s \in proc[j].todo, Pick(j, s, "lapsedProfile")
        PROVE  Keeps
    BY <2>0, <2>1, PickOK, ReadsOn
  <2>2. ASSUME NEW s \in proc[j].todo, Become(j, [proc[j] EXCEPT !.todo = @ \ {s}])
        PROVE  Keeps
    BY <2>0, <2>2, Drops DEF Loops
  <2> QED BY <1>1, <2>1, <2>2 DEF LapsedPick
<1>2. CASE LapsedDone(j)
  BY <1>2, Reads, Finishes DEF LapsedDone
<1>3. CASE LapsedProfile(j)
  <2>1. \E r \in ProcRecord : Become(j, r) /\ ProcOK(r)
    BY <1>3, BackOK DEF LapsedProfile, Loops
  <2>2. profile' \in [Users -> ProfileRecord]
    BY <1>3, ProfileTypes DEF LapsedProfile, IInv, TypeOK
  <2> QED BY <1>3, <2>1, <2>2, WritesProfile, MovedOn DEF LapsedProfile
<1> QED BY <1>1, <1>2, <1>3

(* Every step of handleRenewPreapproval keeps the invariant.              *)
LEMMA RecoverySteps ==
    ASSUME IInv, NEW j \in Procs,
           \/ PreapprovalPick(j) \/ PreapprovalDone(j)
           \/ PreapprovalSave(j) \/ PreapprovalProfile(j)
    PROVE  Keeps
<1> USE DEF At, Goto
<1>a. proc[j] \in ProcRecord /\ ProcOK(proc[j])
  BY ProcFacts
<1>1. CASE PreapprovalPick(j)
  <2>0. /\ proc[j].pc = "preapprovalNext"
        /\ UNCHANGED <<sub, profile, row, payment, preapproval, links>>
    BY <1>1 DEF PreapprovalPick
  <2>1. ASSUME NEW s \in proc[j].todo, Become(j, [proc[j] EXCEPT !.todo = @ \ {s}])
        PROVE  Keeps
    BY <2>0, <2>1, Drops DEF Loops
  <2>2. ASSUME NEW s \in proc[j].todo, NEW m \in Preapprovals,
               Become(j, [proc[j] EXCEPT !.pc = "preapprovalSave",
                      !.sid = s, !.user = sub[s].user, !.plan = sub[s].plan,
                      !.seen = preapproval[m].state, !.todo = @ \ {s}])
        PROVE  Keeps
    <3> DEFINE u == sub[s].user
               plan == sub[s].plan
               x == preapproval[m].state
               T == proc[j].todo \ {s}
               a == [proc[j] EXCEPT !.sid = s, !.user = u, !.plan = plan]
               b == [a EXCEPT !.seen = x, !.todo = T]
               r == [b EXCEPT !.pc = "preapprovalSave"]
    <3>1. /\ s \in Subs /\ Used(s) /\ Paid(s) /\ T \in SUBSET Subs
          /\ \A t \in T : Used(t) /\ Paid(t)
      BY <1>a, <2>0 DEF ProcRecord, ProcOK, KnowsRows, KnowsConfirmed
    <3>2. /\ u \in Users /\ plan \in Plans /\ u = sub[s].user
          /\ x \in PaymentStates \cup PreapprovalStates
      BY <3>1 DEF IInv, TypeOK, PreapprovalRecord, TablesOK, SubsOK, Used
    <3>3. r = [proc[j] EXCEPT !.pc = "preapprovalSave",
                      !.sid = s, !.user = sub[s].user, !.plan = sub[s].plan,
                      !.seen = preapproval[m].state, !.todo = @ \ {s}]
      BY <1>a DEF ProcRecord
    <3> HIDE DEF u, plan, x, T
    <3>4. a \in ProcRecord
      BY <1>a, <3>1, <3>2 DEF ProcRecord
    <3>5. /\ b.sid = s /\ b.user = u /\ b.plan = plan /\ b.todo = T
      BY <1>a DEF ProcRecord
    <3> HIDE DEF a
    <3>6. b \in ProcRecord
      BY <3>1, <3>2, <3>4 DEF ProcRecord
    <3> HIDE DEF b
    <3>7. r \in ProcRecord
      BY <3>6 DEF ProcRecord, Labels
    <3>8. /\ r.pc = "preapprovalSave" /\ r.sid = s /\ r.user = u
          /\ r.plan = plan /\ r.todo = T
      BY <3>5, <3>6 DEF ProcRecord
    <3> HIDE DEF r
    <3>9. ProcOK(r)
      BY <3>1, <3>2, <3>8, NullAssumption
         DEF ProcOK, KnowsRows, KnowsPayment, KnowsPreapproval, KnowsConfirmed,
             NeedsSub, NeedsUser, NeedsPlan
    <3>10. Become(j, r)
      BY <2>2, <3>3
    <3> QED BY <2>0, <3>7, <3>9, <3>10, ReadsOn
  <2> QED BY <1>1, <2>1, <2>2 DEF PreapprovalPick
<1>2. CASE PreapprovalDone(j)
  BY <1>2, Reads, Finishes DEF PreapprovalDone
<1>3. CASE PreapprovalSave(j)
  <2> DEFINE s == proc[j].sid
             x == proc[j].seen
             d == Period[proc[j].plan]
             r == [proc[j] EXCEPT !.pc = "preapprovalProfile"]
  <2>0. /\ proc[j].pc = "preapprovalSave" /\ Become(j, r)
        /\ UNCHANGED <<profile, row, payment, preapproval, links>>
    BY <1>3 DEF PreapprovalSave
  <2>1. /\ s \in Subs /\ Used(s) /\ Paid(s) /\ proc[j].plan \in Plans
        /\ proc[j].user = sub[s].user
    BY <1>a, <2>0
       DEF ProcRecord, ProcOK, KnowsRows, KnowsConfirmed, NeedsSub, NeedsPlan, NeedsUser
  <2>2. sub[s] \in SubRecord /\ RowOK(s, sub[s])
    BY <2>1, RowFacts
  <2>3. d \in Nat /\ d # None
    BY <2>1, PlansAssumption, NullAssumption
  <2>4. r \in ProcRecord
    BY <1>a DEF ProcRecord, Labels
  <2>5. ConfirmedUser(proc[j].user)
    BY <2>1 DEF ConfirmedUser, Confirmed
  <2>6. ProcOK(r)
    BY <1>a, <2>0, <2>5
       DEF ProcRecord, ProcOK, KnowsRows, KnowsPayment, KnowsPreapproval,
           KnowsConfirmed, NeedsSub, NeedsUser, NeedsPlan
  <2>7. ASSUME NEW w \in SubRecord, RowOK(s, w), w.user = sub[s].user, WriteSub(s, w)
        PROVE  Keeps
    <3> HIDE DEF s, r
    <3> QED BY <2>0, <2>1, <2>4, <2>6, <2>7, WritesOn
  <2> HIDE DEF d
  <2>8. CASE x = "authorized"
    <3> DEFINE w == [sub[s] EXCEPT !.status = "active", !.end = d]
    <3>1. w \in SubRecord /\ w.user = sub[s].user
      BY <2>2, <2>3 DEF SubRecord, SubStates, Date, Days
    <3>2. RowOK(s, w)
      BY <2>1, <2>2, <2>3 DEF SubRecord, RowOK
    <3>3. WriteSub(s, w)
      BY <1>3, <2>8 DEF PreapprovalSave, d
    <3> QED BY <2>7, <3>1, <3>2, <3>3
  <2>9. ASSUME NEW y \in {"cancelled", "paused"},
               WriteSub(s, [sub[s] EXCEPT !.status = y])
        PROVE  Keeps
    <3> DEFINE w == [sub[s] EXCEPT !.status = y]
    <3>1. w \in SubRecord /\ w.user = sub[s].user
      BY <2>2 DEF SubRecord, SubStates
    <3>2. RowOK(s, w)
      BY <2>2 DEF SubRecord, RowOK
    <3> QED BY <2>7, <2>9, <3>1, <3>2
  <2> QED BY <1>3, <2>8, <2>9 DEF PreapprovalSave
<1>4. CASE PreapprovalProfile(j)
  <2>1. \E r \in ProcRecord : Become(j, r) /\ ProcOK(r)
    BY <1>4, BackOK DEF PreapprovalProfile, Loops
  <2>2. profile' \in [Users -> ProfileRecord]
    <3>1. profile \in [Users -> ProfileRecord]
      BY DEF IInv, TypeOK
    <3>2. CASE proc[j].seen = "authorized"
      BY <1>4, <3>1, <3>2 DEF PreapprovalProfile, ProfileRecord, ProfileStates
    <3>3. CASE proc[j].seen # "authorized"
      BY <1>4, <3>3, ProfileTypes DEF PreapprovalProfile
    <3> QED BY <3>2, <3>3
  <2> QED BY <1>4, <2>1, <2>2, WritesProfile, MovedOn DEF PreapprovalProfile
<1> QED BY <1>1, <1>2, <1>3, <1>4

(* Every step of a job under way keeps the invariant.                     *)
LEMMA JobSteps ==
    ASSUME IInv, NEW j \in Procs, JobStep(j)
    PROVE  Keeps
  BY RenewalSteps, StaleCancelStep, LapsedSteps, RecoverySteps DEF JobStep

(* Exceptions, caught or not.                                              *)
LEMMA Failures ==
    ASSUME IInv, NEW p \in Procs, Fail(p) \/ SkipOnError(p)
    PROVE  Keeps
<1> USE DEF At
<1>1. CASE Fail(p)
  BY <1>1, Reads, Finishes DEF Fail
<1>2. CASE SkipOnError(p)
  <2>0. UNCHANGED <<sub, profile, row, payment, preapproval, links>>
    BY <1>2 DEF SkipOnError
  <2>1. ASSUME proc[p].pc \in {"renewNext", "preapprovalNext"}, NEW s \in proc[p].todo,
               Become(p, [proc[p] EXCEPT !.todo = @ \ {s}])
        PROVE  Keeps
    BY <2>0, <2>1, Drops DEF Loops
  <2>2. CASE Back(p, "renewNext")
    BY <2>0, <2>2, BackOK, ReadsOn DEF Loops
  <2>3. CASE /\ proc[p].pc \in {"preapprovalSave", "preapprovalProfile"}
             /\ Back(p, "preapprovalNext")
    BY <2>0, <2>3, BackOK, ReadsOn DEF Loops
  <2> QED BY <1>2, <2>1, <2>2, <2>3 DEF SkipOnError
<1> QED BY <1>1, <1>2

(***************************************************************************)
(* MercadoPago and time.                                                   *)
(***************************************************************************)
LEMMA GatewaySteps ==
    ASSUME IInv, GatewayStep
    PROVE  Keeps
<1>1. ASSUME NEW s \in Subs, PayLink(s)
      PROVE  Keeps
  <2>1. Used(s)
    BY <1>1 DEF PayLink, IInv, TablesOK, LinksOK
  <2>2. PICK q \in FreePayments, x \in {"approved", "pending", "rejected"} :
            payment' = [payment EXCEPT ![q] = [state |-> x, sub |-> s, pre |-> None]]
    BY <1>1 DEF PayLink
  <2>3. UNCHANGED <<sub, profile, row, preapproval, links, proc>>
    BY <1>1 DEF PayLink
  <2>4. Grows /\ TablesType' /\ TablesOK'
    BY <2>1, <2>2, <2>3, CreatesPayment
  <2> QED BY <2>3, <2>4, Still
<1>2. ASSUME NEW q \in Payments, SettlePayment(q)
      PROVE  Keeps
  <2>1. PICK x \in {"approved", "rejected"} : payment' = [payment EXCEPT ![q].state = x]
    BY <1>2 DEF SettlePayment
  <2>2. /\ UNCHANGED <<sub, profile, row, preapproval, links, proc>>
        /\ payment[q].state = "pending"
    BY <1>2 DEF SettlePayment
  <2>3. /\ payment' \in [Payments -> PaymentRecord]
        /\ payment'[q].state = x /\ payment'[q].sub = payment[q].sub
        /\ payment'[q].pre = payment[q].pre
        /\ \A o \in Payments : o # q => payment'[o] = payment[o]
    BY <2>1 DEF IInv, TypeOK, PaymentRecord, PaymentStates
  <2>4. Grows
    BY <2>2, <2>3 DEF Grows, Used
  <2>5. TablesType'
    BY <2>2, <2>3 DEF IInv, TypeOK, TablesType
  <2>6. PaymentsOK'
    BY <2>2, <2>3 DEF IInv, TablesOK, PaymentsOK, Used
  <2>7. PreapprovalsOK'
    BY <2>2 DEF IInv, TablesOK, PreapprovalsOK, Used
  <2> QED BY <2>2, <2>4, <2>5, <2>6, <2>7, GatewayTables, Still
<1>3. ASSUME NEW m \in Preapprovals, MovePreapproval(m)
      PROVE  Keeps
  <2>1. PICK x \in PreapprovalMoves(preapproval[m].state) :
            preapproval' = [preapproval EXCEPT
                               ![m].state = x,
                               ![m].confirmed = @ \/ x = "authorized"]
    BY <1>3 DEF MovePreapproval
  <2>2. UNCHANGED <<sub, profile, row, payment, links, proc>>
    BY <1>3 DEF MovePreapproval
  <2>3. x \in {"authorized", "paused", "cancelled"} /\ preapproval[m].state # "none"
    BY <2>1 DEF PreapprovalMoves
  <2>4. preapproval[m] \in PreapprovalRecord
    BY DEF IInv, TypeOK
  <2> DEFINE c == preapproval[m].confirmed \/ x = "authorized"
             w == [preapproval[m] EXCEPT !.state = x, !.confirmed = c]
  <2>5. /\ c \in BOOLEAN
        /\ preapproval[m].confirmed => c
        /\ x = "authorized" => c
    OBVIOUS
  <2>6. preapproval' = [preapproval EXCEPT ![m] = w]
    BY <2>1
  <2> HIDE DEF c
  <2>7. w \in PreapprovalRecord
    BY <2>3, <2>4, <2>5 DEF PreapprovalRecord, PreapprovalStates
  <2>8. /\ w.state = x /\ w.sub = preapproval[m].sub /\ w.plan = preapproval[m].plan
        /\ w.confirmed = c
    BY <2>4 DEF PreapprovalRecord
  <2> HIDE DEF w
  <2>9. Grows /\ TablesType' /\ TablesOK'
    BY <2>2, <2>3, <2>5, <2>6, <2>7, <2>8, ChangesPreapproval
  <2> QED BY <2>2, <2>9, Still
<1>4. ASSUME NEW m \in Preapprovals, ChargePreapproval(m)
      PROVE  Keeps
  <2>1. PICK q \in FreePayments, x \in {"approved", "pending", "rejected"} :
            /\ payment' = [payment EXCEPT ![q] =
                              [state |-> x, sub |-> preapproval[m].sub, pre |-> m]]
            /\ preapproval' = [preapproval EXCEPT ![m].next =
                                  IF x = "rejected" THEN 0
                                  ELSE Period[preapproval[m].plan]]
    BY <1>4 DEF ChargePreapproval
  <2>2. /\ UNCHANGED <<sub, profile, row, links, proc>>
        /\ preapproval[m].state = "authorized"
    BY <1>4 DEF ChargePreapproval
  <2>3. /\ Used(preapproval[m].sub) /\ preapproval[m].sub \in Subs
        /\ preapproval[m].plan \in Plans /\ preapproval[m] \in PreapprovalRecord
    BY <2>2 DEF IInv, TypeOK, TablesOK, PreapprovalsOK, Used
  <2> DEFINE d == IF x = "rejected" THEN 0 ELSE Period[preapproval[m].plan]
             w == [preapproval[m] EXCEPT !.next = d]
  <2>4. d \in Days
    BY <2>3, PlansAssumption DEF Days
  <2>5. preapproval' = [preapproval EXCEPT ![m] = w]
    BY <2>1
  <2> HIDE DEF d
  <2>6. /\ w \in PreapprovalRecord /\ w.state = preapproval[m].state
        /\ w.sub = preapproval[m].sub /\ w.plan = preapproval[m].plan
        /\ w.confirmed = preapproval[m].confirmed
    BY <2>3, <2>4 DEF PreapprovalRecord
  <2> HIDE DEF w
  <2>7. /\ preapproval' \in [Preapprovals -> PreapprovalRecord] /\ preapproval'[m] = w
        /\ \A o \in Preapprovals : o # m => preapproval'[o] = preapproval[o]
    BY <2>5, <2>6 DEF IInv, TypeOK
  <2> DEFINE y == [state |-> x, sub |-> preapproval[m].sub, pre |-> m]
  <2>8. y \in PaymentRecord /\ y.sub = preapproval[m].sub /\ y.pre = m
    BY <2>3 DEF PaymentRecord, PaymentStates
  <2>9. q \in Payments /\ payment[q].state = "none"
    BY DEF FreePayments
  <2>10. payment' = [payment EXCEPT ![q] = y]
    BY <2>1
  <2> HIDE DEF y
  <2>11. /\ payment' \in [Payments -> PaymentRecord] /\ payment'[q] = y
         /\ \A o \in Payments : o # q => payment'[o] = payment[o]
    BY <2>8, <2>9, <2>10 DEF IInv, TypeOK
  <2>12. Grows
    BY <2>2, <2>6, <2>7, <2>9, <2>11 DEF Grows, Used
  <2>13. TablesType'
    BY <2>2, <2>7, <2>11 DEF IInv, TypeOK, TablesType
  <2>14. PreapprovalsOK'
    BY <2>2, <2>6, <2>7 DEF IInv, TablesOK, PreapprovalsOK, Used
  <2>15. PaymentsOK'
    <3>1. ASSUME NEW o \in Payments, payment'[o].state # "none"
          PROVE  /\ Used(payment[o].sub)'
                 /\ (payment[o].pre # None =>
                        /\ preapproval[payment[o].pre].state # "none"
                        /\ preapproval[payment[o].pre].sub = payment[o].sub)'
      <4>1. CASE o = q
        BY <2>2, <2>3, <2>6, <2>7, <2>8, <2>11, <4>1 DEF Used
      <4>2. CASE o # q
        <5>1. payment[o].pre \in Preapprovals \cup {None}
          BY DEF IInv, TypeOK, PaymentRecord
        <5> QED BY <2>2, <2>6, <2>7, <2>11, <3>1, <4>2, <5>1
                   DEF IInv, TablesOK, PaymentsOK, Used
      <4> QED BY <4>1, <4>2
    <3> QED BY <3>1 DEF PaymentsOK
  <2> QED BY <2>2, <2>12, <2>13, <2>14, <2>15, GatewayTables, Still
<1> QED BY <1>1, <1>2, <1>3, <1>4 DEF GatewayStep

(* A day only brings dates nearer.                                         *)
LEMMA TickStep ==
    ASSUME IInv, Tick
    PROVE  Keeps
<1>0. UNCHANGED <<row, payment, links>>
  BY DEF Tick
<1>a. \A d \in Date : Sooner(d) \in Date /\ (d # None => Sooner(d) # None)
  BY NullAssumption DEF Sooner, Date, Days
<1>b. \A d \in Days : Sooner(d) \in Days
  BY DEF Sooner, Days
<1>1. ASSUME NEW s \in Subs
      PROVE  /\ sub'[s] \in SubRecord
             /\ sub'[s].status = sub[s].status /\ sub'[s].user = sub[s].user
             /\ sub'[s].plan = sub[s].plan /\ sub'[s].ext = sub[s].ext
             /\ sub[s].end # None => sub'[s].end # None
  <2>1. sub[s] \in SubRecord
    BY DEF IInv, TypeOK
  <2>2. CASE sub[s].status = "none"
    <3>1. sub'[s] = sub[s]
      BY <2>2 DEF Tick
    <3> QED BY <2>1, <3>1
  <2>3. CASE sub[s].status # "none"
    <3> DEFINE d == Sooner(sub[s].end)
               a == Older(sub[s].age)
    <3>1. sub'[s] = [sub[s] EXCEPT !.end = d, !.age = a]
      BY <2>3 DEF Tick
    <3>2. d \in Date /\ (sub[s].end # None => d # None)
      BY <1>a, <2>1 DEF SubRecord
    <3>3. a \in 0 .. StaleAge
      <4>1. sub[s].age \in 0 .. StaleAge
        BY <2>1 DEF SubRecord
      <4> QED BY <4>1, PlansAssumption DEF Older
    <3> HIDE DEF d, a
    <3> QED BY <2>1, <3>1, <3>2, <3>3 DEF SubRecord
  <2> QED BY <2>2, <2>3
<1>2. ASSUME NEW m \in Preapprovals
      PROVE  /\ preapproval'[m] \in PreapprovalRecord
             /\ preapproval'[m].state = preapproval[m].state
             /\ preapproval'[m].sub = preapproval[m].sub
             /\ preapproval'[m].plan = preapproval[m].plan
             /\ preapproval'[m].confirmed = preapproval[m].confirmed
  <2>1. preapproval[m] \in PreapprovalRecord
    BY DEF IInv, TypeOK
  <2> DEFINE d == Sooner(preapproval[m].next)
             e == Sooner(preapproval[m].trial)
  <2>2. preapproval'[m] = [preapproval[m] EXCEPT !.next = d, !.trial = e]
    BY DEF Tick
  <2>3. d \in Days /\ e \in Days
    BY <1>b, <2>1 DEF PreapprovalRecord
  <2> HIDE DEF d, e
  <2> QED BY <2>1, <2>2, <2>3 DEF PreapprovalRecord
<1>3. profile' \in [Users -> ProfileRecord]
  <2>1. ASSUME NEW u \in Users
        PROVE  [profile[u] EXCEPT !.trial = Sooner(@)] \in ProfileRecord
    <3>1. profile[u] \in ProfileRecord
      BY DEF IInv, TypeOK
    <3> QED BY <1>a, <3>1 DEF ProfileRecord
  <2> QED BY <2>1 DEF Tick
<1>4. Grows
  BY <1>0, <1>1, <1>2 DEF Grows, Used
<1>5. sub' \in [Subs -> SubRecord] /\ preapproval' \in [Preapprovals -> PreapprovalRecord]
  BY <1>1, <1>2 DEF Tick
<1>6. TablesType'
  BY <1>0, <1>3, <1>5 DEF IInv, TypeOK, TablesType
<1>7. \A t : (Paid(t) => Paid(t)') /\ (Confirmed(t) => Confirmed(t)')
  BY <1>0, <1>2 DEF Paid, Confirmed
<1>8. TablesOK'
  <2>1. (SubsOK /\ ActiveHasEnd /\ InForceIsConfirmed)'
    BY <1>1, <1>7 DEF IInv, TablesOK, SubsOK, ActiveHasEnd, InForceIsConfirmed
  <2>2. (PreapprovalsOK /\ LinksOK)'
    BY <1>0, <1>1, <1>2 DEF IInv, TablesOK, PreapprovalsOK, LinksOK, Used
  <2>3. PaymentsOK'
    <3>1. \A q \in Payments : payment[q].pre \in Preapprovals \cup {None}
      BY DEF IInv, TypeOK, PaymentRecord
    <3> QED BY <1>0, <1>1, <1>2, <3>1 DEF IInv, TablesOK, PaymentsOK, Used
  <2>4. (RowsOK /\ LedgerIsTrue)'
    BY <1>0 DEF IInv, TablesOK, RowsOK, LedgerIsTrue
  <2>5. ExtOK'
    BY <1>1, <1>2 DEF IInv, TablesOK, ExtOK
  <2> QED BY <2>1, <2>2, <2>3, <2>4, <2>5 DEF TablesOK
<1>9. ASSUME NEW p \in Procs
      PROVE  proc'[p] \in ProcRecord /\ ProcOK(proc[p])'
  <2>1. proc[p] \in ProcRecord /\ ProcOK(proc[p])
    BY ProcFacts
  <2> DEFINE d == Sooner(proc[p].end)
             r == [proc[p] EXCEPT !.end = d]
  <2>2. proc'[p] = r
    BY DEF Tick
  <2>3. d \in Date
    BY <1>a, <2>1 DEF ProcRecord
  <2> HIDE DEF d
  <2>4. r \in ProcRecord
    BY <2>1, <2>3 DEF ProcRecord
  <2>5. ProcOK(r)
    <3>1. /\ r.pc = proc[p].pc /\ r.user = proc[p].user /\ r.sid = proc[p].sid
          /\ r.plan = proc[p].plan /\ r.pay = proc[p].pay /\ r.pre = proc[p].pre
          /\ r.ext = proc[p].ext /\ r.seen = proc[p].seen /\ r.then = proc[p].then
          /\ r.todo = proc[p].todo
      BY <2>1 DEF ProcRecord
    <3> HIDE DEF r
    <3>2. KnowsRows(r) /\ KnowsPayment(r)
      BY <2>1, <3>1 DEF ProcOK, KnowsRows, KnowsPayment, HoldsPayment, MeansWell
    <3>3. KnowsPreapproval(r) /\ KnowsConfirmed(r)
      BY <2>1, <3>1 DEF ProcOK, KnowsPreapproval, HoldsPreapproval, KnowsConfirmed
    <3> QED BY <3>2, <3>3 DEF ProcOK
  <2> HIDE DEF r
  <2> QED BY <1>4, <2>2, <2>4, <2>5, ProcGrows DEF IInv
<1>10. proc' \in [Procs -> ProcRecord]
  BY <1>9 DEF Tick
<1>11. ProcsOK'
  BY <1>9 DEF ProcsOK
<1> QED BY <1>4, <1>6, <1>8, <1>10, <1>11 DEF Keeps, IInv, TypeOK, TablesType

(***************************************************************************)
(* The invariant and what follows from it.                                 *)
(***************************************************************************)

(* Every step keeps the invariant.                                         *)
LEMMA NextKeeps == IInv /\ [Next]_vars => Keeps
<1> SUFFICES ASSUME IInv, [Next]_vars PROVE Keeps
  OBVIOUS
<1>1. ASSUME NEW p \in Procs, Start(p) \/ Step(p)
      PROVE  Keeps
  BY <1>1, RequestStarts, WebhookStarts, JobStarts, RequestSteps, WebhookSteps,
     JobSteps DEF Start, Step
<1>2. ASSUME NEW p \in Procs, Fail(p) \/ SkipOnError(p)
      PROVE  Keeps
  BY <1>2, Failures
<1>3. CASE GatewayStep
  BY <1>3, GatewaySteps
<1>4. CASE Tick
  BY <1>4, TickStep
<1>5. CASE UNCHANGED vars
  BY <1>5, Reads, Still DEF vars
<1> QED BY <1>1, <1>2, <1>3, <1>4, <1>5 DEF Next

(* Whatever interleaves with whatever, the tables and the handlers in      *)
(* flight stay in order.                                                   *)
THEOREM Invariance == Spec => []IInv
<1>1. Init => IInv
  BY InitInv
<1>2. IInv /\ [Next]_vars => IInv'
  BY NextKeeps DEF Keeps
<1> QED BY <1>1, <1>2, PTL DEF Spec

(* The types, the confirmations, the ledger and the links                  *)
(* that the runs check on instances hold for every instance.               *)
THEOREM TypeCorrect == Spec => []TypeOK
<1>1. IInv => TypeOK
  BY DEF IInv
<1> QED BY <1>1, Invariance, PTL

(* No interleaving of handlers puts a subscription in force that           *)
(* MercadoPago has not confirmed.                                          *)
THEOREM ConfirmedBeforeInForce == Spec => []InForceIsConfirmed
<1>1. IInv => InForceIsConfirmed
  BY DEF IInv, TablesOK
<1> QED BY <1>1, Invariance, PTL

(* The ledger credits each payment to the subscription it was made for and *)
(* never calls approved one that was not.                                  *)
THEOREM LedgerCorrect == Spec => []LedgerIsTrue
<1>1. IInv => LedgerIsTrue
  BY DEF IInv, TablesOK
<1> QED BY <1>1, Invariance, PTL

(* A preapproval is only ever linked to the subscription it was made for.  *)
THEOREM LinksCorrect == Spec => []LinkedPreapprovalIsOwn
<1>1. IInv => LinkedPreapprovalIsOwn
  BY DEF IInv, TablesOK, ExtOK, LinkedPreapprovalIsOwn
<1> QED BY <1>1, Invariance, PTL

(***************************************************************************)
(* The billing code implements Access.                                     *)
(***************************************************************************)
Open           == {u \in Users : profile[u].isActive}
ConfirmedUsers == {u \in Users : ConfirmedUser(u)}

(* No profile goes up or down; nothing is confirmed; t may be.             *)
Quiet == \A u \in Users : profile'[u].isActive = profile[u].isActive

NoNews ==
    /\ \A q \in Payments : payment'[q] = payment[q]
    /\ \A m \in Preapprovals : preapproval'[m].confirmed = preapproval[m].confirmed
                               /\ preapproval'[m].sub = preapproval[m].sub

News(t) ==
    /\ \A q \in Payments : payment'[q].sub # t => payment'[q] = payment[q]
    /\ \A m \in Preapprovals : preapproval'[m].sub # t =>
           preapproval'[m].confirmed = preapproval[m].confirmed
           /\ preapproval'[m].sub = preapproval[m].sub

(* The four things a step may mean for Access.                             *)
Means ==
    \/ Quiet /\ NoNews
    \/ Quiet /\ UNCHANGED sub /\ \E t \in Subs : News(t)
    \/ NoNews /\ \A u \in Users : profile'[u].isActive => profile[u].isActive
    \/ NoNews /\ \E u \in Users :
           /\ ConfirmedUser(u) /\ profile'[u].isActive
           /\ \A v \in Users : v # u => profile'[v].isActive = profile[v].isActive

(* With nothing confirmed, the same users are.                             *)
LEMMA NoNewsSame ==
    ASSUME IInv, Grows, NoNews
    PROVE  ConfirmedUsers' = ConfirmedUsers
<1>1. \A s \in Subs : Confirmed(s)' => Confirmed(s)
  BY DEF NoNews, Confirmed, Paid
<1>2. ASSUME NEW u \in Users, ConfirmedUser(u)' PROVE ConfirmedUser(u)
  <2>1. PICK s \in Subs : sub'[s].user = u /\ Confirmed(s)
    BY <1>1, <1>2 DEF ConfirmedUser
  <2>2. Used(s)
    BY <2>1, ConfirmedUsed DEF IInv, TablesOK
  <2> QED BY <2>1, <2>2 DEF ConfirmedUser, Grows
<1>3. \A u \in Users : ConfirmedUser(u) => ConfirmedUser(u)'
  BY ConfirmedUserGrows DEF IInv
<1> QED BY <1>2, <1>3 DEF ConfirmedUsers

(* With one subscription confirmed, at most its user is added.             *)
LEMMA NewsAddsOne ==
    ASSUME IInv, Grows, UNCHANGED sub, NEW t \in Subs, News(t)
    PROVE  \/ ConfirmedUsers' = ConfirmedUsers
           \/ \E u \in Users : ConfirmedUsers' = ConfirmedUsers \cup {u}
<1>1. \A s \in Subs : Confirmed(s)' /\ s # t => Confirmed(s)
  BY DEF News, Confirmed, Paid
<1>2. \A u \in Users : ConfirmedUser(u)' => ConfirmedUser(u) \/ u = sub[t].user
  BY <1>1 DEF ConfirmedUser
<1>3. \A u \in Users : ConfirmedUser(u) => ConfirmedUser(u)'
  BY ConfirmedUserGrows DEF IInv
<1>4. CASE sub[t].user \in Users /\ ConfirmedUser(sub[t].user)'
  BY <1>2, <1>3, <1>4 DEF ConfirmedUsers
<1>5. CASE ~(sub[t].user \in Users /\ ConfirmedUser(sub[t].user)')
  BY <1>2, <1>3, <1>5 DEF ConfirmedUsers
<1> QED BY <1>4, <1>5

(* A step whose meaning for access is known is a step of Access, or leaves*)
(* it alone.                                                              *)
LEMMA MeansStep ==
    ASSUME IInv, Grows, Means
    PROVE  [Promise!Next]_<<Open, ConfirmedUsers>>
<1>1. CASE Quiet /\ NoNews
  <2>1. Open' = Open
    BY <1>1 DEF Quiet, Open
  <2> QED BY <1>1, <2>1, NoNewsSame
<1>2. CASE Quiet /\ UNCHANGED sub /\ \E t \in Subs : News(t)
  <2>1. Open' = Open
    BY <1>2 DEF Quiet, Open
  <2>2. \/ ConfirmedUsers' = ConfirmedUsers
        \/ \E u \in Users : ConfirmedUsers' = ConfirmedUsers \cup {u}
    BY <1>2, NewsAddsOne
  <2>3. ASSUME NEW u \in Users, ConfirmedUsers' = ConfirmedUsers \cup {u}
        PROVE  Promise!Confirm(u)
    BY <2>1, <2>3 DEF Promise!Confirm, Open, ConfirmedUsers
  <2> QED BY <2>1, <2>2, <2>3 DEF Promise!Next
<1>3. CASE NoNews /\ \A u \in Users : profile'[u].isActive => profile[u].isActive
  <2>1. PICK us \in SUBSET Users : us = Open \ Open'
    BY DEF Open
  <2>2. Open' = Open \ us
    BY <1>3, <2>1 DEF Open
  <2>3. Promise!Revoke(us)
    BY <1>3, <2>2, NoNewsSame DEF Promise!Revoke, Open, ConfirmedUsers
  <2> QED BY <2>3 DEF Promise!Next
<1>4. ASSUME NoNews, NEW u \in Users, ConfirmedUser(u), profile'[u].isActive,
             \A v \in Users : v # u => profile'[v].isActive = profile[v].isActive
      PROVE  [Promise!Next]_<<Open, ConfirmedUsers>>
  <2>1. u \in ConfirmedUsers /\ Open' = Open \cup {u}
    BY <1>4 DEF Open, ConfirmedUsers
  <2>2. Promise!Grant(u)
    BY <1>4, <2>1, NoNewsSame DEF Promise!Grant, Open, ConfirmedUsers
  <2> QED BY <2>2 DEF Promise!Next
<1> QED BY <1>1, <1>2, <1>3, <1>4 DEF Means

(* A step that leaves payments, preapprovals and profiles alone.           *)
LEMMA MeansNothing ==
    ASSUME UNCHANGED <<profile, payment, preapproval>>
    PROVE  Means
  BY DEF Means, Quiet, NoNews

(* A step that takes one profile down.                                     *)
LEMMA MeansRevoke ==
    ASSUME IInv, NEW u, DeactivateProfileOf(u), UNCHANGED <<payment, preapproval>>
    PROVE  Means
<1>1. \A v \in Users : profile'[v].isActive => profile[v].isActive
  BY DEF DeactivateProfileOf, IInv, TypeOK, ProfileRecord
<1> QED BY <1>1 DEF Means, NoNews

(* A step that brings up the profile of a user who is confirmed.           *)
LEMMA MeansGrant ==
    ASSUME IInv, NEW u \in Users, ConfirmedUser(u), UNCHANGED <<payment, preapproval>>,
           profile' \in [Users -> ProfileRecord], profile'[u].isActive,
           \A v \in Users : v # u => profile'[v] = profile[v]
    PROVE  Means
  BY DEF Means, NoNews

(* A new payment or preapproval of a subscription.                         *)
LEMMA MeansPayment ==
    ASSUME IInv, NEW q \in Payments, NEW s \in Subs, NEW x, NEW m,
           payment' = [payment EXCEPT ![q] = [state |-> x, sub |-> s, pre |-> m]],
           UNCHANGED <<sub, profile>>,
           \A o \in Preapprovals : preapproval'[o].confirmed = preapproval[o].confirmed
                                   /\ preapproval'[o].sub = preapproval[o].sub
    PROVE  Means
<1>1. \A o \in Payments : payment'[o].sub # s => payment'[o] = payment[o]
  BY DEF IInv, TypeOK
<1> QED BY <1>1 DEF Means, Quiet, News

(* A new preapproval is at most the news that one user is confirmed.      *)
LEMMA MeansPreapproval ==
    ASSUME IInv, NEW m \in Preapprovals, NEW s \in Subs, NEW plan, NEW x, NEW ref,
           NewPreapproval(m, s, plan, x, ref), UNCHANGED <<sub, profile, payment>>
    PROVE  Means
<1>1. \A o \in Preapprovals : preapproval'[o].sub # s => preapproval'[o] = preapproval[o]
  BY DEF NewPreapproval, IInv, TypeOK
<1> QED BY <1>1 DEF Means, Quiet, News

(* What a request does to access: at most one grant, confirmation or      *)
(* revocation.                                                            *)
LEMMA RequestMeans ==
    ASSUME IInv, NEW p \in Procs, RequestStart(p) \/ RequestStep(p)
    PROVE  Means
<1>a. proc[p] \in ProcRecord /\ ProcOK(proc[p])
  BY ProcFacts
<1>1. CASE \/ RequestStart(p)
           \/ CreateCheckPending(p) \/ CreateInsert(p) \/ CreateFailed(p)
           \/ CreateSave(p) \/ BricksFindPending(p) \/ BricksReuse(p)
           \/ BricksInsert(p) \/ BricksSaveExt(p) \/ BricksReject(p)
           \/ SubscribeSave(p) \/ CancelSave(p)
  <2>1. UNCHANGED <<profile, payment, preapproval>>
    BY <1>1 DEF RequestStart, CreateCheckLive, BricksCheckLive, CancelFind,
           CreateCheckPending, CreateInsert, CreateFailed,
           CreateSave, BricksFindPending, BricksReuse,
           BricksInsert, BricksSaveExt, BricksReject, SubscribeSave, CancelSave
  <2> QED BY <2>1, MeansNothing
<1>2. CASE CreateGateway(p)
  <2>0. proc[p].pc = "createGateway" /\ UNCHANGED <<sub, profile, row, payment>>
    BY <1>2 DEF CreateGateway, At
  <2>1. proc[p].sid \in Subs
    BY <1>a, <2>0 DEF ProcRecord, ProcOK, KnowsRows, NeedsSub
  <2>2. CASE UNCHANGED preapproval
    BY <2>0, <2>2, MeansNothing
  <2>3. ASSUME NEW m \in FreePreapprovals,
               NewPreapproval(m, proc[p].sid, proc[p].plan, "pending", FALSE)
        PROVE  Means
    <3>1. m \in Preapprovals
      BY DEF FreePreapprovals
    <3> QED BY <2>0, <2>1, <2>3, <3>1, MeansPreapproval
  <2> QED BY <1>2, <2>2, <2>3 DEF CreateGateway
<1>3. CASE SubscribeGateway(p)
  <2>0. proc[p].pc = "subscribeGateway" /\ UNCHANGED <<sub, profile, row, payment>>
    BY <1>3 DEF SubscribeGateway, At
  <2>1. proc[p].sid \in Subs
    BY <1>a, <2>0 DEF ProcRecord, ProcOK, KnowsRows, NeedsSub
  <2>2. CASE UNCHANGED preapproval
    BY <2>0, <2>2, MeansNothing
  <2>3. ASSUME NEW m \in FreePreapprovals, NEW x \in {"authorized", "pending"},
               NewPreapproval(m, proc[p].sid, proc[p].plan, x, TRUE)
        PROVE  Means
    <3>1. m \in Preapprovals
      BY DEF FreePreapprovals
    <3> QED BY <2>0, <2>1, <2>3, <3>1, MeansPreapproval
  <2> QED BY <1>3, <2>2, <2>3 DEF SubscribeGateway
<1>4. CASE BricksCharge(p)
  <2>0. proc[p].pc = "bricksCharge" /\ UNCHANGED <<sub, profile, preapproval>>
    BY <1>4 DEF BricksCharge, At
  <2>1. proc[p].sid \in Subs
    BY <1>a, <2>0 DEF ProcRecord, ProcOK, KnowsRows, NeedsSub
  <2>2. CASE UNCHANGED payment
    BY <2>0, <2>2, MeansNothing
  <2>3. ASSUME NEW q \in FreePayments, NEW x,
               payment' = [payment EXCEPT ![q] =
                              [state |-> x, sub |-> proc[p].sid, pre |-> None]]
        PROVE  Means
    <3>1. q \in Payments
      BY DEF FreePayments
    <3> QED BY <2>0, <2>1, <2>3, <3>1, MeansPayment
  <2> QED BY <1>4, <2>2, <2>3 DEF BricksCharge
<1>5. CASE CancelGateway(p)
  <2>0. UNCHANGED <<sub, profile, payment>>
    BY <1>5 DEF CancelGateway
  <2>1. \A o \in Preapprovals : preapproval'[o].confirmed = preapproval[o].confirmed
                                /\ preapproval'[o].sub = preapproval[o].sub
    BY <1>5 DEF CancelGateway, Cancellable, IInv, TypeOK, PreapprovalRecord
  <2> QED BY <2>0, <2>1 DEF Means, Quiet, NoNews
<1>6. CASE CreateProfile(p)
  <2>1. Quiet
    BY <1>6 DEF CreateProfile, Quiet, IInv, TypeOK, ProfileRecord
  <2> QED BY <1>6, <2>1 DEF CreateProfile, Means, NoNews
<1>7. CASE SubscribeProfile(p)
  <2>1. proc[p].pc = "subscribeProfile" /\ ActivateProfileOf(proc[p].user)
        /\ UNCHANGED <<payment, preapproval>>
    BY <1>7 DEF SubscribeProfile, At
  <2>2. ConfirmedUser(proc[p].user)
    BY <1>a, <2>1 DEF ProcOK, KnowsConfirmed
  <2>3. proc[p].user \in Users
    BY <2>2, ConfirmedUsed DEF ConfirmedUser, IInv, TablesOK, SubsOK, Used
  <2>4. /\ profile' \in [Users -> ProfileRecord] /\ profile'[proc[p].user].isActive
        /\ \A v \in Users : v # proc[p].user => profile'[v] = profile[v]
    BY <2>1, <2>3, ProfileTypes DEF ActivateProfileOf, IInv, TypeOK
  <2> QED BY <2>1, <2>2, <2>3, <2>4, MeansGrant
<1> QED BY <1>1, <1>2, <1>3, <1>4, <1>5, <1>6, <1>7 DEF RequestStep

(* What a webhook does to access.                                         *)
LEMMA WebhookMeans ==
    ASSUME IInv, NEW p \in Procs, WebhookStart(p) \/ WebhookStep(p)
    PROVE  Means
<1>a. proc[p] \in ProcRecord /\ ProcOK(proc[p])
  BY ProcFacts
<1>1. CASE \/ WebhookStart(p) \/ FindRow(p) \/ FindByExt(p) \/ CreateRow(p)
           \/ Activate(p) \/ FindPreapproval(p) \/ LinkExt(p) \/ WriteStatus(p)
  <2>1. UNCHANGED <<profile, payment, preapproval>>
    BY <1>1 DEF WebhookStart, PaymentNotice, ChargeNotice, PreapprovalNotice,
           FindRow, FindByExt, CreateRow, Activate, FindPreapproval, LinkExt,
           WriteStatus
  <2> QED BY <2>1, MeansNothing
<1>2. CASE ActivateProfile(p)
  <2>1. proc[p].pc = "activateProfile" /\ ActivateProfileOf(proc[p].user)
        /\ UNCHANGED <<payment, preapproval>>
    BY <1>2 DEF ActivateProfile, At
  <2>2. ConfirmedUser(proc[p].user)
    BY <1>a, <2>1 DEF ProcOK, KnowsConfirmed
  <2>3. proc[p].user \in Users
    BY <2>2, ConfirmedUsed DEF ConfirmedUser, IInv, TablesOK, SubsOK, Used
  <2>4. /\ profile' \in [Users -> ProfileRecord] /\ profile'[proc[p].user].isActive
        /\ \A v \in Users : v # proc[p].user => profile'[v] = profile[v]
    BY <2>1, <2>3, ProfileTypes DEF ActivateProfileOf, IInv, TypeOK
  <2> QED BY <2>1, <2>2, <2>3, <2>4, MeansGrant
<1>3. CASE TrialEnd(p)
  <2>1. Quiet
    BY <1>3 DEF TrialEnd, Quiet, IInv, TypeOK, ProfileRecord
  <2> QED BY <1>3, <2>1 DEF TrialEnd, Means, NoNews
<1>4. CASE SuspendProfile(p)
  BY <1>4, MeansRevoke DEF SuspendProfile
<1> QED BY <1>1, <1>2, <1>3, <1>4 DEF WebhookStep

(* What a job does to access: it never opens a profile except for a       *)
(* confirmed user.                                                        *)
LEMMA JobMeans ==
    ASSUME IInv, NEW j \in Procs, JobStart(j) \/ JobStep(j)
    PROVE  Means
<1>a. proc[j] \in ProcRecord /\ ProcOK(proc[j])
  BY ProcFacts
<1>1. CASE \/ RenewalsStart(j) \/ StaleStart(j) \/ LapsedStart(j) \/ PreapprovalStart(j)
           \/ RenewalsNextStrategy(j) \/ RenewalsPick(j) \/ RenewalsSave(j)
           \/ StaleCancel(j) \/ LapsedPick(j) \/ LapsedDone(j)
           \/ PreapprovalPick(j) \/ PreapprovalDone(j) \/ PreapprovalSave(j)
  <2>1. UNCHANGED <<profile, payment, preapproval>>
    BY <1>1 DEF RenewalsStart, StaleStart, LapsedStart, PreapprovalStart,
           RenewalsNextStrategy, RenewalsPick, RenewalsSave,
           StaleCancel, LapsedPick, LapsedDone,
           PreapprovalPick, PreapprovalDone, PreapprovalSave
  <2> QED BY <2>1, MeansNothing
<1>2. CASE ExpireTrials(j)
  <2>1. \A u \in Users : profile'[u].isActive => profile[u].isActive
    BY <1>2 DEF ExpireTrials
  <2> QED BY <1>2, <2>1 DEF ExpireTrials, Means, NoNews
<1>3. CASE RenewalsProfile(j)
  BY <1>3, MeansRevoke DEF RenewalsProfile
<1>4. CASE LapsedProfile(j)
  <2>1. CASE DeactivateProfileOf(proc[j].user)
    BY <1>4, <2>1, MeansRevoke DEF LapsedProfile
  <2>2. CASE UNCHANGED profile
    BY <1>4, <2>2, MeansNothing DEF LapsedProfile
  <2> QED BY <1>4, <2>1, <2>2 DEF LapsedProfile
<1>5. CASE PreapprovalProfile(j)
  <2>1. proc[j].pc = "preapprovalProfile" /\ UNCHANGED <<payment, preapproval>>
    BY <1>5 DEF PreapprovalProfile, At
  <2>2. CASE proc[j].seen # "authorized"
    BY <1>5, <2>1, <2>2, MeansRevoke DEF PreapprovalProfile
  <2>3. CASE proc[j].seen = "authorized"
    <3> DEFINE u == proc[j].user
    <3>1. ConfirmedUser(u)
      BY <1>a, <2>1, <2>3 DEF ProcOK, KnowsConfirmed
    <3>2. u \in Users
      BY <3>1, ConfirmedUsed DEF ConfirmedUser, IInv, TablesOK, SubsOK, Used
    <3>3. /\ profile' \in [Users -> ProfileRecord] /\ profile'[u].isActive
          /\ \A v \in Users : v # u => profile'[v] = profile[v]
      BY <1>5, <2>3, <3>2
         DEF PreapprovalProfile, IInv, TypeOK, ProfileRecord, ProfileStates
    <3> HIDE DEF u
    <3> QED BY <2>1, <3>1, <3>2, <3>3, MeansGrant
  <2> QED BY <2>2, <2>3
<1> QED BY <1>1, <1>2, <1>3, <1>4, <1>5 DEF JobStart, JobStep

(* What MercadoPago does on its own: it confirms one user or none.        *)
LEMMA GatewayMeans ==
    ASSUME IInv, GatewayStep
    PROVE  Means
<1>1. ASSUME NEW s \in Subs, PayLink(s)
      PROVE  Means
  <2>1. PICK q \in FreePayments, x \in {"approved", "pending", "rejected"} :
            payment' = [payment EXCEPT ![q] = [state |-> x, sub |-> s, pre |-> None]]
    BY <1>1 DEF PayLink
  <2>2. q \in Payments
    BY DEF FreePayments
  <2>3. UNCHANGED <<sub, profile, preapproval>>
    BY <1>1 DEF PayLink
  <2> QED BY <2>1, <2>2, <2>3, MeansPayment
<1>2. ASSUME NEW q \in Payments, SettlePayment(q)
      PROVE  Means
  <2>1. /\ payment[q].state = "pending" /\ UNCHANGED <<sub, profile, preapproval>>
        /\ \A o \in Payments : payment'[o].sub = payment[o].sub
                               /\ (o # q => payment'[o] = payment[o])
    BY <1>2 DEF SettlePayment, IInv, TypeOK, PaymentRecord
  <2>2. payment[q].sub \in Subs
    BY <2>1 DEF IInv, TablesOK, PaymentsOK, Used
  <2>3. News(payment[q].sub)
    BY <2>1 DEF News
  <2> QED BY <2>1, <2>2, <2>3 DEF Means, Quiet
<1>3. ASSUME NEW m \in Preapprovals, MovePreapproval(m)
      PROVE  Means
  <2>1. /\ UNCHANGED <<sub, profile, payment>>
        /\ \A o \in Preapprovals : preapproval'[o].sub = preapproval[o].sub
                                   /\ (o # m => preapproval'[o] = preapproval[o])
    BY <1>3 DEF MovePreapproval, IInv, TypeOK, PreapprovalRecord
  <2>2. preapproval[m].state # "none"
    BY <1>3 DEF MovePreapproval, PreapprovalMoves
  <2>3. preapproval[m].sub \in Subs
    BY <2>2 DEF IInv, TablesOK, PreapprovalsOK, Used
  <2>4. News(preapproval[m].sub)
    BY <2>1 DEF News
  <2> QED BY <2>1, <2>3, <2>4 DEF Means, Quiet
<1>4. ASSUME NEW m \in Preapprovals, ChargePreapproval(m)
      PROVE  Means
  <2>1. PICK q \in FreePayments, x \in {"approved", "pending", "rejected"} :
            payment' = [payment EXCEPT ![q] =
                           [state |-> x, sub |-> preapproval[m].sub, pre |-> m]]
    BY <1>4 DEF ChargePreapproval
  <2>2. /\ q \in Payments /\ UNCHANGED <<sub, profile>>
        /\ preapproval[m].state = "authorized"
    BY <1>4 DEF FreePayments, ChargePreapproval
  <2>3. preapproval[m].sub \in Subs
    BY <2>2 DEF IInv, TablesOK, PreapprovalsOK, Used
  <2>4. \A o \in Preapprovals : preapproval'[o].confirmed = preapproval[o].confirmed
                                /\ preapproval'[o].sub = preapproval[o].sub
    BY <1>4 DEF ChargePreapproval, IInv, TypeOK, PreapprovalRecord
  <2> QED BY <2>1, <2>2, <2>3, <2>4, MeansPayment
<1> QED BY <1>1, <1>2, <1>3, <1>4 DEF GatewayStep

(* Every step of the billing code is a step of Access or changes nothing   *)
(* that Access speaks of.                                                  *)
LEMMA NextMeans == IInv /\ [Next]_vars => [Promise!Next]_<<Open, ConfirmedUsers>>
<1> SUFFICES ASSUME IInv, [Next]_vars PROVE Means
  BY NextKeeps, MeansStep DEF Keeps
<1>1. ASSUME NEW p \in Procs, Start(p) \/ Step(p)
      PROVE  Means
  BY <1>1, RequestMeans, WebhookMeans, JobMeans DEF Start, Step
<1>2. ASSUME NEW p \in Procs, Fail(p) \/ SkipOnError(p)
      PROVE  Means
  BY <1>2, MeansNothing DEF Fail, SkipOnError
<1>3. CASE GatewayStep
  BY <1>3, GatewayMeans
<1>4. CASE Tick
  <2>1. Quiet
    BY <1>4 DEF Tick, Quiet, IInv, TypeOK, ProfileRecord
  <2>2. NoNews
    BY <1>4 DEF Tick, NoNews, IInv, TypeOK, PreapprovalRecord
  <2> QED BY <2>1, <2>2 DEF Means
<1>5. CASE UNCHANGED vars
  BY <1>5, MeansNothing DEF vars
<1> QED BY <1>1, <1>2, <1>3, <1>4, <1>5 DEF Next

(* Whatever runs at once, a profile that is down comes up only for a user  *)
(* MercadoPago has confirmed.                                              *)
THEOREM ImplementsAccess == Spec => KeepsPromise
<1>1. Init => Promise!Init
  BY DEF Init, Promise!Init, NewProfiles, ConfirmedUser, Confirmed, Paid,
         NoPayment, NoPreapproval
<1>2. IInv /\ [Next]_vars
      => [Promise!Next]_<<{u \in Users : profile[u].isActive},
                          {u \in Users : ConfirmedUser(u)}>>
  BY NextMeans DEF Open, ConfirmedUsers
<1> QED BY <1>1, <1>2, Invariance, PTL DEF Spec, KeepsPromise, Promise!Spec

(* No step rewrites or removes a payment recorded in the ledger.           *)
THEOREM LedgerStays == Spec => LedgerIsAppendOnly
<1> DEFINE A == \A q \in Payments : row[q].status # "none" => row'[q] = row[q]
<1>1. TypeOK /\ [Next]_vars => A
  <2> SUFFICES ASSUME TypeOK, [Next]_vars PROVE A
    OBVIOUS
  <2>1. ASSUME NEW p \in Procs, RequestStart(p) \/ RequestStep(p)
        PROVE  UNCHANGED row
    BY <2>1 DEF RequestStart, CreateCheckLive, BricksCheckLive, CancelFind,
           RequestStep, CreateCheckPending, CreateInsert, CreateGateway,
           CreateFailed, CreateSave, CreateProfile, BricksFindPending,
           BricksReuse, BricksInsert, BricksCharge, BricksSaveExt,
           BricksReject, SubscribeGateway, SubscribeSave, SubscribeProfile,
           CancelGateway, CancelSave
  <2>2. ASSUME NEW p \in Procs, CreateRow(p)
        PROVE  A
    BY <2>2 DEF CreateRow, TypeOK
  <2>3. ASSUME NEW p \in Procs, (WebhookStart(p) \/ WebhookStep(p)) /\ ~CreateRow(p)
        PROVE  UNCHANGED row
    BY <2>3 DEF WebhookStart, PaymentNotice, ChargeNotice, PreapprovalNotice,
           WebhookStep, FindRow, FindByExt, Activate, ActivateProfile,
           FindPreapproval, LinkExt, WriteStatus, TrialEnd, SuspendProfile
  <2>4. ASSUME NEW j \in Procs, JobStart(j) \/ JobStep(j)
        PROVE  UNCHANGED row
    BY <2>4 DEF JobStart, RenewalsStart, StaleStart, ExpireTrials, LapsedStart,
           PreapprovalStart, JobStep, RenewalsNextStrategy, RenewalsPick,
           RenewalsSave, RenewalsProfile, StaleCancel, LapsedPick, LapsedDone,
           LapsedProfile, PreapprovalPick, PreapprovalDone, PreapprovalSave,
           PreapprovalProfile
  <2>5. ASSUME NEW p \in Procs, Fail(p) \/ SkipOnError(p)
        PROVE  UNCHANGED row
    BY <2>5 DEF Fail, SkipOnError
  <2>6. CASE GatewayStep
    BY <2>6 DEF GatewayStep, PayLink, SettlePayment, MovePreapproval, ChargePreapproval
  <2>7. CASE Tick
    BY <2>7 DEF Tick
  <2>8. CASE UNCHANGED vars
    BY <2>8 DEF vars
  <2> QED BY <2>1, <2>2, <2>3, <2>4, <2>5, <2>6, <2>7, <2>8 DEF Next, Start, Step
<1>2. TypeOK /\ [Next]_vars => [A]_vars
  BY <1>1
<1> QED BY <1>2, TypeCorrect, PTL DEF Spec, LedgerIsAppendOnly

(***************************************************************************)
(* Credit does not add up.                                                 *)
(***************************************************************************)

(* A date some plan explains: no further ahead than a payment for it, or   *)
(* its free trial, reaches.                                                *)
Within(d) == d = None \/ \E plan \in Plans : d <= PaidUntil(plan) \/ d <= TrialDays[plan]

(* An end may be on its way: in the handler of a cancellation, and before  *)
(* that as the next date of a preapproval at MercadoPago.                  *)
CreditInv ==
    /\ \A s \in Subs : Within(sub[s].end)
    /\ \A m \in Preapprovals : preapproval[m].state # "none" => Within(preapproval[m].next)
    /\ \A p \in Procs : Within(proc[p].end)

(* What each step but the day going by owes: a date stays or is explained. *)
SubEnds  == \A s \in Subs : sub'[s].end = sub[s].end \/ Within(sub'[s].end)
ProcEnds == \A p \in Procs : proc'[p].end = proc[p].end \/ Within(proc'[p].end)
NextEnds ==
    \A m \in Preapprovals : preapproval'[m].state # "none" =>
        \/ preapproval'[m].next = preapproval[m].next /\ preapproval[m].state # "none"
        \/ Within(preapproval'[m].next)

DatesOK == SubEnds /\ ProcEnds /\ NextEnds

LEMMA DatesKeep == ASSUME CreditInv, DatesOK PROVE CreditInv'
<1>1. \A s \in Subs : Within(sub[s].end)'
  BY DEF CreditInv, DatesOK, SubEnds, Within, PaidUntil
<1>2. \A m \in Preapprovals : (preapproval[m].state # "none" => Within(preapproval[m].next))'
  BY DEF CreditInv, DatesOK, NextEnds, Within, PaidUntil
<1>3. \A p \in Procs : Within(proc[p].end)'
  BY DEF CreditInv, DatesOK, ProcEnds, Within, PaidUntil
<1> QED BY <1>1, <1>2, <1>3 DEF CreditInv

LEMMA PlanDates ==
    ASSUME NEW plan \in Plans
    PROVE  Within(0) /\ Within(TrialDays[plan]) /\ Within(Period[plan]) /\ Within(PaidUntil(plan)) /\ Within(None)
<1>1. Period[plan] \in Nat /\ TrialDays[plan] \in Nat /\ Grace \in Nat
  BY PlansAssumption
<1> QED BY <1>1 DEF Within, PaidUntil

(* Now is always explained: where there is a subscription, there is a plan.*)
LEMMA NowIsWithin ==
    ASSUME IInv, NEW s \in Subs, Used(s)
    PROVE  Within(0)
  BY PlanDates DEF IInv, TablesOK, SubsOK, Used

LEMMA SubKeeps ==
    ASSUME IInv, NEW s \in Subs, NEW w, WriteSub(s, w),
           [w EXCEPT !.age = 0].end = sub[s].end \/ Within([w EXCEPT !.age = 0].end)
    PROVE  SubEnds
<1>1. sub'[s] = [w EXCEPT !.age = 0] /\ \A o \in Subs \ {s} : sub'[o] = sub[o]
  BY DEF WriteSub, IInv, TypeOK
<1> QED BY <1>1 DEF SubEnds

LEMMA ProcKeeps ==
    ASSUME IInv, NEW p \in Procs, NEW r, Become(p, r), r.end = proc[p].end \/ Within(r.end)
    PROVE  ProcEnds
<1>1. proc'[p] = r /\ \A o \in Procs \ {p} : proc'[o] = proc[o]
  BY DEF Become, IInv, TypeOK
<1> QED BY <1>1 DEF ProcEnds

(* A handler that only reads, or ends, and leaves the dates alone.         *)
Reading == UNCHANGED <<sub, preapproval>> /\ \A o \in Procs : proc'[o].end \in {proc[o].end, None}

LEMMA ReadingKeeps == Reading => DatesOK
  BY DEF Reading, DatesOK, SubEnds, ProcEnds, NextEnds, Within

LEMMA BecomesReading ==
    ASSUME IInv, NEW p \in Procs, NEW r, Become(p, r), r.end \in {proc[p].end, None},
           UNCHANGED <<sub, preapproval>>
    PROVE  Reading
<1>1. proc'[p] = r /\ \A o \in Procs \ {p} : proc'[o] = proc[o]
  BY DEF Become, IInv, TypeOK
<1> QED BY <1>1 DEF Reading

LEMMA GoesReading ==
    ASSUME IInv, NEW p \in Procs, UNCHANGED <<sub, preapproval>>, Finish(p) \/ \E l : Goto(p, l)
    PROVE  Reading
<1>1. CASE Finish(p)
  BY <1>1, BecomesReading DEF Finish, Idle
<1>2. ASSUME NEW l, Goto(p, l) PROVE Reading
  <2>1. [proc[p] EXCEPT !.pc = l].end = proc[p].end
    BY ProcFacts DEF ProcRecord
  <2> QED BY <1>2, <2>1, BecomesReading DEF Goto
<1> QED BY <1>1, <1>2

LEMMA RequestReads ==
    ASSUME IInv, NEW p \in Procs,
           \/ \E u \in Users : \E plan \in Plans, kind \in Kinds : CreateCheckLive(p, u, plan, kind)
           \/ \E u \in Users : \E plan \in Plans, entry \in {"payWithBricks", "subscribeWithBricks"} :
                  BricksCheckLive(p, u, plan, entry)
           \/ CreateCheckPending(p) \/ CreateProfile(p) \/ BricksFindPending(p)
           \/ BricksCharge(p) \/ SubscribeProfile(p)
    PROVE  Reading
<1>1. ASSUME NEW u \in Users, NEW plan \in Plans, NEW kind \in Kinds, CreateCheckLive(p, u, plan, kind)
      PROVE  Reading
  BY <1>1, BecomesReading DEF CreateCheckLive, Idle
<1>2. ASSUME NEW u \in Users, NEW plan \in Plans, NEW entry, BricksCheckLive(p, u, plan, entry)
      PROVE  Reading
  BY <1>2, BecomesReading DEF BricksCheckLive, Idle
<1>3. CASE CreateCheckPending(p) \/ CreateProfile(p) \/ SubscribeProfile(p)
  BY <1>3, GoesReading DEF CreateCheckPending, CreateProfile, SubscribeProfile
<1>4. CASE BricksFindPending(p)
  <2>1. ASSUME NEW s, Become(p, [proc[p] EXCEPT !.pc = "bricksUpsert", !.sid = s]) PROVE Reading
    <3>1. [proc[p] EXCEPT !.pc = "bricksUpsert", !.sid = s].end = proc[p].end
      BY ProcFacts DEF ProcRecord
    <3> QED BY <1>4, <2>1, <3>1, BecomesReading DEF BricksFindPending
  <2> QED BY <1>4, <2>1, GoesReading DEF BricksFindPending
<1>5. CASE BricksCharge(p)
  <2>1. ASSUME NEW q, NEW x, Become(p, [proc[p] EXCEPT !.pc = "bricksSaveExt", !.pay = q, !.seen = x])
        PROVE  Reading
    <3>1. [proc[p] EXCEPT !.pc = "bricksSaveExt", !.pay = q, !.seen = x].end = proc[p].end
      BY ProcFacts DEF ProcRecord
    <3> QED BY <1>5, <2>1, <3>1, BecomesReading DEF BricksCharge
  <2> QED BY <1>5, <2>1, GoesReading DEF BricksCharge
<1> QED BY <1>1, <1>2, <1>3, <1>4, <1>5

LEMMA WebhookReads ==
    ASSUME IInv, NEW p \in Procs,
           \/ WebhookStart(p) \/ FindRow(p) \/ FindByExt(p) \/ CreateRow(p) \/ ActivateProfile(p)
           \/ FindPreapproval(p) \/ TrialEnd(p) \/ SuspendProfile(p)
    PROVE  Reading
<1>1. ASSUME NEW r, \A l : [r EXCEPT !.pc = l].end = proc[p].end, AfterRow(p, r), UNCHANGED <<sub, preapproval>>
      PROVE  Reading
  BY <1>1, BecomesReading, GoesReading DEF AfterRow
<1>2. CASE WebhookStart(p)
  BY <1>2, BecomesReading DEF WebhookStart, PaymentNotice, ChargeNotice, PreapprovalNotice, Idle
<1>3. CASE FindRow(p)
  <2> DEFINE r == [proc[p] EXCEPT !.plan = sub[proc[p].sid].plan, !.user = sub[proc[p].sid].user]
  <2>1. /\ UNCHANGED <<sub, preapproval>>
        /\ IF row[proc[p].pay].status # "none" THEN AfterRow(p, [r EXCEPT !.again = TRUE])
           ELSE Become(p, [r EXCEPT !.pc = "createRow"])
    BY <1>3 DEF FindRow
  <2>2. \A l : [[r EXCEPT !.again = TRUE] EXCEPT !.pc = l].end = proc[p].end /\ [r EXCEPT !.pc = l].end = proc[p].end
    BY ProcFacts DEF ProcRecord
  <2> HIDE DEF r
  <2> QED BY <1>1, <2>1, <2>2, BecomesReading
<1>4. CASE FindByExt(p)
  <2>1. \A s, x, y : [proc[p] EXCEPT !.pc = "createRow", !.sid = s, !.plan = x, !.user = y].end = proc[p].end
    BY ProcFacts DEF ProcRecord
  <2>2. \/ Finish(p)
        \/ \E s, x, y : Become(p, [proc[p] EXCEPT !.pc = "createRow", !.sid = s, !.plan = x, !.user = y])
    BY <1>4 DEF FindByExt
  <2>3. UNCHANGED <<sub, preapproval>>
    BY <1>4 DEF FindByExt
  <2> QED BY <2>1, <2>2, <2>3, BecomesReading, GoesReading
<1>5. CASE CreateRow(p)
  <2>1. \A l : [proc[p] EXCEPT !.pc = l].end = proc[p].end
    BY ProcFacts DEF ProcRecord
  <2> QED BY <1>1, <1>5, <2>1, GoesReading DEF CreateRow
<1>6. CASE ActivateProfile(p) \/ TrialEnd(p) \/ SuspendProfile(p)
  BY <1>6, GoesReading DEF ActivateProfile, TrialEnd, SuspendProfile
<1>7. CASE FindPreapproval(p)
  <2>1. \A l, s, x, y : [proc[p] EXCEPT !.pc = l, !.sid = s, !.plan = x, !.user = y].end = proc[p].end
    BY ProcFacts DEF ProcRecord
  <2>2. \/ Finish(p)
        \/ \E l, s, x, y : Become(p, [proc[p] EXCEPT !.pc = l, !.sid = s, !.plan = x, !.user = y])
    BY <1>7 DEF FindPreapproval
  <2>3. UNCHANGED <<sub, preapproval>>
    BY <1>7 DEF FindPreapproval
  <2>4. ASSUME NEW l, NEW s, NEW x, NEW y,
               Become(p, [proc[p] EXCEPT !.pc = l, !.sid = s, !.plan = x, !.user = y])
        PROVE  Reading
    <3>1. [proc[p] EXCEPT !.pc = l, !.sid = s, !.plan = x, !.user = y].end = proc[p].end
      BY <2>1
    <3> QED BY <2>3, <2>4, <3>1, BecomesReading
  <2> QED BY <2>2, <2>3, <2>4, GoesReading
<1> QED BY <1>2, <1>3, <1>4, <1>5, <1>6, <1>7

LEMMA JobReads ==
    ASSUME IInv, NEW p \in Procs,
           \/ JobStart(p) \/ RenewalsNextStrategy(p) \/ RenewalsPick(p) \/ RenewalsProfile(p)
           \/ LapsedPick(p) \/ LapsedDone(p) \/ LapsedProfile(p)
           \/ PreapprovalPick(p) \/ PreapprovalDone(p) \/ PreapprovalProfile(p)
           \/ Fail(p) \/ SkipOnError(p)
    PROVE  Reading
<1> USE ProcFacts
<1>1. ASSUME NEW l, Back(p, l), UNCHANGED <<sub, preapproval>> PROVE Reading
  <2>1. [proc[p] EXCEPT !.pc = l, !.sid = None, !.user = None, !.plan = None, !.seen = "none"].end = proc[p].end
    BY DEF ProcRecord
  <2> QED BY <1>1, <2>1, BecomesReading DEF Back
<1>2. ASSUME NEW s, NEW l, Pick(p, s, l), UNCHANGED <<sub, preapproval>> PROVE Reading
  <2>1. [proc[p] EXCEPT !.pc = l, !.sid = s, !.user = sub[s].user, !.todo = @ \ {s}].end = proc[p].end
    BY DEF ProcRecord
  <2> QED BY <1>2, <2>1, BecomesReading DEF Pick
<1>3. ASSUME NEW s, Become(p, [proc[p] EXCEPT !.todo = @ \ {s}]), UNCHANGED <<sub, preapproval>> PROVE Reading
  <2>1. [proc[p] EXCEPT !.todo = @ \ {s}].end = proc[p].end
    BY DEF ProcRecord
  <2> QED BY <1>3, <2>1, BecomesReading
<1>4. CASE JobStart(p)
  <2>1. CASE ExpireTrials(p)
    BY <2>1 DEF ExpireTrials, Reading
  <2>2. CASE RenewalsStart(p) \/ StaleStart(p) \/ LapsedStart(p) \/ PreapprovalStart(p)
    BY <2>2, BecomesReading DEF RenewalsStart, StaleStart, LapsedStart, PreapprovalStart, Idle
  <2> QED BY <1>4, <2>1, <2>2 DEF JobStart
<1>5. CASE RenewalsNextStrategy(p)
  <2>1. \A k, x : [proc[p] EXCEPT !.kind = k, !.todo = x].end = proc[p].end
    BY DEF ProcRecord
  <2> QED BY <1>5, <2>1, BecomesReading, GoesReading DEF RenewalsNextStrategy
<1>6. CASE RenewalsPick(p) \/ LapsedPick(p)
  BY <1>2, <1>3, <1>6 DEF RenewalsPick, LapsedPick
<1>7. CASE RenewalsProfile(p) \/ LapsedProfile(p) \/ PreapprovalProfile(p)
  BY <1>1, <1>7 DEF RenewalsProfile, LapsedProfile, PreapprovalProfile
<1>8. CASE LapsedDone(p) \/ PreapprovalDone(p) \/ Fail(p)
  BY <1>8, GoesReading DEF LapsedDone, PreapprovalDone, Fail
<1>9. CASE PreapprovalPick(p)
  <2>1. ASSUME NEW s, NEW u, NEW x, NEW y,
               Become(p, [proc[p] EXCEPT !.pc = "preapprovalSave", !.sid = s, !.user = u, !.plan = x, !.seen = y,
                                         !.todo = @ \ {s}])
        PROVE  Reading
    <3>1. [proc[p] EXCEPT !.pc = "preapprovalSave", !.sid = s, !.user = u, !.plan = x, !.seen = y,
                          !.todo = @ \ {s}].end = proc[p].end
      BY DEF ProcRecord
    <3>2. UNCHANGED <<sub, preapproval>>
      BY <1>9 DEF PreapprovalPick
    <3> QED BY <2>1, <3>1, <3>2, BecomesReading
  <2>2. UNCHANGED <<sub, preapproval>>
    BY <1>9 DEF PreapprovalPick
  <2> QED BY <1>3, <1>9, <2>1, <2>2 DEF PreapprovalPick
<1>10. CASE SkipOnError(p)
  BY <1>1, <1>3, <1>10 DEF SkipOnError
<1> QED BY <1>4, <1>5, <1>6, <1>7, <1>8, <1>9, <1>10

(* A handler that writes a row: with the end it has, or with one that a    *)
(* plan explains.                                                          *)
LEMMA WritingKeeps ==
    ASSUME IInv, NEW p \in Procs, NEW s \in Subs, NEW w, WriteSub(s, w), UNCHANGED preapproval,
           [w EXCEPT !.age = 0].end = sub[s].end \/ Within([w EXCEPT !.age = 0].end),
           NEW r, Become(p, r), r.end \in {proc[p].end, None}
    PROVE  DatesOK
<1>1. SubEnds
  BY SubKeeps
<1>2. ProcEnds
  BY ProcKeeps DEF Within
<1> QED BY <1>1, <1>2 DEF DatesOK, NextEnds

LEMMA WritingGoesOn ==
    ASSUME IInv, NEW p \in Procs, NEW s \in Subs, NEW w, WriteSub(s, w), UNCHANGED preapproval,
           [w EXCEPT !.age = 0].end = sub[s].end \/ Within([w EXCEPT !.age = 0].end),
           Finish(p) \/ \E l : Goto(p, l)
    PROVE  DatesOK
<1>1. CASE Finish(p)
  <2>1. Idle.end = None
    BY DEF Idle
  <2> QED BY <1>1, <2>1, WritingKeeps DEF Finish
<1>2. ASSUME NEW l, Goto(p, l) PROVE DatesOK
  <2>1. [proc[p] EXCEPT !.pc = l].end = proc[p].end
    BY ProcFacts DEF ProcRecord
  <2> QED BY <1>2, <2>1, WritingKeeps DEF Goto
<1> QED BY <1>1, <1>2

LEMMA RequestWrites ==
    ASSUME IInv, CreditInv, NEW p \in Procs,
           \/ CreateInsert(p) \/ CreateFailed(p) \/ CreateSave(p)
           \/ BricksReuse(p) \/ BricksInsert(p) \/ BricksSaveExt(p) \/ BricksReject(p)
           \/ SubscribeSave(p) \/ CancelSave(p)
    PROVE  DatesOK
<1> DEFINE s == proc[p].sid
<1> USE ProcFacts
<1>1. ASSUME NEW l \in NeedsSub, At(p, l) PROVE s \in Subs /\ sub[s] \in SubRecord
  BY <1>1 DEF At, ProcOK, KnowsRows, ProcRecord, Used, IInv, TypeOK
<1>2. ASSUME NEW o \in Unused, NEW u, NEW plan, NEW kind, WriteSub(o, NewSub(u, plan, kind)),
             NEW l, Become(p, [proc[p] EXCEPT !.pc = l, !.sid = o]), UNCHANGED preapproval
      PROVE  DatesOK
  <2>1. [NewSub(u, plan, kind) EXCEPT !.age = 0].end = None /\ Within(None) /\ o \in Subs
    BY DEF NewSub, NoSub, Unused, Within
  <2>2. [proc[p] EXCEPT !.pc = l, !.sid = o].end = proc[p].end
    BY DEF ProcRecord
  <2> QED BY <1>2, <2>1, <2>2, WritingKeeps
<1>3. CASE CreateInsert(p)
  BY <1>2, <1>3, GoesReading, ReadingKeeps DEF CreateInsert
<1>4. CASE BricksInsert(p)
  BY <1>2, <1>4, GoesReading, ReadingKeeps DEF BricksInsert
<1>5. CASE CreateFailed(p)
  <2>1. [[sub[s] EXCEPT !.status = "cancelled"] EXCEPT !.age = 0].end = sub[s].end /\ s \in Subs
    BY <1>1, <1>5 DEF CreateFailed, NeedsSub, SubRecord
  <2> QED BY <1>5, <2>1, WritingGoesOn DEF CreateFailed
<1>6. CASE CreateSave(p)
  <2>1. [[sub[s] EXCEPT !.ext = proc[p].ext, !.link = TRUE] EXCEPT !.age = 0].end = sub[s].end /\ s \in Subs
    BY <1>1, <1>6 DEF CreateSave, NeedsSub, SubRecord
  <2> QED BY <1>6, <2>1, WritingGoesOn DEF CreateSave
<1>7. CASE BricksReuse(p)
  <2>1. s \in Subs /\ sub[s] \in SubRecord
    BY <1>7 DEF BricksReuse, ProcRecord, IInv, TypeOK
  <2>2. [[sub[s] EXCEPT !.plan = proc[p].plan, !.kind = proc[p].kind] EXCEPT !.age = 0].end = sub[s].end
    BY <2>1 DEF SubRecord
  <2> QED BY <1>7, <2>1, <2>2, WritingGoesOn DEF BricksReuse
<1>8. CASE BricksSaveExt(p)
  <2>1. [[sub[s] EXCEPT !.ext = Opaque] EXCEPT !.age = 0].end = sub[s].end /\ s \in Subs
    BY <1>1, <1>8 DEF BricksSaveExt, NeedsSub, SubRecord
  <2>2. \A x : [proc[p] EXCEPT !.pc = "findRow", !.then = x].end = proc[p].end
    BY DEF ProcRecord
  <2> QED BY <1>8, <2>1, <2>2, WritingKeeps, WritingGoesOn DEF BricksSaveExt
<1>9. CASE BricksReject(p)
  <2>1. [[sub[s] EXCEPT !.status = "cancelled"] EXCEPT !.age = 0].end = sub[s].end /\ s \in Subs
    BY <1>1, <1>9 DEF BricksReject, NeedsSub, SubRecord
  <2> QED BY <1>9, <2>1, WritingGoesOn DEF BricksReject
<1>10. CASE SubscribeSave(p)
  <2>1. [[sub[s] EXCEPT !.ext = proc[p].ext, !.status = proc[p].seen] EXCEPT !.age = 0].end = sub[s].end /\ s \in Subs
    BY <1>1, <1>10 DEF SubscribeSave, NeedsSub, SubRecord
  <2> QED BY <1>10, <2>1, WritingGoesOn DEF SubscribeSave
<1>11. CASE CancelSave(p)
  <2>1. [[sub[s] EXCEPT !.status = "cancelled", !.end = proc[p].end] EXCEPT !.age = 0].end = proc[p].end /\ s \in Subs
    BY <1>1, <1>11 DEF CancelSave, NeedsSub, SubRecord
  <2>2. Within(proc[p].end)
    BY DEF CreditInv
  <2> QED BY <1>11, <2>1, <2>2, WritingGoesOn DEF CancelSave
<1> QED BY <1>3, <1>4, <1>5, <1>6, <1>7, <1>8, <1>9, <1>10, <1>11

(* A payment or a recovery puts the end one period from today: whatever    *)
(* the end was before, the new one does not add to it.                     *)
LEMMA PaymentWrites ==
    ASSUME IInv, CreditInv, NEW p \in Procs,
           \/ Activate(p) \/ LinkExt(p) \/ WriteStatus(p)
           \/ RenewalsSave(p) \/ StaleCancel(p) \/ PreapprovalSave(p)
    PROVE  DatesOK
<1> DEFINE s == proc[p].sid
<1> USE ProcFacts
<1>1. ASSUME NEW l \in NeedsSub, At(p, l) PROVE s \in Subs /\ sub[s] \in SubRecord
  BY <1>1 DEF At, ProcOK, KnowsRows, ProcRecord, Used, IInv, TypeOK
<1>2. ASSUME NEW l \in NeedsPlan, At(p, l) PROVE proc[p].plan \in Plans
  BY <1>2 DEF At, ProcOK, KnowsRows, ProcRecord
<1>3. CASE Activate(p)
  <2>1. [[sub[s] EXCEPT !.status = "active", !.end = PaidUntil(proc[p].plan)] EXCEPT !.age = 0].end
            = PaidUntil(proc[p].plan) /\ s \in Subs
    BY <1>1, <1>3 DEF Activate, NeedsSub, SubRecord
  <2>2. Within(PaidUntil(proc[p].plan))
    BY <1>2, <1>3, PlanDates DEF Activate, NeedsPlan
  <2> QED BY <1>3, <2>1, <2>2, WritingGoesOn DEF Activate
<1>4. CASE LinkExt(p)
  <2>1. [[sub[s] EXCEPT !.ext = proc[p].pre] EXCEPT !.age = 0].end = sub[s].end /\ s \in Subs
    BY <1>1, <1>4 DEF LinkExt, NeedsSub, SubRecord
  <2> QED BY <1>4, <2>1, WritingGoesOn DEF LinkExt
<1>5. CASE WriteStatus(p)
  <2>1. [[sub[s] EXCEPT !.status = proc[p].seen] EXCEPT !.age = 0].end = sub[s].end /\ s \in Subs
    BY <1>1, <1>5 DEF WriteStatus, NeedsSub, SubRecord
  <2>2. Finish(p) \/ \E l : Goto(p, l)
    BY <1>5 DEF WriteStatus, AfterStatus
  <2> QED BY <1>5, <2>1, <2>2, WritingGoesOn DEF WriteStatus
<1>6. CASE RenewalsSave(p)
  <2>1. /\ \A x : [[sub[s] EXCEPT !.status = "pending", !.link = TRUE, !.ext = x] EXCEPT !.age = 0].end = sub[s].end
        /\ s \in Subs
    BY <1>1, <1>6 DEF RenewalsSave, NeedsSub, SubRecord
  <2> QED BY <1>6, <2>1, WritingGoesOn DEF RenewalsSave
<1>7. CASE StaleCancel(p)
  <2>1. SubEnds
    BY <1>7 DEF StaleCancel, SubEnds, IInv, TypeOK, SubRecord
  <2>2. ProcEnds
    BY <1>7, ProcKeeps DEF StaleCancel, Finish, Idle, Within
  <2> QED BY <1>7, <2>1, <2>2 DEF StaleCancel, DatesOK, NextEnds
<1>8. CASE PreapprovalSave(p)
  <2>1. s \in Subs /\ sub[s] \in SubRecord /\ Within(Period[proc[p].plan])
    BY <1>1, <1>2, <1>8, PlanDates DEF PreapprovalSave, NeedsSub, NeedsPlan
  <2>2. /\ [[sub[s] EXCEPT !.status = "active", !.end = Period[proc[p].plan]] EXCEPT !.age = 0].end = Period[proc[p].plan]
        /\ \A x : [[sub[s] EXCEPT !.status = x] EXCEPT !.age = 0].end = sub[s].end
    BY <2>1 DEF SubRecord
  <2> QED BY <1>8, <2>1, <2>2, WritingGoesOn DEF PreapprovalSave
<1> QED BY <1>3, <1>4, <1>5, <1>6, <1>7, <1>8

(* A preapproval is first charged after the free trial of its plan.        *)
LEMMA NewNextIs ==
    ASSUME IInv, NEW m \in Preapprovals, NEW s, NEW plan \in Plans, NEW x, NEW ref, NewPreapproval(m, s, plan, x, ref)
    PROVE  NextEnds
<1>1. preapproval'[m].next = TrialDays[plan] /\ \A o \in Preapprovals \ {m} : preapproval'[o] = preapproval[o]
  BY DEF NewPreapproval, IInv, TypeOK
<1> QED BY <1>1, PlanDates DEF NextEnds

LEMMA PreapprovalWrites ==
    ASSUME IInv, NEW p \in Procs, CreateGateway(p) \/ SubscribeGateway(p)
    PROVE  DatesOK
<1> USE ProcFacts
<1>1. SubEnds
  BY DEF CreateGateway, SubscribeGateway, SubEnds
<1>2. proc[p].plan \in Plans
  BY DEF CreateGateway, SubscribeGateway, At, ProcOK, KnowsRows, NeedsPlan, ProcRecord
<1>3. NextEnds
  <2>1. CASE UNCHANGED preapproval
    BY <2>1 DEF NextEnds
  <2>2. ASSUME NEW m \in FreePreapprovals, NEW x, NEW ref, NewPreapproval(m, proc[p].sid, proc[p].plan, x, ref)
        PROVE  NextEnds
    BY <1>2, <2>2, NewNextIs DEF FreePreapprovals
  <2> QED BY <2>1, <2>2 DEF CreateGateway, SubscribeGateway
<1>4. ProcEnds
  <2>1. ASSUME NEW r, Become(p, r), r.end = proc[p].end \/ r.end = None PROVE ProcEnds
    BY <2>1, ProcKeeps DEF Within
  <2>2. \A l, x, y : /\ [proc[p] EXCEPT !.pc = l, !.ext = x].end = proc[p].end
                     /\ [proc[p] EXCEPT !.pc = l, !.ext = x, !.seen = y].end = proc[p].end
                     /\ [proc[p] EXCEPT !.pc = l].end = proc[p].end
    BY DEF ProcRecord
  <2>3. Idle.end = None
    BY DEF Idle
  <2>4. CASE CreateGateway(p)
    BY <2>1, <2>2, <2>4 DEF CreateGateway, Goto
  <2>5. CASE SubscribeGateway(p)
    <3>1. Finish(p) \/ \E m, x : Become(p, [proc[p] EXCEPT !.pc = "subscribeSave", !.ext = m, !.seen = x])
      BY <2>5 DEF SubscribeGateway
    <3>2. ASSUME NEW m, NEW x, Become(p, [proc[p] EXCEPT !.pc = "subscribeSave", !.ext = m, !.seen = x])
          PROVE  ProcEnds
      <4>1. [proc[p] EXCEPT !.pc = "subscribeSave", !.ext = m, !.seen = x].end = proc[p].end
        BY <2>2
      <4> QED BY <2>1, <3>2, <4>1
    <3> QED BY <2>1, <2>3, <3>1, <3>2 DEF Finish
  <2> QED BY <2>4, <2>5
<1> QED BY <1>1, <1>3, <1>4 DEF DatesOK

(* A cancellation takes along an end or a next date that is explained.     *)
LEMMA CancelReads ==
    ASSUME IInv, CreditInv, NEW p \in Procs, (\E u \in Users : CancelFind(p, u)) \/ CancelGateway(p)
    PROVE  DatesOK
<1> USE ProcFacts
<1>1. ASSUME NEW u \in Users, CancelFind(p, u) PROVE DatesOK
  <2>1. PICK s \in StatusIn(u, NotEnded) :
          Become(p, [Idle EXCEPT
               !.user = u, !.sid = s, !.kind = sub[s].kind, !.ext = sub[s].ext,
               !.end = IF sub[s].end = None THEN 0 ELSE sub[s].end,
               !.pc = IF sub[s].kind \in OneOff THEN "cancelSave" ELSE "cancelGateway"])
    BY <1>1 DEF CancelFind
  <2>2. s \in Subs /\ Used(s)
    BY DEF StatusIn, NotEnded, Live, Used
  <2> DEFINE r == [Idle EXCEPT
               !.user = u, !.sid = s, !.kind = sub[s].kind, !.ext = sub[s].ext,
               !.end = IF sub[s].end = None THEN 0 ELSE sub[s].end,
               !.pc = IF sub[s].kind \in OneOff THEN "cancelSave" ELSE "cancelGateway"]
  <2>3. Become(p, r) /\ r.end = IF sub[s].end = None THEN 0 ELSE sub[s].end
    BY <2>1 DEF Idle
  <2> HIDE DEF r
  <2>4. Within(IF sub[s].end = None THEN 0 ELSE sub[s].end)
    BY <2>2, NowIsWithin DEF CreditInv
  <2>5. ProcEnds
    BY <2>3, <2>4, ProcKeeps
  <2> QED BY <1>1, <2>5 DEF CancelFind, DatesOK, SubEnds, NextEnds
<1>2. CASE CancelGateway(p)
  <2>1. Within(0)
    BY <1>2, NowIsWithin DEF CancelGateway, At, ProcOK, KnowsRows, NeedsSub, Used
  <2>2. ASSUME NEW d, Within(d), Become(p, [proc[p] EXCEPT !.pc = "cancelSave", !.end = d]) PROVE ProcEnds
    <3>1. [proc[p] EXCEPT !.pc = "cancelSave", !.end = d].end = d
      BY DEF ProcRecord
    <3> QED BY <2>2, <3>1, ProcKeeps
  <2>3. CASE proc[p].ext = None
    <3>1. ProcEnds /\ UNCHANGED <<sub, preapproval>>
      BY <1>2, <2>1, <2>2, <2>3, NullAssumption DEF CancelGateway, Cancellable
    <3> QED BY <3>1 DEF DatesOK, SubEnds, NextEnds
  <2>4. ASSUME Cancellable(proc[p].ext), proc[p].ext # None PROVE DatesOK
    <3> DEFINE m == proc[p].ext
    <3>1. /\ m \in Preapprovals /\ preapproval' = [preapproval EXCEPT ![m].state = "cancelled"] /\ UNCHANGED sub
          /\ \E d \in {preapproval[m].next, 0} : Become(p, [proc[p] EXCEPT !.pc = "cancelSave", !.end = d])
      BY <1>2, <2>4 DEF CancelGateway, Cancellable
    <3>2. preapproval[m].state # "none"
      BY <1>2, <2>4, <3>1 DEF CancelGateway, At, ProcOK, KnowsPreapproval
    <3>3. Within(preapproval[m].next)
      BY <3>1, <3>2 DEF CreditInv
    <3>4. ProcEnds
      BY <2>1, <2>2, <3>1, <3>3
    <3>5. NextEnds
      <4>1. /\ preapproval'[m].next = preapproval[m].next
            /\ \A o \in Preapprovals \ {m} : preapproval'[o] = preapproval[o]
        BY <3>1 DEF IInv, TypeOK, PreapprovalRecord
      <4> HIDE DEF m
      <4> QED BY <3>2, <4>1 DEF NextEnds
    <3> QED BY <3>1, <3>4, <3>5 DEF DatesOK, SubEnds
  <2>5. ASSUME ~Cancellable(proc[p].ext), proc[p].ext # None PROVE DatesOK
    BY <1>2, <2>5, GoesReading, ReadingKeeps DEF CancelGateway
  <2> QED BY <2>3, <2>4, <2>5
<1> QED BY <1>1, <1>2

(* MercadoPago puts the next date one period ahead of a charge.            *)
LEMMA GatewayDates ==
    ASSUME IInv, GatewayStep
    PROVE  DatesOK
<1>1. UNCHANGED <<sub, proc>>
  BY DEF GatewayStep, PayLink, SettlePayment, MovePreapproval, ChargePreapproval
<1>2. CASE UNCHANGED preapproval
  BY <1>1, <1>2 DEF DatesOK, SubEnds, ProcEnds, NextEnds
<1>3. ASSUME NEW m \in Preapprovals, MovePreapproval(m) PROVE DatesOK
  <2>1. preapproval[m].state # "none"
    BY <1>3 DEF MovePreapproval, PreapprovalMoves
  <2>2. \A o \in Preapprovals : preapproval'[o].next = preapproval[o].next /\ (o # m => preapproval'[o] = preapproval[o])
    BY <1>3 DEF MovePreapproval, IInv, TypeOK, PreapprovalRecord
  <2> QED BY <1>1, <2>1, <2>2 DEF DatesOK, SubEnds, ProcEnds, NextEnds
<1>4. ASSUME NEW m \in Preapprovals, ChargePreapproval(m) PROVE DatesOK
  <2>1. preapproval[m].plan \in Plans
    BY <1>4 DEF ChargePreapproval, IInv, TablesOK, PreapprovalsOK
  <2>2. PICK d \in {0, Period[preapproval[m].plan]} : preapproval' = [preapproval EXCEPT ![m].next = d]
    BY <1>4 DEF ChargePreapproval
  <2>3. preapproval'[m].next = d /\ \A o \in Preapprovals \ {m} : preapproval'[o] = preapproval[o]
    BY <2>2 DEF IInv, TypeOK, PreapprovalRecord
  <2>4. Within(d)
    BY <2>1, PlanDates
  <2> QED BY <1>1, <2>3, <2>4 DEF DatesOK, SubEnds, ProcEnds, NextEnds
<1> QED BY <1>2, <1>3, <1>4 DEF GatewayStep, PayLink, SettlePayment

(* A day that goes by brings every date nearer.                            *)
LEMMA SoonerWithin ==
    ASSUME NEW d \in Date, Within(d)
    PROVE  Within(Sooner(d))
<1>1. Sooner(d) = d \/ (d \in Nat /\ d > 0 /\ Sooner(d) = d - 1)
  BY DEF Sooner, Date, Days
<1>2. ASSUME d \in Nat, d > 0, Sooner(d) = d - 1 PROVE Within(Sooner(d))
  <2>1. PICK plan \in Plans : d <= PaidUntil(plan) \/ d <= TrialDays[plan]
    BY <1>2, NullAssumption DEF Within
  <2>2. PaidUntil(plan) \in Nat /\ TrialDays[plan] \in Nat
    BY PlansAssumption DEF PaidUntil
  <2>3. d - 1 <= PaidUntil(plan) \/ d - 1 <= TrialDays[plan]
    BY <1>2, <2>1, <2>2
  <2> QED BY <1>2, <2>3 DEF Within
<1> QED BY <1>1, <1>2

LEMMA TickDates ==
    ASSUME IInv, CreditInv, Tick
    PROVE  DatesOK
<1>1. ASSUME NEW s \in Subs PROVE sub'[s].end = sub[s].end \/ Within(sub'[s].end)
  <2>1. sub[s] \in SubRecord /\ Within(sub[s].end)
    BY DEF IInv, TypeOK, CreditInv
  <2>2. sub'[s] = sub[s] \/ sub'[s].end = Sooner(sub[s].end)
    BY <2>1 DEF Tick, SubRecord
  <2> QED BY <2>1, <2>2, SoonerWithin DEF SubRecord
<1>2. ASSUME NEW p \in Procs PROVE Within(proc'[p].end)
  <2>1. proc[p] \in ProcRecord /\ Within(proc[p].end)
    BY DEF IInv, TypeOK, CreditInv
  <2>2. proc'[p].end = Sooner(proc[p].end)
    BY <2>1 DEF Tick, ProcRecord
  <2> QED BY <2>1, <2>2, SoonerWithin DEF ProcRecord
<1>3. ASSUME NEW m \in Preapprovals, preapproval'[m].state # "none"
      PROVE  Within(preapproval'[m].next)
  <2>1. preapproval[m] \in PreapprovalRecord
    BY DEF IInv, TypeOK
  <2>2. preapproval'[m].next = Sooner(preapproval[m].next) /\ preapproval'[m].state = preapproval[m].state
    BY <2>1 DEF Tick, PreapprovalRecord
  <2> QED BY <1>3, <2>1, <2>2, SoonerWithin DEF CreditInv, PreapprovalRecord, Date
<1> QED BY <1>1, <1>2, <1>3 DEF DatesOK, SubEnds, ProcEnds, NextEnds

LEMMA NextDates == IInv /\ CreditInv /\ [Next]_vars => CreditInv'
<1> SUFFICES ASSUME IInv, CreditInv, [Next]_vars PROVE DatesOK
  BY DatesKeep
<1>1. ASSUME NEW p \in Procs, RequestStart(p) \/ RequestStep(p) PROVE DatesOK
  BY <1>1, RequestReads, ReadingKeeps, RequestWrites, PreapprovalWrites, CancelReads DEF RequestStart, RequestStep
<1>2. ASSUME NEW p \in Procs, WebhookStart(p) \/ WebhookStep(p) PROVE DatesOK
  BY <1>2, WebhookReads, ReadingKeeps, PaymentWrites DEF WebhookStep
<1>3. ASSUME NEW p \in Procs, JobStart(p) \/ JobStep(p) \/ Fail(p) \/ SkipOnError(p) PROVE DatesOK
  BY <1>3, JobReads, ReadingKeeps, PaymentWrites DEF JobStep
<1>4. CASE UNCHANGED vars
  BY <1>4 DEF vars, DatesOK, SubEnds, ProcEnds, NextEnds
<1> QED BY <1>1, <1>2, <1>3, <1>4, GatewayDates, TickDates DEF Next, Start, Step

(* However often a notice comes, and however renewals, cancellations and   *)
(* the jobs interleave with it, no subscription is in force further ahead  *)
(* than one payment or the free trial of a plan reaches: credit does not   *)
(* add up (activateFromCheckoutPayment, _renewSubscriptionVigency, cancel, *)
(* handleSubscriptionRenewPreapproval).                                    *)
THEOREM Credit == Spec => []CreditIsBounded
<1>1. Init => CreditInv
  BY DEF Init, CreditInv, NoSub, NoPreapproval, Idle, Within
<1>2. CreditInv => CreditIsBounded
  BY DEF CreditInv, CreditIsBounded, Within
<1> QED BY <1>1, <1>2, NextDates, Invariance, PTL DEF Spec
=============================================================================
