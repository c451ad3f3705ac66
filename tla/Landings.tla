------------------------------ MODULE Landings ------------------------------
(* One landing page with a form (landings.service, admin-landings.service): *)
(* its fields in order, and what visitors send.                             *)
EXTENDS Service, Sequences

CONSTANTS
    FieldIds, MaxSubmissions,
    MaxOrder        \* bound on the orders: each new field may take one more

ASSUME LandingsAssumption == FieldIds \subseteq Nat /\ {MaxSubmissions, MaxOrder} \subseteq Nat

VARIABLES
    landing,        \* LandingPage: isPublic, deletedAt, whether now is within its dates
    fields,         \* LandingPageField: order, whether an admin gave it, required
    submissions     \* LandingPageSubmission: the fields each one filled

landingVars == <<landing, fields, submissions>>

(* Orders come from max + 1, from a position in a list of the fields or,    *)
(* byHand, from an admin.                                                   *)
FieldRecord == [order : Nat, byHand : BOOLEAN, required : BOOLEAN]

LandingsTypeOK ==
    /\ landing \in [public : BOOLEAN, deleted : BOOLEAN, current : BOOLEAN]
    /\ DOMAIN fields \subseteq FieldIds /\ \A f \in DOMAIN fields : fields[f] \in FieldRecord
    /\ \A s \in {submissions[i] : i \in DOMAIN submissions} : s \subseteq FieldIds

LandingsInit ==
    /\ landing = [public |-> TRUE, deleted |-> FALSE, current |-> TRUE]
    /\ fields = [f \in {} |-> 0] /\ submissions = <<>>

(* isLandingPublicAndValid *)
PublicAndValid == landing.public /\ landing.current /\ ~landing.deleted

RequiredFields == {f \in DOMAIN fields : fields[f].required}

(* An order counted, instead of one more than the last *)
NextOrderCounted == Cardinality(DOMAIN fields) + 1

(* resolveNextFieldOrder: one more than the last *)
NextOrder ==
    IF DOMAIN fields = {} THEN 1
    ELSE (CHOOSE n \in {fields[f].order : f \in DOMAIN fields} :
            \A f \in DOMAIN fields : fields[f].order <= n) + 1

UpdateLanding(public, current) ==
    /\ Offered("updateLanding") /\ ~landing.deleted
    /\ landing' = [landing EXCEPT !.public = public, !.current = current]
    /\ UNCHANGED <<fields, submissions, serviceVars>>

DeleteLanding ==
    /\ Offered("deleteLanding") /\ ~landing.deleted
    /\ landing' = [landing EXCEPT !.deleted = TRUE]
    /\ UNCHANGED <<fields, submissions, serviceVars>>

(* addField: the order is read first, or given *)
AddFieldReads(h, byHand, order, required) ==
    /\ Takes(h, [op |-> "addField", order |-> order, byHand |-> byHand, required |-> required])
    /\ IF byHand THEN Offered("orderByHand") /\ order \in Nat ELSE order = NextOrder
    /\ ~landing.deleted /\ order <= MaxOrder /\ UNCHANGED landingVars

AddFieldInserts(h) ==
    /\ Ends(h, {"addField"})
    /\ \E f \in Fresh(FieldIds, DOMAIN fields) :
         fields' = [g \in DOMAIN fields \cup {f} |->
                      IF g = f THEN [order |-> call[h].order, byHand |-> call[h].byHand,
                                     required |-> call[h].required]
                      ELSE fields[g]]
    /\ UNCHANGED <<landing, submissions>>

(* updateField: what is given *)
UpdateField(f) ==
    /\ Offered("updateField") /\ ~landing.deleted /\ f \in DOMAIN fields
    /\ \/ fields' = [fields EXCEPT ![f].required = ~@]
       \/ /\ Offered("orderByHand")
          /\ \E order \in 0 .. MaxOrder :
               fields' = [fields EXCEPT ![f] = [@ EXCEPT !.order = order, !.byHand = TRUE]]
    /\ UNCHANGED <<landing, submissions, serviceVars>>

DeleteField(f) ==
    /\ Offered("deleteField") /\ ~landing.deleted /\ f \in DOMAIN fields
    /\ fields' = [g \in DOMAIN fields \ {f} |-> fields[g]]
    /\ UNCHANGED <<landing, submissions, serviceVars>>

(* reorderFields: the list must hold every field there is, once *)
Orders(S) == {q \in [1 .. Cardinality(S) -> S] : \A f \in S : \E i \in DOMAIN q : q[i] = f}

ReorderReads(h, list) ==
    /\ Takes(h, [op |-> "reorderFields", list |-> list])
    /\ ~landing.deleted /\ UNCHANGED landingVars

(* One transaction: a field deleted meanwhile undoes it *)
ReorderWrites(h) ==
    /\ Ends(h, {"reorderFields"})
    /\ LET list == call[h].list
           listed == {list[i] : i \in DOMAIN list}
       IN fields' = IF listed \subseteq DOMAIN fields
                    THEN [f \in DOMAIN fields |->
                            IF f \in listed
                            THEN [fields[f] EXCEPT !.order = CHOOSE i \in DOMAIN list : list[i] = f,
                                                   !.byHand = FALSE]
                            ELSE fields[f]]
                    ELSE fields
    /\ UNCHANGED <<landing, submissions>>

(* submitLanding: the required fields are those of the page as it was read *)
SubmitReads(h, filled) ==
    /\ Takes(h, [op |-> "submitLanding", filled |-> filled])
    /\ PublicAndValid /\ RequiredFields \subseteq filled
    /\ Len(submissions) < MaxSubmissions /\ UNCHANGED landingVars

SubmitInserts(h) ==
    /\ Ends(h, {"submitLanding"})
    /\ submissions' = Append(submissions, call[h].filled)
    /\ UNCHANGED <<landing, fields>>

DeleteSubmission(i) ==
    /\ Offered("deleteSubmission") /\ ~landing.deleted /\ i \in DOMAIN submissions
    /\ submissions' = SubSeq(submissions, 1, i - 1) \o SubSeq(submissions, i + 1, Len(submissions))
    /\ UNCHANGED <<landing, fields, serviceVars>>

LandingsNext ==
    \/ \E public, current \in BOOLEAN : UpdateLanding(public, current)
    \/ DeleteLanding
    \/ \E f \in FieldIds : UpdateField(f) \/ DeleteField(f)
    \/ \E i \in 1 .. MaxSubmissions : DeleteSubmission(i)
    \/ \E h \in Handlers :
         \/ AddFieldInserts(h) \/ ReorderWrites(h) \/ SubmitInserts(h)
         \/ \E byHand, required \in BOOLEAN, order \in 0 .. MaxOrder :
              (required => Offered("submitLanding")) /\ AddFieldReads(h, byHand, order, required)
         \/ DOMAIN fields # {} /\ \E list \in Orders(DOMAIN fields) : ReorderReads(h, list)
         \/ \E filled \in SUBSET DOMAIN fields : SubmitReads(h, filled)

LandingsSpec == LandingsInit /\ ServiceInit /\ [][LandingsNext]_<<landingVars, serviceVars>>

-----------------------------------------------------------------------------
(* However fields are added, deleted, given an order by an admin and        *)
(* reordered, those whose order was never given by hand, or not since the   *)
(* last reordering, keep one place each; two of them share a place only     *)
(* when handlers overlapped, and then no more than ran side by side         *)
(* (admin-landings.service resolveNextFieldOrder against reorderFields).    *)
FieldOrdersClashOnlyInRaces ==
    \A f \in DOMAIN fields :
        Cardinality({g \in DOMAIN fields : fields[g].order = fields[f].order /\ ~fields[g].byHand}) <= Side
=============================================================================
