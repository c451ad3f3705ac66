------------------------------ MODULE Profiles ------------------------------
(* The profile of one professional: what he fills in (professionals.service,*)
(* onboarding.service), what the review decides (admin.service), what       *)
(* payment, trials and logins do to it, and where visitors find it.         *)
EXTENDS Service

CONSTANTS TrialOnApproval       \* TRIAL_DAYS > 0

ASSUME ProfilesAssumption == TrialOnApproval \in BOOLEAN

VARIABLES
    profile,        \* ProfessionalProfile
    verified,       \* emailVerified of its user
    paying,         \* the user has an active subscription
    reviewed,       \* the last review: ProfileValidation, or an approval without a row
    clash,          \* history: two reviews overlapped, or one was cut short
    outed           \* history: see PayerStaysListed

profileVars == <<profile, verified, paying, reviewed, clash, outed>>

(* Fields that count towards completion, by the step that fills them:       *)
(* 2 personal, 3 professional.  LastStep is the submission.                 *)
Counted == {2, 3}
LastStep == 9

ProfileRecord ==
    [status : {"onboarding", "waiting_payment", "active", "pending_review", "rejected", "suspended"},
     active : BOOLEAN, validated : BOOLEAN, hidden : BOOLEAN, deleted : BOOLEAN,
     trial : {"none", "current", "over"},
     filled : SUBSET Counted, pct : SUBSET Counted, step : 1 .. LastStep, cv : BOOLEAN]

ProfilesTypeOK ==
    /\ profile \in ProfileRecord /\ {verified, paying, clash, outed} \subseteq BOOLEAN
    /\ reviewed \in {"none", "approved", "rejected"}

(* A professional who registered, or whom an admin registered as active *)
ProfilesInit ==
    /\ LET approved == Offered("enteredByAdmin")
       IN /\ profile = [status |-> IF approved THEN "active" ELSE "onboarding", active |-> FALSE,
                        validated |-> approved, hidden |-> FALSE, deleted |-> FALSE, trial |-> "none",
                        filled |-> {2}, pct |-> {}, step |-> 1, cv |-> FALSE]
          /\ reviewed = IF approved THEN "approved" ELSE "none"
    /\ verified = TRUE /\ paying = FALSE /\ clash = FALSE /\ outed = FALSE

Puts(fields) == profile' = Patched(profile, fields)
PutsLive(fields) == IF profile.deleted THEN UNCHANGED profile ELSE Puts(fields)

Down == [status |-> "waiting_payment", active |-> FALSE]
TrialEnded == [status |-> "waiting_payment", active |-> FALSE, trial |-> "none"]
Up   == [status |-> "active", active |-> TRUE]

-----------------------------------------------------------------------------
(* Where a visitor finds the profile *)

FindAll ==
    /\ ~profile.deleted /\ profile.active /\ ~profile.hidden /\ profile.status = "active"
    /\ profile.validated /\ verified
    /\ profile.trial = "current" \/ paying

FindOne ==
    /\ profile.active /\ ~profile.hidden /\ profile.status = "active" /\ profile.validated
    /\ verified /\ ~profile.deleted
    /\ profile.trial = "current" \/ paying

(* The query by hand does not look at deletedAt; the one that follows does. *)
FindFeatured ==
    LET rows == /\ profile.active /\ ~profile.hidden /\ profile.status = "active" /\ profile.validated
                /\ verified
                /\ (profile.trial # "none" /\ profile.trial # "over") \/ paying
    IN rows /\ ~profile.deleted

FindBySlug ==
    /\ ~(profile.deleted \/ ~profile.active \/ profile.hidden
         \/ profile.status # "active" \/ ~profile.validated)
    /\ verified
    /\ ~(profile.trial # "current" /\ ~paying)

(* search: whatever else is asked for, within these *)
Search ==
    /\ ~profile.deleted /\ profile.active /\ ~profile.hidden /\ profile.status = "active"
    /\ profile.validated /\ verified
    /\ profile.trial = "current" \/ paying

(* sendProfessionalContact: the contact form looks at less, and at a trial  *)
(* that is over even when the professional pays                             *)
Contactable ==
    ~(profile.deleted \/ profile.hidden \/ ~profile.active \/ profile.status # "active" \/ profile.trial = "over")

(* searchRecipients (messages.service): whom a message can be addressed to; *)
(* neither the review nor the plan counts                                   *)
SearchRecipients ==
    /\ ~profile.deleted /\ profile.active /\ ~profile.hidden /\ profile.status = "active"
    /\ verified

(* The queues of the admins, and the reminder to finish the onboarding *)
GetPendingProfessionals == ~profile.deleted /\ (~profile.active \/ profile.status = "onboarding")
GetPendingReview == ~profile.deleted /\ profile.status = "pending_review"
OnboardingReminder == ~profile.deleted /\ profile.status = "onboarding"

-----------------------------------------------------------------------------
(* Trials, logins, payments *)

TrialRunsOut ==
    /\ Offered("trial") /\ profile.trial = "current"
    /\ Puts([trial |-> "over"])
    /\ UNCHANGED <<verified, paying, reviewed, clash, outed, serviceVars>>

(* A login that takes any trial for one that is over *)
LoginReadsTrial(h) ==
    /\ Takes(h, [op |-> "login", over |-> profile.status = "active" /\ profile.trial # "none",
                 saw |-> profile.trial = "over"])
    /\ verified /\ ~profile.deleted /\ UNCHANGED profileVars

(* login acts on the profile as it was read *)
LoginReads(h) ==
    /\ Takes(h, [op |-> "login", over |-> profile.status = "active" /\ profile.trial = "over",
                 saw |-> profile.trial = "over"])
    /\ verified /\ ~profile.deleted /\ UNCHANGED profileVars

LoginWrites(h) ==
    /\ Ends(h, {"login"})
    /\ IF call[h].over
       THEN PutsLive(TrialEnded) /\ outed' = (outed \/ call[h].saw)
       ELSE UNCHANGED <<profile, outed>>
    /\ UNCHANGED <<verified, paying, reviewed, clash>>

(* handleExpiredTrials *)
HandleExpiredTrials ==
    /\ Offered("trial") /\ profile.status = "active" /\ profile.trial = "over" /\ ~profile.deleted
    /\ Puts(TrialEnded)
    /\ outed' = TRUE
    /\ UNCHANGED <<verified, paying, reviewed, clash, serviceVars>>

(* create: a new subscription ends the onboarding *)
SubscriptionBegins ==
    /\ Offered("pay") /\ profile.status = "onboarding" /\ ~profile.deleted
    /\ Puts([status |-> "waiting_payment"])
    /\ UNCHANGED <<verified, paying, reviewed, clash, outed, serviceVars>>

(* Webhooks and jobs write the status of a subscription, and then what it   *)
(* makes of the profile: a confirmed payment, the recovery job (which lets  *)
(* the trial be), an authorized preapproval of a plan with a trial, an end. *)
Confirmations == {"paid", "recovered"}
Effects == Confirmations \cup {"authorized", "ended"}

(* The user may have another subscription than the one it is about; the job *)
(* of the cancelled ones, and a late notice of an old one, write no status. *)
SubscriptionMoves(h, effect) ==
    /\ Takes(h, [op |-> "pay", effect |-> effect])
    /\ IF effect \in Confirmations THEN paying' = TRUE ELSE paying' \in {FALSE, paying}
    /\ UNCHANGED <<profile, verified, reviewed, clash, outed>>

(* The last write wins, whatever the user has by now. *)
SubscriptionShows(h) ==
    /\ Ends(h, {"pay"})
    /\ \/ call[h].effect = "paid" /\ PutsLive([status |-> "active", active |-> TRUE, trial |-> "none"])
       \/ call[h].effect = "recovered" /\ PutsLive(Up)
       \/ call[h].effect = "authorized" /\ \E trial \in {"current", "over"} : PutsLive([trial |-> trial])
       \/ call[h].effect = "ended" /\ PutsLive(Down)
    /\ outed' = CASE call[h].effect \in Confirmations -> FALSE
                  [] call[h].effect = "ended" -> outed \/ paying
                  [] OTHER -> outed
    /\ UNCHANGED <<verified, paying, reviewed, clash>>

(* cancel: the profile stays as it is *)
Cancel ==
    /\ Offered("pay") /\ paying /\ paying' = FALSE
    /\ UNCHANGED <<profile, verified, reviewed, clash, outed, serviceVars>>

(* The webhook of the old payments brings up whoever paid, reviewed or not. *)
HandleWebhook ==
    /\ Offered("oldPayment") /\ PutsLive(Up)
    /\ UNCHANGED <<verified, paying, reviewed, clash, outed, serviceVars>>

-----------------------------------------------------------------------------
(* What the professional fills in.  Each handler reads the profile for its  *)
(* step, writes the section, and writes the completion of what it wrote.    *)

MaxStep(a, b) == IF a < b THEN b ELSE a

SectionReads(h, n) ==
    /\ Offered("update") = (n = 1)
    /\ Takes(h, [op |-> "section", at |-> "section", n |-> n, step |-> profile.step, pct |-> {}])
    /\ ~profile.deleted /\ UNCHANGED profileVars

(* The section n is written over whatever the row has by now.               *)
SectionWrites(h, n, fields) ==
    /\ call[h].op = "section" /\ call[h].at = "section" /\ call[h].n = n
    /\ PutsLive(fields)
    /\ IF profile.deleted THEN Ends(h, {"section"})
       ELSE GoesOn(h, "section", [call[h] EXCEPT !.at = "pct", !.pct = profile'.filled])
    /\ UNCHANGED <<verified, paying, reviewed, clash, outed>>

UpdatePersonal(h) ==
    \E filled \in {profile.filled \cup {2}, profile.filled \ {2}} :
        SectionWrites(h, 2, [filled |-> filled, step |-> MaxStep(call[h].step, 2)])

UpdateProfessionalInfo(h) ==
    \E filled \in {profile.filled \cup {3}, profile.filled \ {3}} :
        SectionWrites(h, 3, [filled |-> filled, step |-> MaxStep(call[h].step, 3)])

UpdatePreferences(h) == SectionWrites(h, 7, [step |-> MaxStep(call[h].step, 7)])

UpdateMotivation(h) == SectionWrites(h, 8, [step |-> MaxStep(call[h].step, 8)])

(* update: any field, here the one that hides the profile; no step          *)
Update(h) == SectionWrites(h, 1, [hidden |-> ~profile.hidden])

(* recalculateAndReturn *)
RecalculateAndReturn(h) ==
    /\ call[h].op = "section" /\ call[h].at = "pct" /\ Ends(h, {"section"})
    /\ PutsLive([pct |-> call[h].pct])
    /\ UNCHANGED <<verified, paying, reviewed, clash, outed>>

(* addEducation, addCertification: a row of another table, then the step    *)
AddEducation(h) ==
    /\ call[h].op = "section" /\ call[h].n = 4 /\ Ends(h, {"section"})
    /\ PutsLive([step |-> MaxStep(call[h].step, 4)])
    /\ UNCHANGED <<verified, paying, reviewed, clash, outed>>

AddCertification(h) ==
    /\ call[h].op = "section" /\ call[h].n = 5 /\ Ends(h, {"section"})
    /\ PutsLive([step |-> MaxStep(call[h].step, 5)])
    /\ UNCHANGED <<verified, paying, reviewed, clash, outed>>

(* A CV comes or goes (uploadDocument, deleteDocument). *)
CvChanges ==
    /\ Offered("submit") /\ Puts([cv |-> ~profile.cv])
    /\ UNCHANGED <<verified, paying, reviewed, clash, outed, serviceVars>>

SubmitForReview(h) ==
    /\ Takes(h, [op |-> "submit"])
    /\ ~profile.deleted /\ 2 \in profile.filled /\ profile.cv
    /\ UNCHANGED profileVars

SubmitSaves(h) ==
    /\ Ends(h, {"submit"})
    /\ PutsLive([status |-> "pending_review", step |-> LastStep])
    /\ outed' = TRUE
    /\ UNCHANGED <<verified, paying, reviewed, clash>>

(* completeOnboarding: from any status, on the completion last written      *)
CompleteReads(h) ==
    /\ Takes(h, [op |-> "complete"])
    /\ ~profile.deleted /\ profile.pct = Counted
    /\ UNCHANGED profileVars

CompleteWrites(h) ==
    /\ Ends(h, {"complete"}) /\ PutsLive([status |-> "active"])
    /\ UNCHANGED <<verified, paying, reviewed, clash, outed>>

-----------------------------------------------------------------------------
(* What the review decides *)

Reviewing == {h \in Handlers : call[h].op \in {"validate", "adminUpdate"}}

ApprovalOf(trial) == [status |-> "active", active |-> TRUE, validated |-> TRUE, trial |-> trial]

(* approveProfessional: no row *)
ApproveProfessional ==
    /\ Offered("approve") /\ ~profile.deleted
    /\ Puts(ApprovalOf(profile.trial))
    /\ reviewed' = "approved" /\ clash' = (clash \/ Reviewing # {})
    /\ UNCHANGED <<verified, paying, outed, serviceVars>>

(* validateProfile: the row, and then the profile *)
ValidateRow(h, verdict) ==
    /\ Takes(h, [op |-> "validate", verdict |-> verdict])
    /\ ~profile.deleted
    /\ reviewed' = verdict /\ clash' = (clash \/ Reviewing # {})
    /\ UNCHANGED <<profile, verified, paying, outed>>

(* A rejection that leaves the date of the last validation *)
RejectsStatusOnly(h) ==
    /\ Ends(h, {"validate"})
    /\ IF call[h].verdict = "approved" THEN PutsLive(ApprovalOf(profile.trial))
       ELSE PutsLive([status |-> "rejected", active |-> FALSE])
    /\ outed' = TRUE
    /\ clash' = (clash \/ profile.deleted)
    /\ UNCHANGED <<verified, paying, reviewed>>

ValidateProfile(h) ==
    /\ Ends(h, {"validate"})
    /\ IF call[h].verdict = "approved"
       THEN PutsLive(ApprovalOf(IF TrialOnApproval THEN "current" ELSE profile.trial))
       ELSE PutsLive([status |-> "rejected", active |-> FALSE, validated |-> FALSE])
    /\ outed' = (outed \/ call[h].verdict = "rejected")
    /\ clash' = (clash \/ profile.deleted)      \* the row stays
    /\ UNCHANGED <<verified, paying, reviewed>>

(* updateProfessional: the user's row, and then the profile; a status of    *)
(* active or rejected is a review of its own                                *)
UpdateUser(h, status, verify) ==
    /\ Takes(h, [op |-> "adminUpdate", status |-> status])
    /\ ~profile.deleted
    /\ verified' = verify
    /\ UNCHANGED <<profile, paying, reviewed, clash, outed>>

UpdateProfessional(h) ==
    /\ Ends(h, {"adminUpdate"})
    /\ LET s == IF call[h].status = "same" THEN profile.status ELSE call[h].status
           given == call[h].status # "same"
       IN /\ \E active \in BOOLEAN, filled \in {profile.filled, {}} :
               PutsLive([status |-> s, active |-> active, filled |-> filled,
                         validated |-> (given /\ s = "active")
                                      \/ (profile.validated /\ ~(given /\ s = "rejected"))])
          /\ reviewed' = IF profile.deleted \/ ~given \/ s \notin {"active", "rejected"} THEN reviewed
                         ELSE IF s = "active" THEN "approved" ELSE "rejected"
    /\ clash' = (clash \/ Reviewing # {h})
    /\ outed' = TRUE
    /\ UNCHANGED <<verified, paying>>

SetTrialDate(trial) ==
    /\ Offered("setTrialDate") /\ ~profile.deleted /\ Puts([trial |-> trial])
    /\ UNCHANGED <<verified, paying, reviewed, clash, outed, serviceVars>>

(* softDeleteUser, and an admin's restoration *)
ProfileGoes ==
    /\ Offered("remove") /\ Puts([deleted |-> ~profile.deleted])
    /\ outed' = TRUE
    /\ UNCHANGED <<verified, paying, reviewed, clash, serviceVars>>

(* Confirmed, and not yet shown *)
Confirming == {h \in Handlers : call[h].op = "pay" /\ call[h].effect \in Confirmations}

(* The server stops, or the database does. *)
ProfilesStop ==
    /\ Offered("stopReview") /\ \E h \in Handlers : call[h] # Idle
    /\ call' = [h \in Handlers |-> Idle]
    /\ clash' = (clash \/ Reviewing # {}) /\ outed' = (outed \/ Confirming # {})
    /\ UNCHANGED <<profile, verified, paying, reviewed, scenario>>

ProfilesNext ==
    \/ TrialRunsOut \/ HandleExpiredTrials \/ SubscriptionBegins \/ Cancel
    \/ HandleWebhook \/ CvChanges \/ ApproveProfessional \/ ProfileGoes \/ ProfilesStop
    \/ \E trial \in {"none", "current", "over"} : SetTrialDate(trial)
    \/ \E h \in Handlers :
         \/ LoginReads(h) \/ LoginWrites(h) \/ SubscriptionShows(h)
         \/ \E effect \in Effects : SubscriptionMoves(h, effect)
         \/ \E n \in {1, 2, 3, 4, 5, 7, 8} : SectionReads(h, n)
         \/ UpdatePersonal(h) \/ UpdateProfessionalInfo(h) \/ UpdatePreferences(h) \/ UpdateMotivation(h) \/ Update(h)
         \/ RecalculateAndReturn(h) \/ AddEducation(h) \/ AddCertification(h)
         \/ SubmitForReview(h) \/ SubmitSaves(h) \/ CompleteReads(h) \/ CompleteWrites(h)
         \/ \E verdict \in {"approved", "rejected"} : ValidateRow(h, verdict)
         \/ ValidateProfile(h) \/ UpdateProfessional(h)
         \/ \E status \in {"active", "rejected", "suspended", "same"}, verify \in BOOLEAN : UpdateUser(h, status, verify)

ProfilesSpec == ProfilesInit /\ ServiceInit /\ [][ProfilesNext]_<<profileVars, serviceVars>>

-----------------------------------------------------------------------------
(* No visitor finds a professional whose last review is not an approval,    *)
(* whatever he pays, fills in, submits or completes afterwards, unless two  *)
(* reviews overlapped or one was cut between its row and the profile, by a  *)
(* stop or by the removal of the account                                    *)
(* (professionals.service, search.service: validatedAt in every listing).   *)
ListingsFollowReview ==
    (FindAll \/ FindOne \/ FindFeatured \/ FindBySlug \/ Search) =>
        reviewed = "approved" \/ clash \/ Reviewing # {}

(* A professional with an active subscription, and whom a review approved,  *)
(* is found in every listing and can be written to, no admin's queue holds  *)
(* him and no reminder calls him back to the onboarding, and the contact    *)
(* form reaches him as long as no trial of his has run out, once the        *)
(* confirmation of the payment has come to its end.  What takes him out, or *)
(* leaves him out, until the next confirmation ("outed"): a rejection, an   *)
(* admin's update or removal, his own submission, a stop between the        *)
(* subscription and the profile, the end of an older subscription written   *)
(* late, and a login or the trials job that saw a trial that was over; a    *)
(* login that saw none does not, whatever it overtakes                      *)
(* (subscriptions.service updateStatus, activateFromCheckoutPayment;        *)
(* auth.service login, whose write looks at nothing again).                 *)
PayerStaysListed ==
    paying /\ profile.validated /\ verified /\ ~profile.hidden /\ ~profile.deleted /\ ~outed /\ Confirming = {} =>
        /\ FindAll /\ FindOne /\ FindFeatured /\ FindBySlug /\ Search /\ SearchRecipients
        /\ ~(GetPendingProfessionals \/ GetPendingReview \/ OnboardingReminder)
        /\ profile.trial # "over" => Contactable
=============================================================================
