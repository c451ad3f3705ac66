---------------------------- MODULE People_proof ----------------------------
(* Proofs about people, for any handlers and scenarios: the profile of a    *)
(* professional, what a review decided about it and what a payment makes of *)
(* it (Profiles), the files he uploads (Files), and the accounts, what a    *)
(* mailed link is good for (Accounts).                                      *)
EXTENDS Profiles, Files, Accounts, Service_proof

Verdicts == {"approved", "rejected"}

ProfileCalls ==
    {Idle} \cup [op : {"login"}, over : BOOLEAN, saw : BOOLEAN]
           \cup [op : {"section"}, at : {"section", "pct"}, n : {1, 2, 3, 4, 5, 7, 8}, step : 1 .. LastStep,
                 pct : SUBSET Counted]
           \cup [op : {"submit", "complete"}]
           \cup [op : {"validate"}, verdict : Verdicts]
           \cup [op : {"adminUpdate"}, status : {"active", "rejected", "suspended", "same"}]
           \cup [op : {"pay"}, effect : Effects]

ProfilesOK == ProfilesTypeOK /\ call \in [Handlers -> ProfileCalls]

Validating == {h \in Handlers : call[h].op = "validate"}

(* While reviews do not overlap, the profile is the one the last review     *)
(* left, or that review is about to write it.                               *)
ReviewOK ==
    ~clash =>
        /\ \A h, k \in Validating : h = k
        /\ \A h \in Validating : call[h].verdict = reviewed
        /\ Validating = {} /\ profile.validated => reviewed = "approved"

(* A payer whom nothing took out is up, or about to be written so; a login  *)
(* takes out only whom it saw with a trial that is over.                    *)
Shown == (profile.active /\ profile.status = "active") \/ Confirming # {}

PayerOK ==
    /\ paying /\ ~outed /\ ~profile.deleted => Shown
    /\ \A h \in Handlers : call[h].op = "login" /\ call[h].over => call[h].saw

ProfilesInv == ProfilesOK /\ ReviewOK /\ PayerOK

LEMMA FirstProfile == ProfilesInit => profile \in ProfileRecord
<1> SUFFICES ASSUME ProfilesInit PROVE profile \in ProfileRecord
  OBVIOUS
<1>1. CASE Offered("enteredByAdmin")
  <2>1. profile = [status |-> "active", active |-> FALSE, validated |-> TRUE, hidden |-> FALSE,
                   deleted |-> FALSE, trial |-> "none", filled |-> {2}, pct |-> {}, step |-> 1, cv |-> FALSE]
    BY <1>1 DEF ProfilesInit
  <2> QED BY <2>1 DEF ProfileRecord, Counted, LastStep
<1>2. CASE ~Offered("enteredByAdmin")
  <2>1. profile = [status |-> "onboarding", active |-> FALSE, validated |-> FALSE, hidden |-> FALSE,
                   deleted |-> FALSE, trial |-> "none", filled |-> {2}, pct |-> {}, step |-> 1, cv |-> FALSE]
    <3>1. Offered("enteredByAdmin") = FALSE
      BY <1>2 DEF Offered
    <3> QED BY <3>1 DEF ProfilesInit
  <2> QED BY <2>1 DEF ProfileRecord, Counted, LastStep
<1> QED BY <1>1, <1>2

LEMMA ProfilesInitHolds == ProfilesInit /\ ServiceInit => ProfilesInv
<1> SUFFICES ASSUME ProfilesInit, ServiceInit PROVE ProfilesInv
  OBVIOUS
<1>1. ProfilesOK
  BY FirstProfile DEF ProfilesInit, ServiceInit, ProfilesOK, ProfilesTypeOK, ProfileCalls
<1>2. \A h \in Handlers : call[h] = Idle
  BY DEF ServiceInit
<1>3. ReviewOK /\ PayerOK
  BY <1>2 DEF ProfilesInit, ReviewOK, PayerOK, Shown, Validating, Idle
<1> QED BY <1>1, <1>3 DEF ProfilesInv

LEMMA ListingsFollow == ProfilesInv => ListingsFollowReview
<1> SUFFICES ASSUME ProfilesInv, profile.validated, ~clash, Reviewing = {} PROVE reviewed = "approved"
  BY DEF ListingsFollowReview, FindAll, FindOne, FindFeatured, FindBySlug, Search, ProfilesInv, ProfilesOK,
         ProfilesTypeOK, ProfileRecord
<1>1. Validating = {}
  BY DEF Reviewing, Validating
<1> QED BY <1>1 DEF ProfilesInv, ReviewOK

LEMMA PayerFollows == ProfilesInv => PayerStaysListed
  BY DEF PayerStaysListed, FindAll, FindOne, FindFeatured, FindBySlug, Search, SearchRecipients, Contactable,
         GetPendingProfessionals, GetPendingReview, OnboardingReminder, ProfilesInv, PayerOK, Shown, ProfilesOK,
         ProfilesTypeOK, ProfileRecord

-----------------------------------------------------------------------------
(* What a step leaves of the handlers                                       *)
NoReviewNew == \A h \in Handlers : call'[h].op \in {"validate", "login"} => call'[h] = call[h]

StillConfirming == Confirming \subseteq Confirming'

LEMMA ProfileTakes ==
    ASSUME ProfilesOK, NEW h \in Handlers, NEW r \in ProfileCalls, r # Idle, Takes(h, r)
    PROVE  /\ call' \in [Handlers -> ProfileCalls]
           /\ \A k \in Handlers : call'[k] = IF k = h THEN r ELSE call[k]
           /\ call[h] = Idle /\ StillConfirming
  BY DEF Takes, ProfilesOK, StillConfirming, Confirming, Idle

LEMMA ProfileEnds ==
    ASSUME ProfilesOK, NEW h \in Handlers, NEW ops, Ends(h, ops)
    PROVE  /\ call' \in [Handlers -> ProfileCalls] /\ call[h].op \in ops
           /\ \A k \in Handlers : call'[k] = IF k = h THEN Idle ELSE call[k]
           /\ NoReviewNew /\ ("pay" \notin ops => StillConfirming)
  BY DEF Ends, ProfilesOK, NoReviewNew, StillConfirming, Confirming, Idle, ProfileCalls

(* A row is updated in place: the fields named have new values of their     *)
(* type, the others theirs.                                                 *)
LEMMA PatchedProfile ==
    ASSUME profile \in ProfileRecord
    PROVE  /\ DOMAIN profile = {"status", "active", "validated", "hidden", "deleted", "trial", "filled", "pct",
                                "step", "cv"}
           /\ \A fields : Puts(fields) =>
                /\ DOMAIN profile' = DOMAIN profile
                /\ \A x \in DOMAIN profile : profile'[x] = IF x \in DOMAIN fields THEN fields[x] ELSE profile[x]
                /\ profile' = [x \in DOMAIN profile |-> profile'[x]]
  BY DEF ProfileRecord, Puts, Patched

(* What most steps leave alone: the review and the handlers of reviews and  *)
(* logins.                                                                  *)
LEMMA ProfilesFrame ==
    ASSUME ProfilesInv, profile' \in ProfileRecord, profile'.validated = profile.validated,
           call' \in [Handlers -> ProfileCalls], NoReviewNew, {verified', paying', outed'} \subseteq BOOLEAN,
           UNCHANGED reviewed, clash' = clash, Validating' = Validating,
           paying' /\ ~outed' /\ ~profile'.deleted => Shown'
    PROVE  ProfilesInv'
<1>1. ProfilesOK'
  BY DEF ProfilesInv, ProfilesOK, ProfilesTypeOK
<1>2. ReviewOK'
  BY DEF ProfilesInv, ReviewOK, NoReviewNew, Validating
<1>3. PayerOK'
  BY DEF ProfilesInv, PayerOK, NoReviewNew
<1> QED BY <1>1, <1>2, <1>3 DEF ProfilesInv

LEMMA ProfileRowSteps ==
    ASSUME ProfilesInv,
           \/ TrialRunsOut \/ HandleExpiredTrials \/ SubscriptionBegins \/ Cancel
           \/ HandleWebhook \/ CvChanges \/ ProfileGoes
           \/ \E trial \in {"none", "current", "over"} : SetTrialDate(trial)
    PROVE  ProfilesInv'
<1>0. /\ profile \in ProfileRecord /\ {verified, paying, clash, outed} \subseteq BOOLEAN
      /\ paying /\ ~outed /\ ~profile.deleted => Shown
  BY DEF ProfilesInv, ProfilesOK, ProfilesTypeOK, PayerOK
<1>1. UNCHANGED <<call, reviewed, clash, verified>>
  BY DEF TrialRunsOut, HandleExpiredTrials, SubscriptionBegins, Cancel, HandleWebhook, CvChanges, ProfileGoes,
         SetTrialDate, serviceVars
<1>2. call' \in [Handlers -> ProfileCalls] /\ NoReviewNew /\ Validating' = Validating /\ Confirming' = Confirming
  BY <1>1 DEF NoReviewNew, Validating, Confirming, ProfilesInv, ProfilesOK
<1> DEFINE Fine == /\ profile' \in ProfileRecord /\ profile'.validated = profile.validated
                   /\ {paying', outed'} \subseteq BOOLEAN
                   /\ paying' /\ ~outed' /\ ~profile'.deleted => Shown'
<1>3. ASSUME TrialRunsOut PROVE Fine
  BY <1>0, <1>2, <1>3 DEF TrialRunsOut, Puts, Patched, ProfileRecord, Shown
<1>4. ASSUME HandleExpiredTrials PROVE Fine
  BY <1>0, <1>4 DEF HandleExpiredTrials, TrialEnded, Puts, Patched, ProfileRecord
<1>5. ASSUME SubscriptionBegins PROVE Fine      \* who is up is not onboarding
  BY <1>0, <1>2, <1>5 DEF SubscriptionBegins, Puts, Patched, ProfileRecord, Shown
<1>6. ASSUME Cancel PROVE Fine
  BY <1>0, <1>6 DEF Cancel
<1>8. ASSUME HandleWebhook PROVE Fine
  <2>1. CASE profile.deleted
    BY <1>0, <1>8, <2>1 DEF HandleWebhook, PutsLive
  <2>2. CASE ~profile.deleted
    <3>1. profile' = Patched(profile, Up)
      BY <1>8, <2>2 DEF HandleWebhook, PutsLive, Puts
    <3>2. /\ profile' \in ProfileRecord /\ profile'.validated = profile.validated
          /\ profile'.active /\ profile'.status = "active"
      BY <1>0, <3>1 DEF Patched, Up, ProfileRecord
    <3> QED BY <1>0, <1>8, <3>2 DEF HandleWebhook, Shown
  <2> QED BY <2>1, <2>2
<1>9. ASSUME CvChanges PROVE Fine
  BY <1>0, <1>2, <1>9 DEF CvChanges, Puts, Patched, ProfileRecord, Shown
<1>10. ASSUME ProfileGoes PROVE Fine
  BY <1>0, <1>10 DEF ProfileGoes, Puts, Patched, ProfileRecord
<1>11. ASSUME NEW trial \in {"none", "current", "over"}, SetTrialDate(trial) PROVE Fine
  BY <1>0, <1>2, <1>11 DEF SetTrialDate, Puts, Patched, ProfileRecord, Shown
<1>12. Fine
  <2> HIDE DEF Fine
  <2> QED BY <1>3, <1>4, <1>5, <1>6, <1>8, <1>9, <1>10, <1>11
<1> QED BY <1>0, <1>1, <1>2, <1>12, ProfilesFrame

(* The two writes of whatever a subscription makes of a profile             *)
LEMMA PaymentSteps ==
    ASSUME ProfilesInv, NEW h \in Handlers,
           SubscriptionShows(h) \/ \E effect \in Effects : SubscriptionMoves(h, effect)
    PROVE  ProfilesInv'
<1>0. /\ profile \in ProfileRecord /\ {verified, paying, clash, outed} \subseteq BOOLEAN /\ DOMAIN call = Handlers
      /\ paying /\ ~outed /\ ~profile.deleted => Shown
  BY DEF ProfilesInv, ProfilesOK, ProfilesTypeOK, PayerOK
<1>1. ASSUME NEW effect \in Effects, SubscriptionMoves(h, effect) PROVE ProfilesInv'
  <2> DEFINE r == [op |-> "pay", effect |-> effect]
  <2>1. /\ Takes(h, r) /\ r \in ProfileCalls /\ r # Idle /\ UNCHANGED <<profile, verified, reviewed, clash, outed>>
        /\ IF effect \in Confirmations THEN paying' = TRUE ELSE paying' \in {FALSE, paying}
    BY <1>1 DEF SubscriptionMoves, ProfileCalls, Idle
  <2>2. /\ call' \in [Handlers -> ProfileCalls] /\ call[h] = Idle /\ StillConfirming
        /\ \A k \in Handlers : call'[k] = IF k = h THEN r ELSE call[k]
    BY <2>1, ProfileTakes DEF ProfilesInv
  <2>3. NoReviewNew /\ Validating' = Validating
    BY <2>2 DEF NoReviewNew, Validating, Idle
  <2>4. effect \in Confirmations => Confirming' # {}
    BY <2>2 DEF Confirming
  <2>5. paying' /\ ~outed' /\ ~profile'.deleted => Shown'
    BY <1>0, <2>1, <2>2, <2>4 DEF Shown, StillConfirming
  <2> QED BY <1>0, <2>1, <2>2, <2>3, <2>5, ProfilesFrame
<1>2. ASSUME SubscriptionShows(h) PROVE ProfilesInv'
  <2>1. /\ Ends(h, {"pay"}) /\ UNCHANGED <<verified, paying, reviewed, clash>>
        /\ outed' = CASE call[h].effect \in Confirmations -> FALSE
                      [] call[h].effect = "ended" -> outed \/ paying
                      [] OTHER -> outed
    BY <1>2 DEF SubscriptionShows
  <2>2. /\ call' \in [Handlers -> ProfileCalls] /\ NoReviewNew /\ call[h].op = "pay"
        /\ \A k \in Handlers : call'[k] = IF k = h THEN Idle ELSE call[k]
    BY <2>1, ProfileEnds DEF ProfilesInv
  <2>3. Validating' = Validating
    BY <2>2 DEF Validating, Idle
  <2>4. /\ call[h].effect \notin Confirmations => StillConfirming
        /\ call[h].effect = "authorized" => call[h].effect \notin Confirmations
        /\ call[h].effect = "ended" => call[h].effect \notin Confirmations
    BY <2>2 DEF StillConfirming, Confirming, Confirmations
  <2> DEFINE Fine == /\ profile' \in ProfileRecord /\ profile'.validated = profile.validated
                     /\ outed' \in BOOLEAN
                     /\ paying' /\ ~outed' /\ ~profile'.deleted => Shown'
  <2>5. ASSUME profile.deleted PROVE Fine
    <3>1. profile' = profile /\ outed' \in BOOLEAN
      BY <1>0, <1>2, <2>1, <2>5 DEF SubscriptionShows, PutsLive
    <3> QED BY <1>0, <2>5, <3>1
  <2>6. ASSUME ~profile.deleted,
               \/ call[h].effect = "paid" /\ PutsLive([status |-> "active", active |-> TRUE, trial |-> "none"])
               \/ call[h].effect = "recovered" /\ PutsLive(Up)
        PROVE  Fine
    <3>1. \/ profile' = Patched(profile, [status |-> "active", active |-> TRUE, trial |-> "none"])
          \/ profile' = Patched(profile, Up)
      BY <2>6 DEF PutsLive, Puts
    <3>2. /\ profile' \in ProfileRecord /\ profile'.validated = profile.validated
          /\ profile'.active /\ profile'.status = "active"
      BY <1>0, <3>1 DEF Patched, Up, ProfileRecord
    <3>3. outed' = FALSE
      BY <2>1, <2>6 DEF Confirmations
    <3> QED BY <3>2, <3>3 DEF Shown
  <2>7. ASSUME ~profile.deleted, call[h].effect = "authorized",
               NEW trial \in {"current", "over"}, PutsLive([trial |-> trial])
        PROVE  Fine
    <3>1. profile' = Patched(profile, [trial |-> trial]) /\ outed' = outed
      BY <2>1, <2>4, <2>7 DEF PutsLive, Puts
    <3>2. /\ profile' \in ProfileRecord /\ profile'.validated = profile.validated
          /\ profile'.active = profile.active /\ profile'.status = profile.status
          /\ profile'.deleted = profile.deleted
      BY <1>0, <3>1 DEF Patched, ProfileRecord
    <3>3. Shown => Shown'
      BY <2>4, <2>7, <3>2 DEF Shown, StillConfirming
    <3>4. paying' = paying /\ outed' = outed /\ outed \in BOOLEAN
      BY <1>0, <2>1, <3>1
    <3> QED BY <1>0, <3>2, <3>3, <3>4
  <2>8. ASSUME ~profile.deleted, call[h].effect = "ended", PutsLive(Down)
        PROVE  Fine
    <3>1. profile' = Patched(profile, Down) /\ outed' = (outed \/ paying)
      BY <2>1, <2>4, <2>8 DEF PutsLive, Puts
    <3>2. profile' \in ProfileRecord /\ profile'.validated = profile.validated
      BY <1>0, <3>1 DEF Patched, Down, ProfileRecord
    <3> QED BY <1>0, <2>1, <3>1, <3>2
  <2>9. Fine
    <3> HIDE DEF Fine
    <3>1. CASE profile.deleted
      BY <2>5, <3>1
    <3>2. CASE ~profile.deleted
      BY <1>2, <2>6, <2>7, <2>8, <3>2 DEF SubscriptionShows
    <3> QED BY <3>1, <3>2
  <2> QED BY <1>0, <2>1, <2>2, <2>3, <2>9, ProfilesFrame
<1> QED BY <1>1, <1>2

(* The fields a section writes are none that a review or a payment does.    *)
SameStanding(row) ==
    /\ row \in ProfileRecord
    /\ row.status = profile.status /\ row.active = profile.active /\ row.validated = profile.validated
    /\ row.deleted = profile.deleted

LEMMA SectionFields ==
    ASSUME profile \in ProfileRecord, NEW n \in 1 .. LastStep, NEW F \in SUBSET Counted
    PROVE  /\ SameStanding(profile)
           /\ SameStanding(Patched(profile, [step |-> n]))
           /\ SameStanding(Patched(profile, [filled |-> F, step |-> n]))
           /\ SameStanding(Patched(profile, [hidden |-> ~profile.hidden]))
           /\ SameStanding(Patched(profile, [pct |-> F]))
<1>1. SameStanding(profile)
  BY DEF SameStanding
<1>2. SameStanding(Patched(profile, [step |-> n]))
  BY DEF SameStanding, Patched, ProfileRecord
<1>3. SameStanding(Patched(profile, [filled |-> F, step |-> n]))
  BY DEF SameStanding, Patched, ProfileRecord
<1>4. SameStanding(Patched(profile, [hidden |-> ~profile.hidden]))
  BY DEF SameStanding, Patched, ProfileRecord
<1>5. SameStanding(Patched(profile, [pct |-> F]))
  BY DEF SameStanding, Patched, ProfileRecord
<1> QED BY <1>1, <1>2, <1>3, <1>4, <1>5

LEMMA StandingFrame ==
    ASSUME ProfilesInv, SameStanding(profile'), call' \in [Handlers -> ProfileCalls], NoReviewNew,
           StillConfirming, verified' \in BOOLEAN, UNCHANGED <<paying, reviewed, clash, outed>>, Validating' = Validating
    PROVE  ProfilesInv'
<1>1. {verified', paying', outed'} \subseteq BOOLEAN
  BY DEF ProfilesInv, ProfilesOK, ProfilesTypeOK
<1>2. paying' /\ ~outed' /\ ~profile'.deleted => Shown'
  BY DEF ProfilesInv, PayerOK, Shown, StillConfirming, SameStanding
<1> QED BY <1>1, <1>2, ProfilesFrame DEF SameStanding

LEMMA SectionSteps ==
    ASSUME ProfilesInv, NEW h \in Handlers,
           \/ UpdatePersonal(h) \/ UpdateProfessionalInfo(h) \/ UpdatePreferences(h) \/ UpdateMotivation(h)
           \/ Update(h) \/ RecalculateAndReturn(h) \/ AddEducation(h) \/ AddCertification(h)
    PROVE  ProfilesInv'
<1>0. /\ profile \in ProfileRecord /\ profile.filled \subseteq Counted /\ LastStep = 9 /\ Counted = {2, 3}
      /\ verified \in BOOLEAN /\ DOMAIN call = Handlers
  BY DEF ProfilesInv, ProfilesOK, ProfilesTypeOK, ProfileRecord, LastStep, Counted
<1>1. ASSUME call[h].op = "section"
      PROVE  /\ call[h] \in [op : {"section"}, at : {"section", "pct"}, n : {1, 2, 3, 4, 5, 7, 8},
                             step : 1 .. LastStep, pct : SUBSET Counted]
             /\ h \notin Validating
             /\ \A n \in {2, 3, 4, 5, 7, 8} : MaxStep(call[h].step, n) \in 1 .. LastStep
  <2>1. call[h] \in [op : {"section"}, at : {"section", "pct"}, n : {1, 2, 3, 4, 5, 7, 8},
                     step : 1 .. LastStep, pct : SUBSET Counted]
    BY <1>1 DEF ProfilesInv, ProfilesOK, ProfileCalls, Idle
  <2>2. call[h].step \in 1 .. 9
    BY <1>0, <2>1
  <2> QED BY <1>0, <1>1, <2>1, <2>2 DEF MaxStep, Validating
<1>2. ASSUME call[h].op = "section", SameStanding(profile'), UNCHANGED <<verified, paying, reviewed, clash, outed>>,
             Ends(h, {"section"})
      PROVE  ProfilesInv'
  <2>1. /\ call' \in [Handlers -> ProfileCalls] /\ NoReviewNew /\ StillConfirming
        /\ \A k \in Handlers : call'[k] = IF k = h THEN Idle ELSE call[k]
    BY <1>2, ProfileEnds DEF ProfilesInv
  <2>2. Validating' = Validating
    BY <1>1, <1>2, <2>1 DEF Validating, Idle
  <2> QED BY <1>0, <1>2, <2>1, <2>2, StandingFrame
<1>3. ASSUME call[h].op = "section", SameStanding(profile'), UNCHANGED <<verified, paying, reviewed, clash, outed>>,
             GoesOn(h, "section", [call[h] EXCEPT !.at = "pct", !.pct = profile'.filled])
      PROVE  ProfilesInv'
  <2> DEFINE r == [call[h] EXCEPT !.at = "pct", !.pct = profile'.filled]
  <2>0. profile'.filled \subseteq Counted
    BY <1>3 DEF SameStanding, ProfileRecord
  <2>1. r \in ProfileCalls /\ r.op = "section"
    BY <1>1, <1>3, <2>0 DEF ProfileCalls
  <2>2. call' \in [Handlers -> ProfileCalls] /\ \A k \in Handlers : call'[k] = IF k = h THEN r ELSE call[k]
    BY <1>3, <2>1 DEF GoesOn, ProfilesInv, ProfilesOK
  <2>3. NoReviewNew /\ StillConfirming /\ Validating' = Validating
    BY <1>3, <2>1, <2>2 DEF NoReviewNew, StillConfirming, Confirming, Validating
  <2> QED BY <1>0, <1>3, <2>2, <2>3, StandingFrame
<1>4. ASSUME NEW n, NEW fields, SectionWrites(h, n, fields), SameStanding(Patched(profile, fields))
      PROVE  ProfilesInv'
  <2>1. SameStanding(profile')
    BY <1>0, <1>4 DEF SectionWrites, PutsLive, Puts, SameStanding
  <2> QED BY <1>2, <1>3, <1>4, <2>1 DEF SectionWrites
<1>5. ASSUME NEW fields, PutsLive(fields), SameStanding(Patched(profile, fields))
      PROVE  SameStanding(profile')
  BY <1>0, <1>5 DEF PutsLive, Puts, SameStanding
<1>6. /\ \A n \in 1 .. LastStep : SameStanding(Patched(profile, [step |-> n]))
      /\ \A F \in SUBSET Counted, n \in 1 .. LastStep : SameStanding(Patched(profile, [filled |-> F, step |-> n]))
      /\ SameStanding(Patched(profile, [hidden |-> ~profile.hidden]))
      /\ \A F \in SUBSET Counted : SameStanding(Patched(profile, [pct |-> F]))
  <2>1. 1 \in 1 .. LastStep /\ {} \in SUBSET Counted
    BY <1>0
  <2>2. \A F \in SUBSET Counted, n \in 1 .. LastStep :
          /\ SameStanding(Patched(profile, [step |-> n]))
          /\ SameStanding(Patched(profile, [filled |-> F, step |-> n]))
          /\ SameStanding(Patched(profile, [hidden |-> ~profile.hidden]))
          /\ SameStanding(Patched(profile, [pct |-> F]))
    BY <1>0, SectionFields
  <2> QED BY <2>1, <2>2
<1>7. CASE UpdatePersonal(h)
  <2>1. PICK F \in SUBSET Counted : SectionWrites(h, 2, [filled |-> F, step |-> MaxStep(call[h].step, 2)])
    BY <1>0, <1>7 DEF UpdatePersonal
  <2>2. MaxStep(call[h].step, 2) \in 1 .. LastStep
    BY <1>1, <2>1 DEF SectionWrites
  <2> QED BY <1>4, <1>6, <2>1, <2>2
<1>8. CASE UpdateProfessionalInfo(h)
  <2>1. PICK F \in SUBSET Counted : SectionWrites(h, 3, [filled |-> F, step |-> MaxStep(call[h].step, 3)])
    BY <1>0, <1>8 DEF UpdateProfessionalInfo
  <2>2. MaxStep(call[h].step, 3) \in 1 .. LastStep
    BY <1>1, <2>1 DEF SectionWrites
  <2> QED BY <1>4, <1>6, <2>1, <2>2
<1>9. ASSUME NEW n \in {7, 8}, SectionWrites(h, n, [step |-> MaxStep(call[h].step, n)]) PROVE ProfilesInv'
  <2>1. MaxStep(call[h].step, n) \in 1 .. LastStep
    BY <1>1, <1>9 DEF SectionWrites
  <2> QED BY <1>4, <1>6, <1>9, <2>1
<1>10. CASE Update(h)
  BY <1>4, <1>6, <1>10 DEF Update
<1>11. CASE RecalculateAndReturn(h)
  <2>1. call[h].op = "section" /\ call[h].pct \in SUBSET Counted
    BY <1>1, <1>11 DEF RecalculateAndReturn
  <2>2. SameStanding(profile')
    <3>1. PutsLive([pct |-> call[h].pct]) /\ SameStanding(Patched(profile, [pct |-> call[h].pct]))
      BY <1>6, <1>11, <2>1 DEF RecalculateAndReturn
    <3> QED BY <1>5, <3>1
  <2> QED BY <1>2, <1>11, <2>1, <2>2 DEF RecalculateAndReturn
<1>12. ASSUME NEW n \in {4, 5}, call[h].op = "section", PutsLive([step |-> MaxStep(call[h].step, n)])
       PROVE  SameStanding(profile')
  <2>1. MaxStep(call[h].step, n) \in 1 .. LastStep
    BY <1>1, <1>12
  <2> QED BY <1>5, <1>6, <1>12, <2>1
<1>13. CASE AddEducation(h) \/ AddCertification(h)
  BY <1>2, <1>12, <1>13 DEF AddEducation, AddCertification
<1> QED BY <1>7, <1>8, <1>9, <1>10, <1>11, <1>13 DEF UpdatePreferences, UpdateMotivation

LEMMA OtherHandlerSteps ==
    ASSUME ProfilesInv, NEW h \in Handlers,
           \/ LoginReads(h) \/ LoginWrites(h) \/ \E n \in {1, 2, 3, 4, 5, 7, 8} : SectionReads(h, n)
           \/ SubmitForReview(h) \/ SubmitSaves(h) \/ CompleteReads(h) \/ CompleteWrites(h)
           \/ \E status \in {"active", "rejected", "suspended", "same"}, verify \in BOOLEAN :
                UpdateUser(h, status, verify)
    PROVE  ProfilesInv'
<1>0. /\ profile \in ProfileRecord /\ {verified, paying, clash, outed} \subseteq BOOLEAN /\ DOMAIN call = Handlers
      /\ SameStanding(profile)
  BY DEF ProfilesInv, ProfilesOK, ProfilesTypeOK, SameStanding
<1>1. ASSUME NEW r \in ProfileCalls, Takes(h, r), r.op \notin {"validate", "login", "idle"},
             UNCHANGED <<profile, paying, reviewed, clash, outed>>, verified' \in BOOLEAN
      PROVE  ProfilesInv'
  <2>1. /\ call' \in [Handlers -> ProfileCalls] /\ call[h] = Idle /\ StillConfirming
        /\ \A k \in Handlers : call'[k] = IF k = h THEN r ELSE call[k]
    BY <1>1, ProfileTakes DEF ProfilesInv, Idle
  <2>2. NoReviewNew /\ Validating' = Validating
    BY <1>1, <2>1 DEF NoReviewNew, Validating, Idle
  <2>3. SameStanding(profile')
    BY <1>0, <1>1
  <2> QED BY <1>1, <2>1, <2>2, <2>3, StandingFrame
<1>2. CASE LoginReads(h)
  <2> DEFINE r == [op |-> "login", over |-> profile.status = "active" /\ profile.trial = "over",
                   saw |-> profile.trial = "over"]
  <2>1. Takes(h, r) /\ UNCHANGED profileVars
    BY <1>2 DEF LoginReads
  <2>2. r \in ProfileCalls /\ r # Idle /\ r.op = "login" /\ (r.over => r.saw)
    BY DEF ProfileCalls, Idle
  <2> HIDE DEF r
  <2>3. /\ call' \in [Handlers -> ProfileCalls] /\ call[h] = Idle /\ StillConfirming
        /\ \A k \in Handlers : call'[k] = IF k = h THEN r ELSE call[k]
    BY <2>1, <2>2, ProfileTakes DEF ProfilesInv
  <2>4. Validating' = Validating
    BY <2>2, <2>3 DEF Validating, Idle
  <2>5. ReviewOK'
    BY <2>1, <2>2, <2>3, <2>4 DEF ProfilesInv, ReviewOK, profileVars, Validating
  <2>6. PayerOK'
    BY <2>1, <2>2, <2>3 DEF ProfilesInv, PayerOK, Shown, StillConfirming, profileVars
  <2> QED BY <2>1, <2>3, <2>5, <2>6 DEF ProfilesInv, ProfilesOK, ProfilesTypeOK, profileVars
<1>3. ASSUME NEW ops, Ends(h, ops), "validate" \notin ops, "pay" \notin ops, profile' \in ProfileRecord, {outed'} \subseteq BOOLEAN,
             profile'.validated = profile.validated, UNCHANGED <<verified, paying, reviewed, clash>>,
             paying /\ ~outed' /\ ~profile'.deleted =>
                 (profile'.active /\ profile'.status = "active") \/ Confirming # {}
      PROVE  ProfilesInv'
  <2>1. /\ call' \in [Handlers -> ProfileCalls] /\ NoReviewNew /\ StillConfirming /\ call[h].op \in ops
        /\ \A k \in Handlers : call'[k] = IF k = h THEN Idle ELSE call[k]
    BY <1>3, ProfileEnds DEF ProfilesInv
  <2>2. Validating' = Validating
    BY <1>3, <2>1 DEF Validating, Idle
  <2>3. paying' /\ ~outed' /\ ~profile'.deleted => Shown'
    BY <1>3, <2>1 DEF Shown, StillConfirming
  <2> QED BY <1>0, <1>3, <2>1, <2>2, <2>3, ProfilesFrame
<1>4. paying /\ ~outed /\ ~profile.deleted => (profile.active /\ profile.status = "active") \/ Confirming # {}
  BY DEF ProfilesInv, PayerOK, Shown
<1>5. CASE LoginWrites(h)
  <2>1. /\ Ends(h, {"login"}) /\ UNCHANGED <<verified, paying, reviewed, clash>>
        /\ call[h].op = "login"
    BY <1>5 DEF LoginWrites, Ends
  <2>2. CASE call[h].over
    <3>1. call[h].saw /\ outed' = (outed \/ call[h].saw) /\ PutsLive(TrialEnded)
      BY <1>5, <2>1, <2>2 DEF LoginWrites, ProfilesInv, PayerOK
    <3>2. outed' = TRUE
      BY <3>1
    <3>3. profile' \in ProfileRecord /\ profile'.validated = profile.validated
      <4>1. Patched(profile, TrialEnded) \in ProfileRecord /\ Patched(profile, TrialEnded).validated = profile.validated
        BY <1>0 DEF Patched, TrialEnded, ProfileRecord
      <4> QED BY <1>0, <3>1, <4>1 DEF PutsLive, Puts
    <3> QED BY <1>3, <2>1, <3>2, <3>3
  <2>3. CASE ~call[h].over
    <3>1. UNCHANGED <<profile, outed>>
      BY <1>5, <2>3 DEF LoginWrites
    <3> QED BY <1>0, <1>3, <1>4, <2>1, <3>1
  <2> QED BY <2>2, <2>3
<1>6. ASSUME NEW n \in {1, 2, 3, 4, 5, 7, 8}, SectionReads(h, n) PROVE ProfilesInv'
  <2> DEFINE r == [op |-> "section", at |-> "section", n |-> n, step |-> profile.step, pct |-> {}]
  <2>1. r \in ProfileCalls /\ r.op = "section"
    BY <1>0 DEF ProfileCalls, ProfileRecord
  <2>2. Takes(h, r) /\ UNCHANGED profileVars
    BY <1>6 DEF SectionReads
  <2> QED BY <1>0, <1>1, <2>1, <2>2 DEF profileVars
<1>7. CASE SubmitForReview(h) \/ CompleteReads(h)
  <2>1. PICK op \in {"submit", "complete"} : Takes(h, [op |-> op]) /\ UNCHANGED profileVars
    BY <1>7 DEF SubmitForReview, CompleteReads
  <2>2. [op |-> op] \in ProfileCalls
    BY DEF ProfileCalls
  <2> QED BY <1>0, <1>1, <2>1, <2>2 DEF profileVars
<1>8. CASE SubmitSaves(h)
  <2>1. Ends(h, {"submit"}) /\ outed' = TRUE /\ UNCHANGED <<verified, paying, reviewed, clash>>
    BY <1>8 DEF SubmitSaves
  <2>2. profile' \in ProfileRecord /\ profile'.validated = profile.validated
    <3> DEFINE fields == [status |-> "pending_review", step |-> LastStep]
    <3>1. Patched(profile, fields) \in ProfileRecord /\ Patched(profile, fields).validated = profile.validated
      BY <1>0 DEF Patched, ProfileRecord, LastStep
    <3>2. PutsLive(fields)
      BY <1>8 DEF SubmitSaves
    <3> QED BY <1>0, <3>1, <3>2 DEF PutsLive, Puts
  <2> QED BY <1>3, <2>1, <2>2
<1>9. CASE CompleteWrites(h)
  <2>1. Ends(h, {"complete"}) /\ UNCHANGED <<verified, paying, reviewed, clash, outed>>
    BY <1>9 DEF CompleteWrites
  <2>2. /\ profile' \in ProfileRecord /\ profile'.validated = profile.validated
        /\ profile'.active = profile.active /\ profile'.deleted = profile.deleted
        /\ profile'.status \in {profile.status, "active"}
    <3> DEFINE fields == [status |-> "active"]
    <3>1. /\ Patched(profile, fields) \in ProfileRecord /\ Patched(profile, fields).validated = profile.validated
          /\ Patched(profile, fields).active = profile.active /\ Patched(profile, fields).deleted = profile.deleted
          /\ Patched(profile, fields).status = "active"
      BY <1>0 DEF Patched, ProfileRecord
    <3>2. PutsLive(fields)
      BY <1>9 DEF CompleteWrites
    <3> HIDE DEF fields
    <3> QED BY <1>0, <3>1, <3>2 DEF PutsLive, Puts
  <2> QED BY <1>0, <1>3, <1>4, <2>1, <2>2
<1>10. ASSUME NEW status \in {"active", "rejected", "suspended", "same"}, NEW verify \in BOOLEAN,
              UpdateUser(h, status, verify)
       PROVE  ProfilesInv'
  <2>1. Takes(h, [op |-> "adminUpdate", status |-> status]) /\ verified' = verify
        /\ UNCHANGED <<profile, paying, reviewed, clash, outed>>
    BY <1>10 DEF UpdateUser
  <2>2. [op |-> "adminUpdate", status |-> status] \in ProfileCalls
    BY DEF ProfileCalls
  <2> QED BY <1>1, <2>1, <2>2
<1> QED BY <1>2, <1>5, <1>6, <1>7, <1>8, <1>9, <1>10

-----------------------------------------------------------------------------
(* The steps of a review                                                    *)
LEMMA ReviewSteps ==
    ASSUME ProfilesInv,
           \/ ApproveProfessional \/ ProfilesStop
           \/ \E h \in Handlers : \/ ValidateProfile(h) \/ UpdateProfessional(h)
                                  \/ \E verdict \in Verdicts : ValidateRow(h, verdict)
    PROVE  ProfilesInv'
<1>0. /\ profile \in ProfileRecord /\ {verified, paying, clash, outed} \subseteq BOOLEAN /\ DOMAIN call = Handlers
      /\ reviewed \in {"none", "approved", "rejected"} /\ Validating \subseteq Reviewing
      /\ call \in [Handlers -> ProfileCalls]
      /\ paying /\ ~outed /\ ~profile.deleted => (profile.active /\ profile.status = "active") \/ Confirming # {}
  BY DEF ProfilesInv, ProfilesOK, ProfilesTypeOK, Validating, Reviewing, PayerOK, Shown
<1>1. \A trial \in {"none", "current", "over"} :
        /\ Patched(profile, ApprovalOf(trial)) \in ProfileRecord
        /\ Patched(profile, ApprovalOf(trial)).validated
        /\ Patched(profile, ApprovalOf(trial)).active /\ Patched(profile, ApprovalOf(trial)).status = "active"
  BY <1>0 DEF Patched, ApprovalOf, ProfileRecord
<1>2. CASE ApproveProfessional
  <2>1. /\ profile' = Patched(profile, ApprovalOf(profile.trial)) /\ reviewed' = "approved"
        /\ clash' = (clash \/ Reviewing # {}) /\ UNCHANGED <<verified, paying, outed, call>>
    BY <1>2 DEF ApproveProfessional, Puts, serviceVars
  <2>2. profile' \in ProfileRecord /\ profile'.validated /\ profile'.active /\ profile'.status = "active"
    BY <1>0, <1>1, <2>1 DEF ProfileRecord
  <2>3. ~clash' => Validating = {}
    BY <1>0, <2>1
  <2>4. Validating' = Validating
    BY <2>1 DEF Validating
  <2>5. ReviewOK'
    BY <2>1, <2>3, <2>4 DEF ReviewOK
  <2>6. ProfilesOK'
    BY <1>0, <2>1, <2>2 DEF ProfilesOK, ProfilesTypeOK
  <2>7. PayerOK'
    BY <2>1, <2>2 DEF PayerOK, Shown, ProfilesInv
  <2> QED BY <2>5, <2>6, <2>7 DEF ProfilesInv
<1>3. CASE ProfilesStop
  <2>1. /\ call' = [h \in Handlers |-> Idle] /\ clash' = (clash \/ Reviewing # {})
        /\ outed' = (outed \/ Confirming # {}) /\ UNCHANGED <<profile, verified, paying, reviewed>>
    BY <1>3 DEF ProfilesStop
  <2>2. Validating' = {} /\ (~clash' => ~clash /\ Validating = {})
    BY <1>0, <2>1 DEF Validating, Idle
  <2>3. ReviewOK'
    BY <2>1, <2>2 DEF ReviewOK, ProfilesInv
  <2>4. ProfilesOK'
    BY <1>0, <2>1 DEF ProfilesOK, ProfilesTypeOK, ProfileCalls
  <2>5. PayerOK'
    BY <1>0, <2>1 DEF PayerOK, Shown, Idle
  <2> QED BY <2>3, <2>4, <2>5 DEF ProfilesInv
<1>4. ASSUME NEW h \in Handlers, NEW verdict \in Verdicts, ValidateRow(h, verdict) PROVE ProfilesInv'
  <2> DEFINE r == [op |-> "validate", verdict |-> verdict]
  <2>1. /\ Takes(h, r) /\ reviewed' = verdict /\ clash' = (clash \/ Reviewing # {})
        /\ UNCHANGED <<profile, verified, paying, outed>>
    BY <1>4 DEF ValidateRow
  <2>2. r \in ProfileCalls /\ r # Idle
    BY DEF ProfileCalls, Idle
  <2>3. /\ call' \in [Handlers -> ProfileCalls]
        /\ StillConfirming /\ \A k \in Handlers : call'[k] = IF k = h THEN r ELSE call[k]
    BY <2>1, <2>2, ProfileTakes DEF ProfilesInv
  <2>4. ~clash' => Validating' = {h} /\ call'[h].verdict = reviewed'
    <3> SUFFICES ASSUME ~clash' PROVE Validating' = {h} /\ call'[h].verdict = reviewed'
      OBVIOUS
    <3>1. Reviewing = {}
      BY <2>1
    <3>2. \A k \in Handlers : call[k].op # "validate"
      BY <3>1 DEF Reviewing
    <3> QED BY <2>1, <2>3, <3>2 DEF Validating
  <2>5. ReviewOK'
    BY <2>4 DEF ReviewOK
  <2>6. ProfilesOK'
    BY <1>0, <2>1, <2>3 DEF ProfilesOK, ProfilesTypeOK, Verdicts
  <2>7. PayerOK'
    BY <2>1, <2>3 DEF PayerOK, Shown, StillConfirming, ProfilesInv
  <2> QED BY <2>5, <2>6, <2>7 DEF ProfilesInv
<1>5. ASSUME NEW h \in Handlers, ValidateProfile(h) PROVE ProfilesInv'
  <2>1. /\ Ends(h, {"validate"}) /\ clash' = (clash \/ profile.deleted)
        /\ outed' = (outed \/ call[h].verdict = "rejected") /\ UNCHANGED <<verified, paying, reviewed>>
    BY <1>5 DEF ValidateProfile
  <2>2. /\ call' \in [Handlers -> ProfileCalls] /\ NoReviewNew /\ call[h].op = "validate"
        /\ \A k \in Handlers : call'[k] = IF k = h THEN Idle ELSE call[k]
    BY <2>1, ProfileEnds DEF ProfilesInv
  <2>3. call[h].verdict \in Verdicts /\ h \in Validating
    BY <1>0, <2>2 DEF ProfileCalls, Idle, Validating
  <2>4. ~clash => Validating' = {} /\ call[h].verdict = reviewed
    BY <2>2, <2>3 DEF ProfilesInv, ReviewOK, Validating, Idle
  <2>5. CASE profile.deleted
    <3>1. UNCHANGED profile /\ clash' = TRUE
      BY <1>5, <2>1, <2>5 DEF ValidateProfile, PutsLive
    <3>2. ReviewOK'
      BY <3>1 DEF ReviewOK
    <3>3. ProfilesOK'
      BY <1>0, <2>1, <2>2, <3>1 DEF ProfilesOK, ProfilesTypeOK
    <3>4. PayerOK'
      BY <2>2, <2>5, <3>1 DEF PayerOK, ProfilesInv, NoReviewNew
    <3> QED BY <3>2, <3>3, <3>4 DEF ProfilesInv
  <2>6. CASE ~profile.deleted /\ call[h].verdict = "approved"
    <3>1. PICK trial \in {"none", "current", "over"} : profile' = Patched(profile, ApprovalOf(trial))
      BY <1>0, <1>5, <2>6 DEF ValidateProfile, PutsLive, Puts, ProfileRecord
    <3>2. profile' \in ProfileRecord /\ profile'.validated /\ profile'.active /\ profile'.status = "active"
      BY <1>1, <3>1
    <3>3. ReviewOK'
      BY <2>1, <2>4, <2>6 DEF ReviewOK
    <3>4. ProfilesOK'
      BY <1>0, <2>1, <2>2, <3>2 DEF ProfilesOK, ProfilesTypeOK
    <3>5. PayerOK'
      BY <2>2, <3>2 DEF PayerOK, Shown, ProfilesInv, NoReviewNew
    <3> QED BY <3>3, <3>4, <3>5 DEF ProfilesInv
  <2>7. CASE ~profile.deleted /\ call[h].verdict # "approved"
    <3> DEFINE fields == [status |-> "rejected", active |-> FALSE, validated |-> FALSE]
    <3>1. profile' = Patched(profile, fields) /\ outed' = TRUE
      BY <1>5, <2>1, <2>3, <2>7 DEF ValidateProfile, PutsLive, Puts, Verdicts
    <3>2. profile' \in ProfileRecord /\ profile'.validated = FALSE
      BY <1>0, <3>1 DEF Patched, ProfileRecord
    <3>3. ReviewOK'
      BY <2>1, <2>4, <3>2 DEF ReviewOK
    <3>4. ProfilesOK'
      BY <1>0, <2>1, <2>2, <3>1, <3>2 DEF ProfilesOK, ProfilesTypeOK
    <3>5. PayerOK'
      BY <2>2, <3>1 DEF PayerOK, ProfilesInv, NoReviewNew
    <3> QED BY <3>3, <3>4, <3>5 DEF ProfilesInv
  <2> QED BY <2>5, <2>6, <2>7
<1>6. ASSUME NEW h \in Handlers, UpdateProfessional(h) PROVE ProfilesInv'
  <2>1. /\ Ends(h, {"adminUpdate"}) /\ clash' = (clash \/ Reviewing # {h}) /\ outed' = TRUE
        /\ UNCHANGED <<verified, paying>>
    BY <1>6 DEF UpdateProfessional
  <2>2. /\ call' \in [Handlers -> ProfileCalls] /\ NoReviewNew /\ call[h].op = "adminUpdate"
        /\ \A k \in Handlers : call'[k] = IF k = h THEN Idle ELSE call[k]
    BY <2>1, ProfileEnds DEF ProfilesInv
  <2>3. call[h].status \in {"active", "rejected", "suspended", "same"}
    BY <1>0, <2>2 DEF ProfileCalls, Idle
  <2>4. ~clash' => ~clash /\ Validating = {} /\ Validating' = {}
    <3> SUFFICES ASSUME ~clash' PROVE ~clash /\ Validating = {} /\ Validating' = {}
      OBVIOUS
    <3>1. ~clash /\ Reviewing = {h}
      BY <2>1
    <3>2. \A k \in Handlers : call[k].op # "validate"
      BY <2>2, <3>1 DEF Reviewing
    <3> QED BY <2>2, <3>1, <3>2 DEF Validating, Idle
  <2> DEFINE given == call[h].status # "same"
             s == IF call[h].status = "same" THEN profile.status ELSE call[h].status
  <2>5. /\ profile' \in ProfileRecord /\ reviewed' \in {"none", "approved", "rejected"}
        /\ (profile.validated => reviewed = "approved") => (profile'.validated => reviewed' = "approved")
    <3>0. reviewed' = IF profile.deleted \/ ~given \/ s \notin {"active", "rejected"} THEN reviewed
                      ELSE IF s = "active" THEN "approved" ELSE "rejected"
      BY <1>6 DEF UpdateProfessional
    <3>1. CASE profile.deleted
      <4>1. profile' = profile
        BY <1>6, <3>1 DEF UpdateProfessional, PutsLive
      <4>2. reviewed' = reviewed
        BY <3>0, <3>1
      <4> QED BY <1>0, <4>1, <4>2
    <3>2. CASE ~profile.deleted
      <4>1. PICK active \in BOOLEAN, filled \in {profile.filled, {}} :
              profile' = Patched(profile, [status |-> s, active |-> active, filled |-> filled,
                           validated |-> (given /\ s = "active")
                                      \/ (profile.validated /\ ~(given /\ s = "rejected"))])
        BY <1>6, <3>2 DEF UpdateProfessional, PutsLive, Puts
      <4>2. profile.filled \in SUBSET Counted /\ s \in {"onboarding", "waiting_payment", "active",
                                                       "pending_review", "rejected", "suspended"}
        BY <1>0, <2>3 DEF ProfileRecord
      <4>3. PICK valid \in BOOLEAN :
              /\ valid <=> (given /\ s = "active") \/ (profile.validated /\ ~(given /\ s = "rejected"))
              /\ profile' = Patched(profile, [status |-> s, active |-> active, filled |-> filled, validated |-> valid])
        BY <4>1
      <4>4. profile' \in ProfileRecord /\ profile'.validated = valid
        BY <1>0, <4>2, <4>3 DEF Patched, ProfileRecord
      <4>5. CASE ~given
        <5>1. reviewed' = reviewed
          BY <3>0, <4>5
        <5> QED BY <1>0, <4>3, <4>4, <4>5, <5>1
      <4>6. CASE given /\ s = "active"
        <5>1. reviewed' = "approved"
          BY <3>0, <3>2, <4>6
        <5> QED BY <4>4, <5>1
      <4>7. CASE given /\ s = "rejected"
        <5>1. reviewed' = "rejected" /\ ~profile'.validated
          BY <3>0, <3>2, <4>3, <4>4, <4>7
        <5> QED BY <4>4, <5>1
      <4>8. CASE given /\ s \notin {"active", "rejected"}
        <5>1. reviewed' = reviewed
          BY <3>0, <3>2, <4>8
        <5> QED BY <1>0, <4>3, <4>4, <4>8, <5>1
      <4> QED BY <4>5, <4>6, <4>7, <4>8
    <3> QED BY <3>1, <3>2
  <2>6. ReviewOK'
    BY <2>4, <2>5 DEF ReviewOK, ProfilesInv
  <2>7. ProfilesOK'
    BY <1>0, <2>1, <2>2, <2>5 DEF ProfilesOK, ProfilesTypeOK
  <2>8. PayerOK'
    BY <2>1, <2>2 DEF PayerOK, ProfilesInv, NoReviewNew
  <2> QED BY <2>6, <2>7, <2>8 DEF ProfilesInv
<1> QED BY <1>2, <1>3, <1>4, <1>5, <1>6

LEMMA ProfilesStep ==
    ASSUME ProfilesInv, [ProfilesNext]_<<profileVars, serviceVars>>
    PROVE  ProfilesInv'
<1>1. CASE UNCHANGED <<profileVars, serviceVars>>
  BY <1>1 DEF ProfilesInv, ProfilesOK, ProfilesTypeOK, ReviewOK, PayerOK, Shown, Confirming, Validating,
              profileVars, serviceVars
<1>2. CASE ProfilesNext
  BY <1>2, ProfileRowSteps, PaymentSteps, SectionSteps, OtherHandlerSteps, ReviewSteps DEF ProfilesNext, Verdicts
<1> QED BY <1>1, <1>2

LEMMA ProfilesInvariant == ProfilesSpec => []ProfilesInv
  BY ProfilesInitHolds, ProfilesStep, PTL DEF ProfilesSpec

(* No visitor finds a professional whose last review is not an approval,    *)
(* unless reviews overlapped or one was cut short (professionals.service    *)
(* and search.service against admin.service validateProfile).               *)
THEOREM Listings == ProfilesSpec => []ListingsFollowReview
  BY ProfilesInvariant, ListingsFollow, PTL

(* A professional who pays and was approved is in every listing once the    *)
(* confirmation has come to its end, until a review, an admin, an expired   *)
(* trial, or the end of an older subscription takes him out: however        *)
(* logins, the two writes of payments and ends, stops between them and the  *)
(* trials job interleave (auth.service login, subscriptions.service         *)
(* activateFromCheckoutPayment, handlePreapprovalStatusChange).             *)
THEOREM PayerListed == ProfilesSpec => []PayerStaysListed
  BY ProfilesInvariant, PayerFollows, PTL

-----------------------------------------------------------------------------
(* The files of a professional (Files)                                      *)

FileCalls ==
    {Idle} \cup [op : Tasks, at : {"old", "new", "front", "back", "save"}, old : SUBSET FileIds, new : SUBSET FileIds]

(* How far a handler is tells what it has stored.                           *)
Shape(c) ==
    /\ c.at = "old" \/ c.op \in {"deletePhoto", "approval", "deleteDocument"} => c.new = {}
    /\ (c.op = "photo" /\ c.at = "new") \/ (c.op = "identity" /\ c.at = "front") => c.new = {}
    /\ c.op \in {"document", "deleteDocument"} => c.at = "save"
    /\ c.op = "document" => c.old = {}
    /\ c.op = "photo" /\ c.at = "save" => \E f : c.new = {f}
    /\ c.op = "identity" /\ c.at = "back" => \E f : c.new = {f}
    /\ c.op = "identity" /\ c.at = "save" => \E f, b : c.new = {f, b}

(* Photos, identity documents and other documents are of three kinds.       *)
FileKinds == {"photo", "side", "paper"}

FileKind(op) ==
    IF op \in {"photo", "deletePhoto"} THEN "photo" ELSE IF op \in {"identity", "approval"} THEN "side" ELSE "paper"

UrlsOf(kind) ==
    IF kind = "photo" THEN GetPhotoFile ELSE IF kind = "side" THEN GetIdentityFiles ELSE documents

(* The files a handler knows: those it read, those it stored                *)
Old(h) == IF call[h].op \in Tasks THEN call[h].old ELSE {}
New(h) == IF call[h].op \in Tasks THEN call[h].new ELSE {}

IsOf(kind, f) ==
    f \in UrlsOf(kind) \/ \E h \in Handlers : FileKind(call[h].op) = kind /\ f \in Old(h) \cup New(h)

FilesOK ==
    /\ FilesTypeOK /\ call \in [Handlers -> FileCalls]
    /\ \A h \in Handlers : call[h] # Idle => Shape(call[h])
    /\ \A kind \in FileKinds : UrlsOf(kind) \subseteq taken
    /\ \A h \in Handlers : Old(h) \cup New(h) \subseteq taken

FileKindsApart == \A i, j \in FileKinds, f \in FileIds : IsOf(i, f) /\ IsOf(j, f) => i = j

(* What a handler has stored is there, and only it knows it; what it has    *)
(* deleted is gone, or was parted.                                          *)
HeldOK ==
    \A h \in Handlers :
        /\ New(h) \subseteq stored
        /\ \A f \in New(h) : /\ \A kind \in FileKinds : f \notin UrlsOf(kind)
                             /\ \A k \in Handlers : f \notin Old(k) /\ (k # h => f \notin New(k))
        /\ (call[h].op \in Tasks /\ call[h].at # "old" => Old(h) \cap stored \subseteq parted)

(* A file nobody holds and nothing parted is stored exactly if it is named. *)
FilesMatch ==
    \A f \in taken : \/ f \in parted \/ \E h \in Handlers : f \in InHand(h)
                     \/ (f \in stored <=> \E kind \in FileKinds : f \in UrlsOf(kind))

FilesInv == FilesOK /\ FileKindsApart /\ HeldOK /\ FilesMatch

LEMMA FileKindsAre ==
    /\ \A kind \in FileKinds : UrlsOf(kind) \subseteq GetPhotoFile \cup GetIdentityFiles \cup documents
    /\ \A f \in GetPhotoFile \cup GetIdentityFiles \cup documents : \E kind \in FileKinds : f \in UrlsOf(kind)
<1>1. \A f \in GetPhotoFile : f \in UrlsOf("photo")
  BY DEF UrlsOf
<1>2. \A f \in GetIdentityFiles : f \in UrlsOf("side")
  BY DEF UrlsOf
<1>3. \A f \in documents : f \in UrlsOf("paper")
  BY DEF UrlsOf
<1> QED BY <1>1, <1>2, <1>3 DEF FileKinds, UrlsOf

LEMMA FilesInitHolds == FilesInit /\ ServiceInit => FilesInv
<1> SUFFICES ASSUME FilesInit, ServiceInit PROVE FilesInv
  OBVIOUS
<1>1. /\ \A h \in Handlers : call[h] = Idle /\ Old(h) = {} /\ New(h) = {} /\ call[h].op \notin Tasks
      /\ \A kind \in FileKinds : UrlsOf(kind) = {}
  BY DEF FilesInit, ServiceInit, Old, New, Idle, Tasks, UrlsOf, GetPhotoFile, GetIdentityFiles, GetIdentityFile
<1>2. FilesOK
  BY <1>1 DEF FilesInit, ServiceInit, FilesOK, FilesTypeOK, FileCalls, Urls
<1>3. FileKindsApart
  BY <1>1 DEF FileKindsApart, IsOf
<1>4. HeldOK
  BY <1>1 DEF HeldOK
<1>5. FilesMatch
  BY DEF FilesMatch, FilesInit
<1> QED BY <1>2, <1>3, <1>4, <1>5 DEF FilesInv

LEMMA FilesFollow == FilesInv => FilesMatchUrls
<1> SUFFICES ASSUME FilesInv PROVE FilesMatchUrls
  OBVIOUS
<1> DEFINE named == GetPhotoFile \cup GetIdentityFiles \cup documents
           settled == parted \cup UNION {InHand(h) : h \in Handlers}
<1>1. /\ named \subseteq taken /\ stored \subseteq taken
      /\ \A f : f \in named <=> \E kind \in FileKinds : f \in UrlsOf(kind)
  BY FileKindsAre DEF FilesInv, FilesOK, FilesTypeOK
<1>2. ASSUME NEW f \in taken, f \notin settled PROVE f \in stored <=> f \in named
  BY <1>1, <1>2 DEF FilesInv, FilesMatch
<1> HIDE DEF named, settled
<1>3. named \ settled = stored \ settled
  BY <1>1, <1>2
<1> QED BY <1>3 DEF FilesMatchUrls, named, settled

(* A step of one handler, on files of its kind: URLs come from what it has  *)
(* stored, what it knows from URLs or from the names not taken, and what is *)
(* deleted was named or known.                                              *)
LEMMA FilesFrame ==
    ASSUME FilesInv, FilesTypeOK', NEW h \in Handlers, NEW kind \in FileKinds, call' \in [Handlers -> FileCalls],
           \A k \in Handlers \ {h} : call'[k] = call[k],
           call'[h] # Idle => Shape(call'[h]),
           call[h].op \in Tasks => FileKind(call[h].op) = kind,
           call'[h].op \in Tasks => FileKind(call'[h].op) = kind,
           taken \subseteq taken', parted \subseteq parted',
           \A j \in FileKinds \ {kind} : UrlsOf(j)' = UrlsOf(j),
           UrlsOf(kind)' \subseteq UrlsOf(kind) \cup New(h),
           Old(h)' \subseteq Old(h) \cup UrlsOf(kind),
           New(h)' \subseteq New(h) \cup (taken' \ taken),
           New(h)' \subseteq stored' \ UrlsOf(kind)', New(h)' \cap Old(h)' = {},
           stored' \subseteq stored \cup New(h)', stored \ stored' \subseteq Old(h) \cup UrlsOf(kind),
           call'[h].op \in Tasks /\ call'[h].at # "old" => Old(h)' \cap stored' \subseteq parted',
           \A f \in taken' \ (parted' \cup InHand(h)') :
              IF f \in InHand(h) THEN f \in stored' <=> f \in UrlsOf(kind)'
              ELSE f \in taken /\ (f \in stored' <=> f \in stored) /\ (f \in UrlsOf(kind)' <=> f \in UrlsOf(kind))
    PROVE  FilesInv'
<1>1. \A k \in Handlers \ {h} : Old(k)' = Old(k) /\ New(k)' = New(k) /\ InHand(k)' = InHand(k)
  BY DEF Old, New, InHand
<1>2. /\ \A j \in FileKinds : UrlsOf(j) \subseteq taken
      /\ \A k \in Handlers : Old(k) \cup New(k) \subseteq taken
      /\ taken' \subseteq FileIds /\ InHand(h) \subseteq Old(h) \cup New(h)
  BY DEF FilesInv, FilesOK, FilesTypeOK, InHand, Old, New
<1>3. FilesOK'
  <2>1. \A k \in Handlers : call'[k] # Idle => Shape(call'[k])
    BY DEF FilesInv, FilesOK
  <2>2. \A j \in FileKinds : UrlsOf(j)' \subseteq taken'
    BY <1>2
  <2>3. \A k \in Handlers : Old(k)' \cup New(k)' \subseteq taken'
    BY <1>1, <1>2
  <2> QED BY <2>1, <2>2, <2>3 DEF FilesOK, Shape
<1>4. FileKindsApart'
  <2>1. ASSUME NEW j \in FileKinds, NEW f \in FileIds, IsOf(j, f)' PROVE IsOf(j, f) \/ (f \notin taken /\ j = kind)
    <3>1. CASE f \in UrlsOf(j)'
      <4>1. CASE j = kind /\ f \in New(h) /\ f \notin UrlsOf(j)
        <5>1. call[h].op \in Tasks /\ FileKind(call[h].op) = j
          BY <4>1 DEF New
        <5> QED BY <4>1, <5>1 DEF IsOf
      <4> QED BY <3>1, <4>1 DEF IsOf
    <3>2. ASSUME NEW k \in Handlers, FileKind(call'[k].op) = j, f \in Old(k)' \cup New(k)'
          PROVE  IsOf(j, f) \/ (f \notin taken /\ j = kind)
      <4>1. CASE k # h
        <5>1. call'[k] = call[k] /\ f \in Old(k) \cup New(k)
          BY <1>1, <3>2, <4>1
        <5> QED BY <3>2, <5>1 DEF IsOf
      <4>2. CASE k = h
        <5>1. call'[h].op \in Tasks /\ j = kind
          BY <3>2, <4>2 DEF Old, New
        <5>2. f \in Old(h) \cup New(h) \/ f \in UrlsOf(kind) \/ f \notin taken
          BY <3>2, <4>2
        <5>3. f \in Old(h) \cup New(h) => FileKind(call[h].op) = kind
          BY DEF Old, New
        <5> QED BY <5>1, <5>2, <5>3 DEF IsOf
      <4> QED BY <4>1, <4>2
    <3> QED BY <2>1, <3>1, <3>2 DEF IsOf
  <2>2. \A j \in FileKinds, f \in FileIds : IsOf(j, f) => f \in taken
    BY <1>2 DEF IsOf
  <2>3. \A i, j \in FileKinds, f \in FileIds : IsOf(i, f) /\ IsOf(j, f) => i = j
    BY DEF FilesInv, FileKindsApart
  <2>4. \A i, j \in FileKinds, f \in FileIds : IsOf(i, f)' /\ IsOf(j, f)' => i = j
    BY <2>1, <2>2, <2>3
  <2> QED BY <2>4 DEF FileKindsApart
<1>5. \A f \in FileIds : f \in Old(h) \cup New(h) => \A j \in FileKinds \ {kind} : f \notin UrlsOf(j)
  <2>1. ASSUME NEW f \in FileIds, f \in Old(h) \cup New(h) PROVE IsOf(kind, f)
    BY <2>1 DEF IsOf, Old, New
  <2>2. ASSUME NEW f \in FileIds, NEW j \in FileKinds, f \in UrlsOf(j) PROVE IsOf(j, f)
    BY <2>2 DEF IsOf
  <2> QED BY <2>1, <2>2 DEF FilesInv, FileKindsApart
<1>6. /\ \A k \in Handlers : New(k) \subseteq stored
      /\ \A k \in Handlers : \A f \in New(k) : \A j \in FileKinds : f \notin UrlsOf(j)
      /\ \A k, l \in Handlers : New(k) \cap Old(l) = {} /\ (l # k => New(k) \cap New(l) = {})
      /\ \A k \in Handlers : call[k].op \in Tasks /\ call[k].at # "old" => Old(k) \cap stored \subseteq parted
  BY DEF FilesInv, HeldOK
<1>7. HeldOK'
  <2>1. \A k \in Handlers \ {h} : New(h)' \cap New(k) = {} /\ New(h)' \cap Old(k) = {} /\ New(k) \cap Old(h)' = {}
    <3>1. \A k \in Handlers \ {h} : /\ New(h) \cap New(k) = {} /\ New(h) \cap Old(k) = {} /\ New(k) \cap Old(h) = {}
                                    /\ New(k) \cap UrlsOf(kind) = {} /\ New(k) \cup Old(k) \subseteq taken
      BY <1>2, <1>6
    <3> QED BY <3>1
  <2>2. \A k \in Handlers \ {h} : New(k) \subseteq stored'
    <3>1. \A k \in Handlers \ {h} : /\ New(k) \subseteq stored /\ New(k) \cap Old(h) = {}
                                    /\ New(k) \cap UrlsOf(kind) = {}
      BY <1>6
    <3> QED BY <3>1
  <2>3. \A k \in Handlers : \A f \in New(k)' : \A j \in FileKinds : f \notin UrlsOf(j)'
    <3>1. \A j \in FileKinds \ {kind} : New(h)' \cap UrlsOf(j) = {}
      BY <1>2, <1>6
    <3>2. \A k \in Handlers \ {h} : New(k) \cap New(h) = {} /\ \A j \in FileKinds : New(k) \cap UrlsOf(j) = {}
      BY <1>6
    <3>3. \A k \in Handlers \ {h}, j \in FileKinds : New(k) \cap UrlsOf(j)' = {}
      BY <3>2
    <3> QED BY <1>1, <3>1, <3>3
  <2>4. \A k, l \in Handlers : New(k)' \cap Old(l)' = {} /\ (l # k => New(k)' \cap New(l)' = {})
    BY <1>1, <1>6, <2>1
  <2>5. \A k \in Handlers \ {h} : call[k].op \in Tasks /\ call[k].at # "old" => Old(k) \cap stored' \subseteq parted'
    <3>1. \A k \in Handlers \ {h} : Old(k) \cap New(h)' = {}
      BY <2>1
    <3>2. \A k \in Handlers \ {h} : Old(k) \cap stored' \subseteq Old(k) \cap stored
      BY <3>1
    <3> QED BY <1>6, <3>2
  <2>6. \A k \in Handlers : New(k)' \subseteq stored'
    BY <1>1, <2>2
  <2>7. \A k \in Handlers : call'[k].op \in Tasks /\ call'[k].at # "old" => Old(k)' \cap stored' \subseteq parted'
    BY <1>1, <2>5
  <2> QED BY <2>3, <2>4, <2>6, <2>7 DEF HeldOK
<1>8. FilesMatch'
  <2> SUFFICES ASSUME NEW f \in taken', f \notin parted', \A k \in Handlers : f \notin InHand(k)'
               PROVE  (f \in stored <=> \E j \in FileKinds : f \in UrlsOf(j))'
    BY DEF FilesMatch
  <2>1. f \in stored' <=> \E j \in FileKinds : f \in UrlsOf(j)'
    <3>1. CASE f \in InHand(h)
      <4>1. \A j \in FileKinds \ {kind} : f \notin UrlsOf(j)'
        BY <1>2, <1>5, <3>1
      <4> QED BY <3>1, <4>1
    <3>2. CASE f \notin InHand(h)
      <4>1. \A k \in Handlers : f \notin InHand(k)
        BY <1>1, <3>2
      <4>2. f \in taken /\ f \notin parted
        BY <3>2
      <4>3. f \in stored <=> \E j \in FileKinds : f \in UrlsOf(j)
        BY <4>1, <4>2 DEF FilesInv, FilesMatch
      <4> QED BY <3>2, <4>3
    <3> QED BY <3>1, <3>2
  <2> QED BY <2>1
<1> QED BY <1>3, <1>4, <1>7, <1>8 DEF FilesInv
-----------------------------------------------------------------------------
LEMMA FileKindOfOps == \A op \in Tasks : FileKind(op) \in FileKinds
  BY DEF FileKind, FileKinds

LEMMA UrlsKept ==
    /\ UNCHANGED photo => UrlsOf("photo")' = UrlsOf("photo")
    /\ UNCHANGED <<front, back>> => UrlsOf("side")' = UrlsOf("side")
    /\ UNCHANGED documents => UrlsOf("paper")' = UrlsOf("paper")
  BY DEF UrlsOf, GetPhotoFile, GetIdentityFiles, GetIdentityFile

(* What is known of a handler, and of one that moves on                     *)
LEMMA OfBusy ==
    ASSUME FilesInv, NEW h \in Handlers, call[h].op \in Tasks
    PROVE  /\ call[h] \in FileCalls \ {Idle} /\ Shape(call[h]) /\ FileKind(call[h].op) \in FileKinds
           /\ Old(h) = call[h].old /\ New(h) = call[h].new
           /\ New(h) \subseteq stored /\ New(h) \cap Old(h) = {} /\ Old(h) \cup New(h) \subseteq taken
           /\ \A kind \in FileKinds : New(h) \cap UrlsOf(kind) = {}
           /\ (call[h].at # "old" => InHand(h) = Old(h) \cup New(h) /\ Old(h) \cap stored \subseteq parted)
           /\ (call[h].at = "old" => InHand(h) = {} /\ New(h) = {})
<1>1. call[h] # Idle
  BY DEF Idle, Tasks
<1>2. Old(h) = call[h].old /\ New(h) = call[h].new
  BY DEF Old, New
<1>3. Shape(call[h]) /\ call[h] \in FileCalls
  BY <1>1 DEF FilesInv, FilesOK
<1> QED BY <1>1, <1>2, <1>3, FileKindOfOps DEF FilesInv, FilesOK, HeldOK, InHand, Shape

LEMMA OfIdle ==
    ASSUME NEW h \in Handlers, call[h] = Idle
    PROVE  Old(h) = {} /\ New(h) = {} /\ InHand(h) = {} /\ call[h].op \notin Tasks
  BY DEF Old, New, InHand, Idle, Tasks

LEMMA FileMoves ==
    ASSUME FilesInv, NEW h \in Handlers, NEW r \in FileCalls, call' = [call EXCEPT ![h] = r]
    PROVE  /\ call' \in [Handlers -> FileCalls] /\ call'[h] = r /\ \A k \in Handlers \ {h} : call'[k] = call[k]
           /\ (r = Idle => r.op \notin Tasks /\ Old(h)' = {} /\ New(h)' = {} /\ InHand(h)' = {})
           /\ (r # Idle => /\ r.op \in Tasks /\ Old(h)' = r.old /\ New(h)' = r.new
                           /\ InHand(h)' = IF r.at = "old" THEN {} ELSE r.old \cup r.new)
<1>1. call' \in [Handlers -> FileCalls] /\ call'[h] = r /\ \A k \in Handlers \ {h} : call'[k] = call[k]
  BY DEF FilesInv, FilesOK
<1>2. r = Idle \/ r.op \in Tasks
  BY DEF FileCalls
<1>3. Idle.op \notin Tasks
  BY DEF Idle, Tasks
<1> QED BY <1>1, <1>2, <1>3 DEF Old, New, InHand

(* A handler takes a request, goes on, is done.                             *)
LEMMA FilesTake ==
    ASSUME FilesInv, FilesTypeOK', NEW h \in Handlers, NEW r \in FileCalls, call[h] = Idle, r # Idle, Shape(r),
           call' = [call EXCEPT ![h] = r], UNCHANGED <<photo, front, back, documents>>,
           parted \subseteq parted', taken' = taken \cup r.new, r.new \cap taken = {},
           r.old \subseteq UrlsOf(FileKind(r.op)), r.new \subseteq stored', stored' \subseteq stored \cup r.new,
           stored \ stored' \subseteq r.old, r.at # "old" => r.old \cap stored' \subseteq parted',
           r.at = "old" => stored' = stored
    PROVE  FilesInv'
<1>1. /\ call' \in [Handlers -> FileCalls] /\ call'[h] = r /\ \A k \in Handlers \ {h} : call'[k] = call[k]
      /\ r.op \in Tasks /\ Old(h)' = r.old /\ New(h)' = r.new
      /\ InHand(h)' = IF r.at = "old" THEN {} ELSE r.old \cup r.new
  BY FileMoves
<1>2. Old(h) = {} /\ New(h) = {} /\ InHand(h) = {} /\ call[h].op \notin Tasks
  BY OfIdle
<1>3. PICK kind \in FileKinds : kind = FileKind(r.op)
  BY <1>1, FileKindOfOps
<1>4. /\ \A j \in FileKinds : UrlsOf(j)' = UrlsOf(j) /\ UrlsOf(j) \subseteq taken
      /\ UrlsOf(kind)' = UrlsOf(kind) /\ r.old \subseteq UrlsOf(kind) /\ r.old \subseteq taken
  BY <1>3, UrlsKept DEF FileKinds, FilesInv, FilesOK
<1>5. \A f \in taken' \ (parted' \cup InHand(h)') :
         f \in taken /\ (f \in stored' <=> f \in stored) /\ (f \in UrlsOf(kind)' <=> f \in UrlsOf(kind))
  <2>1. CASE r.at = "old"
    BY <1>1, <1>4, <2>1 DEF Shape
  <2>2. CASE r.at # "old"
    BY <1>1, <1>4, <2>2
  <2> QED BY <2>1, <2>2
<1> QED BY <1>1, <1>2, <1>3, <1>4, <1>5, FilesFrame

LEMMA FilesGo ==
    ASSUME FilesInv, FilesTypeOK', NEW h \in Handlers, NEW r \in FileCalls, call[h].op \in Tasks, r # Idle, Shape(r),
           call' = [call EXCEPT ![h] = r], UNCHANGED <<photo, front, back, documents>>,
           r.op = call[h].op, r.old = call[h].old, r.at # "old", call[h].new \subseteq r.new,
           parted \subseteq parted', taken' = taken \cup r.new, r.new \cap taken \subseteq call[h].new,
           r.new \subseteq stored', stored' \subseteq stored \cup r.new,
           stored \ stored' \subseteq r.old, r.old \cap stored' \subseteq parted'
    PROVE  FilesInv'
<1>1. /\ call' \in [Handlers -> FileCalls] /\ call'[h] = r /\ \A k \in Handlers \ {h} : call'[k] = call[k]
      /\ r.op \in Tasks /\ Old(h)' = r.old /\ New(h)' = r.new /\ InHand(h)' = r.old \cup r.new
  BY FileMoves
<1>2. /\ Old(h) = r.old /\ New(h) = call[h].new /\ InHand(h) \subseteq Old(h) \cup New(h)
      /\ Old(h) \cup New(h) \subseteq taken /\ New(h) \cap Old(h) = {}
      /\ \A j \in FileKinds : New(h) \cap UrlsOf(j) = {}
  BY OfBusy
<1>3. PICK kind \in FileKinds : kind = FileKind(r.op)
  BY <1>1, FileKindOfOps
<1>4. /\ \A j \in FileKinds : UrlsOf(j)' = UrlsOf(j) /\ UrlsOf(j) \subseteq taken
      /\ UrlsOf(kind)' = UrlsOf(kind)
  BY <1>3, UrlsKept DEF FileKinds, FilesInv, FilesOK
<1>5. r.new \cap UrlsOf(kind) = {} /\ r.new \cap r.old = {}
  BY <1>2, <1>3, <1>4
<1>6. \A f \in taken' \ (parted' \cup InHand(h)') :
         /\ f \notin InHand(h) /\ f \in taken /\ (f \in stored' <=> f \in stored)
         /\ (f \in UrlsOf(kind)' <=> f \in UrlsOf(kind))
  BY <1>1, <1>2, <1>4
<1> QED BY <1>1, <1>2, <1>3, <1>4, <1>5, <1>6, FilesFrame

LEMMA FilesEnd ==
    ASSUME FilesInv, FilesTypeOK', NEW h \in Handlers, NEW kind \in FileKinds, call[h].op \in Tasks,
           call' = [call EXCEPT ![h] = Idle], kind = FileKind(call[h].op), taken' = taken, parted \subseteq parted',
           \A j \in FileKinds \ {kind} : UrlsOf(j)' = UrlsOf(j), UrlsOf(kind)' \subseteq UrlsOf(kind) \cup call[h].new,
           stored' \subseteq stored, stored \ stored' \subseteq call[h].old,
           \A f \in taken \ parted' :
              IF f \in InHand(h) THEN f \in stored' <=> f \in UrlsOf(kind)'
              ELSE (f \in stored' <=> f \in stored) /\ (f \in UrlsOf(kind)' <=> f \in UrlsOf(kind))
    PROVE  FilesInv'
<1>1. /\ call' \in [Handlers -> FileCalls] /\ call'[h] = Idle /\ \A k \in Handlers \ {h} : call'[k] = call[k]
      /\ Idle.op \notin Tasks /\ Old(h)' = {} /\ New(h)' = {} /\ InHand(h)' = {}
  <2>1. Idle \in FileCalls
    BY DEF FileCalls
  <2> QED BY <2>1, FileMoves
<1>2. Old(h) = call[h].old /\ New(h) = call[h].new
  BY OfBusy
<1>3. \A f \in taken' \ (parted' \cup InHand(h)') :
         IF f \in InHand(h) THEN f \in stored' <=> f \in UrlsOf(kind)'
         ELSE f \in taken /\ (f \in stored' <=> f \in stored) /\ (f \in UrlsOf(kind)' <=> f \in UrlsOf(kind))
  BY <1>1
<1> QED BY <1>1, <1>2, <1>3, FilesFrame

LEMMA CutShortKeeps == ASSUME FilesInv, NEW h \in Handlers, CutShort(h) PROVE FilesInv'
<1>1. call[h].op \in Tasks /\ call' = [call EXCEPT ![h] = Idle]
  BY DEF CutShort, Ends
<1>2. PICK kind \in FileKinds : kind = FileKind(call[h].op)
  BY <1>1, FileKindOfOps
<1>3. FilesTypeOK'
  BY <1>1, OfBusy DEF CutShort, FilesInv, FilesOK, FilesTypeOK, InHand
<1>4. \A j \in FileKinds : UrlsOf(j)' = UrlsOf(j)
  BY UrlsKept DEF CutShort, FileKinds
<1>5. taken' = taken /\ stored' = stored /\ parted' = parted \cup InHand(h)
  BY DEF CutShort
<1> QED BY <1>1, <1>2, <1>3, <1>4, <1>5, FilesEnd

(* The records of the handlers                                              *)
LEMMA FileTasks ==
    ASSUME FilesInv, NEW op \in Tasks, NEW old \in SUBSET FileIds
    PROVE  Task(op, old) \in FileCalls \ {Idle} /\ (op \notin {"document", "deleteDocument"} => Shape(Task(op, old)))
<1>1. Task(op, old) \in FileCalls
  BY DEF FileCalls, Task
<1>2. Task(op, old) # Idle
  BY DEF Task, Idle
<1> QED BY <1>1, <1>2 DEF Task, Shape

LEMMA FilesTypes ==
    ASSUME FilesInv
    PROVE  /\ \A kind \in FileKinds : UrlsOf(kind) \subseteq taken /\ UrlsOf(kind) \subseteq FileIds
           /\ taken \subseteq FileIds /\ stored \subseteq taken /\ parted \subseteq taken /\ documents \subseteq taken
           /\ {photo, front, back} \subseteq Urls
           /\ UrlsOf("photo") = GetPhotoFile /\ UrlsOf("side") = GetIdentityFiles /\ UrlsOf("paper") = documents
           /\ {"photo", "side", "paper"} = FileKinds
  BY DEF FilesInv, FilesOK, FilesTypeOK, UrlsOf, FileKinds

(* PhotoReads, DeletePhotoReads, IdentityReads, ApprovalReads               *)
LEMMA ReadSteps ==
    ASSUME FilesInv, NEW h \in Handlers,
           PhotoReads(h) \/ DeletePhotoReads(h) \/ IdentityReads(h) \/ ApprovalReads(h)
    PROVE  FilesInv'
<1>1. PICK op \in {"photo", "deletePhoto", "identity", "approval"} :
         Takes(h, Task(op, UrlsOf(FileKind(op)))) /\ UNCHANGED fileVars
  BY FilesTypes DEF PhotoReads, DeletePhotoReads, IdentityReads, ApprovalReads, FileKind
<1> DEFINE old == UrlsOf(FileKind(op))
           r == Task(op, old)
<1>2. op \in Tasks /\ old \in SUBSET FileIds /\ op \notin {"document", "deleteDocument"}
  BY FileKindOfOps, FilesTypes DEF Tasks
<1>3. r \in FileCalls /\ r # Idle /\ Shape(r)
  BY <1>2, FileTasks
<1>4. r.op = op /\ r.old = old /\ r.new = {} /\ r.at = "old"
  BY DEF Task
<1>5. call[h] = Idle /\ call' = [call EXCEPT ![h] = r]
  BY <1>1 DEF Takes
<1>6. /\ FilesTypeOK' /\ taken' = taken /\ stored' = stored /\ parted' = parted
      /\ UNCHANGED <<photo, front, back, documents>>
  BY <1>1 DEF fileVars, FilesInv, FilesOK, FilesTypeOK
<1> HIDE DEF r
<1> QED BY <1>3, <1>4, <1>5, <1>6, FilesTake

(* What was read goes.                                                      *)
LEMMA DeletionSteps ==
    ASSUME FilesInv, NEW h \in Handlers,
           PhotoDeletesOld(h) \/ DeletePhotoFile(h) \/ DeleteIdentityFiles(h)
             \/ (/\ IdentityDeletesOld(h) /\ UNCHANGED parted /\ Removes(call[h].old)
                 /\ GoesOn(h, "identity", [call[h] EXCEPT !.at = "front"]))
    PROVE  FilesInv'
<1>1. PICK at \in {"new", "save", "front"} :
         /\ call[h].op \in {"photo", "deletePhoto", "approval", "identity"} /\ call[h].at = "old"
         /\ call' = [call EXCEPT ![h] = [call[h] EXCEPT !.at = at]]
         /\ at = "save" => call[h].op \in {"deletePhoto", "approval"}
         /\ at = "new" => call[h].op = "photo"
         /\ at = "front" => call[h].op = "identity"
  BY DEF PhotoDeletesOld, DeletePhotoFile, DeleteIdentityFiles, IdentityDeletesOld, GoesOn
<1>2. PICK files \in SUBSET call[h].old : Removes(files) /\ parted' = parted \cup (call[h].old \ files)
  <2>1. call[h].old \in SUBSET call[h].old /\ parted \cup (call[h].old \ call[h].old) = parted
    OBVIOUS
  <2> QED BY <2>1 DEF PhotoDeletesOld, DeletePhotoFile, DeleteIdentityFiles, IdentityDeletesOld
<1>3. UNCHANGED <<photo, front, back, documents>>
  BY DEF PhotoDeletesOld, DeletePhotoFile, DeleteIdentityFiles, IdentityDeletesOld
<1>4. /\ call[h] \in FileCalls \ {Idle} /\ call[h].op \in Tasks /\ call[h].new = {} /\ call[h].old \subseteq taken
  BY <1>1, OfBusy DEF Tasks
<1> DEFINE r == [call[h] EXCEPT !.at = at]
<1>5. /\ r \in FileCalls /\ r.op = call[h].op /\ r.old = call[h].old /\ r.new = call[h].new /\ r.at = at
  BY <1>1, <1>4 DEF FileCalls
<1>6. r # Idle /\ Shape(r)
  BY <1>1, <1>4, <1>5 DEF Shape, Idle, Tasks
<1>7. FilesTypeOK' /\ taken' = taken /\ stored' = stored \ files
  BY <1>2, <1>3, <1>4 DEF Removes, FilesInv, FilesOK, FilesTypeOK
<1> HIDE DEF r
<1>8. call' = [call EXCEPT ![h] = r]
  BY <1>1 DEF r
<1> QED BY <1>1, <1>2, <1>3, <1>4, <1>5, <1>6, <1>7, <1>8, FilesGo

(* A new file is stored.                                                    *)
LEMMA StoringSteps ==
    ASSUME FilesInv, NEW h \in Handlers, PhotoStores(h) \/ IdentityStores(h)
    PROVE  FilesInv'
<1>1. PICK f \in FileIds : Stores(f) /\ \E at \in {"save", "back"} :
         /\ call[h].op \in {"photo", "identity"}
         /\ call' = [call EXCEPT ![h] = [call[h] EXCEPT !.at = at, !.new = call[h].new \cup {f}]]
         /\ call[h].op = "photo" => call[h].at = "new" /\ at = "save"
         /\ call[h].op = "identity" => \/ call[h].at = "front" /\ at = "back"
                                       \/ call[h].at = "back" /\ at = "save"
  <2>1. CASE PhotoStores(h)
    <3>1. call[h].op = "photo" /\ call[h].at = "new"
      BY <2>1 DEF PhotoStores
    <3>2. call[h].new = {}
      BY <3>1, OfBusy DEF Tasks, Shape
    <3>3. PICK f \in FileIds : Stores(f) /\ GoesOn(h, "photo", [call[h] EXCEPT !.at = "save", !.new = {f}])
      BY <2>1 DEF PhotoStores
    <3>4. call[h].new \cup {f} = {f}
      BY <3>2
    <3>5. call' = [call EXCEPT ![h] = [call[h] EXCEPT !.at = "save", !.new = call[h].new \cup {f}]]
      BY <3>3, <3>4 DEF GoesOn
    <3> QED BY <3>1, <3>3, <3>5
  <2>2. CASE IdentityStores(h)
    <3>1. call[h].op = "identity"
      BY <2>2 DEF IdentityStores
    <3>2. PICK f \in FileIds : Stores(f) /\ 
             \/ call[h].at = "front" /\ GoesOn(h, "identity", [call[h] EXCEPT !.at = "back", !.new = {f}])
             \/ call[h].at = "back"  /\ GoesOn(h, "identity", [call[h] EXCEPT !.at = "save", !.new = @ \cup {f}])
      BY <2>2 DEF IdentityStores
    <3>3. CASE call[h].at = "front" /\ GoesOn(h, "identity", [call[h] EXCEPT !.at = "back", !.new = {f}])
      <4>1. call[h].new \cup {f} = {f}
        BY <3>1, <3>3, OfBusy DEF Tasks, Shape
      <4>2. call' = [call EXCEPT ![h] = [call[h] EXCEPT !.at = "back", !.new = call[h].new \cup {f}]]
        BY <3>3, <4>1 DEF GoesOn
      <4> QED BY <3>1, <3>2, <3>3, <4>2
    <3>4. CASE call[h].at = "back"  /\ GoesOn(h, "identity", [call[h] EXCEPT !.at = "save", !.new = @ \cup {f}])
      <4>1. call' = [call EXCEPT ![h] = [call[h] EXCEPT !.at = "save", !.new = call[h].new \cup {f}]]
        BY <3>4 DEF GoesOn
      <4> QED BY <3>1, <3>2, <3>4, <4>1
    <3> QED BY <3>2, <3>3, <3>4
  <2> QED BY <2>1, <2>2
<1>2. PICK at \in {"save", "back"} :
         /\ call[h].op \in {"photo", "identity"}
         /\ call' = [call EXCEPT ![h] = [call[h] EXCEPT !.at = at, !.new = call[h].new \cup {f}]]
         /\ call[h].op = "photo" => call[h].at = "new" /\ at = "save"
         /\ call[h].op = "identity" => \/ call[h].at = "front" /\ at = "back"
                                       \/ call[h].at = "back" /\ at = "save"
  BY <1>1
<1>3. /\ call[h] \in FileCalls \ {Idle} /\ call[h].op \in Tasks /\ Shape(call[h])
      /\ call[h].new \subseteq stored /\ call[h].old \cup call[h].new \subseteq taken /\ call[h].at # "old"
      /\ call[h].old \cap stored \subseteq parted
  BY <1>2, OfBusy DEF Tasks
<1> DEFINE r == [call[h] EXCEPT !.at = at, !.new = call[h].new \cup {f}]
<1>4. /\ r \in FileCalls /\ r.op = call[h].op /\ r.old = call[h].old /\ r.new = call[h].new \cup {f} /\ r.at = at
  BY <1>2, <1>3 DEF FileCalls
<1>5. r # Idle
  BY <1>3, <1>4 DEF Idle, Tasks
<1>6. Shape(r)
  <2>1. CASE call[h].op = "photo"
    <3>1. r.new = {f}
      BY <1>2, <1>3, <1>4, <2>1 DEF Shape
    <3> QED BY <1>2, <1>4, <2>1, <3>1 DEF Shape
  <2>2. CASE call[h].op = "identity" /\ at = "back"
    <3>1. r.new = {f}
      BY <1>2, <1>3, <1>4, <2>2 DEF Shape
    <3> QED BY <1>2, <1>4, <2>2, <3>1 DEF Shape
  <2>3. CASE call[h].op = "identity" /\ at = "save"
    <3>1. PICK g : call[h].new = {g}
      BY <1>2, <1>3, <2>3 DEF Shape
    <3>2. r.new = {g, f}
      BY <1>4, <3>1
    <3> QED BY <1>2, <1>4, <2>3, <3>2 DEF Shape
  <2> QED BY <1>2, <2>1, <2>2, <2>3
<1>7. f \notin taken /\ stored' = stored \cup {f} /\ taken' = taken \cup {f}
  BY <1>1 DEF Stores, Fresh
<1>8. UNCHANGED <<photo, front, back, documents, parted>>
  BY DEF PhotoStores, IdentityStores
<1>9. FilesTypeOK'
  BY <1>7, <1>8 DEF FilesInv, FilesOK, FilesTypeOK
<1> HIDE DEF r
<1>10. call' = [call EXCEPT ![h] = r]
  BY <1>2 DEF r
<1>11. taken' = taken \cup r.new /\ r.new \subseteq stored' /\ stored' \subseteq stored \cup r.new
       /\ r.old \cap stored' \subseteq parted' /\ r.new \cap taken \subseteq call[h].new
  BY <1>3, <1>4, <1>7, <1>8
<1> QED BY <1>2, <1>3, <1>4, <1>5, <1>6, <1>7, <1>8, <1>9, <1>10, <1>11, FilesGo

(* The URLs are written, over whatever the row names by now.                *)
LEMMA PhotoEndSteps ==
    ASSUME FilesInv, NEW h \in Handlers, PhotoSaves(h) \/ DeletePhotoSaves(h)
    PROVE  FilesInv'
<1>1. /\ call[h].op \in {"photo", "deletePhoto"} /\ call[h].at = "save" /\ call' = [call EXCEPT ![h] = Idle]
      /\ UNCHANGED <<stored, taken, front, back, documents>>
      /\ parted' = parted \cup (UrlsOf("photo") \ call[h].old)
  BY FilesTypes DEF PhotoSaves, DeletePhotoSaves, Ends, Overwrites
<1>2. /\ call[h].op \in Tasks /\ FileKind(call[h].op) = "photo" /\ "photo" \in FileKinds
      /\ InHand(h) = call[h].old \cup call[h].new /\ call[h].old \cap stored \subseteq parted
      /\ call[h].new \subseteq stored /\ call[h].new \subseteq taken /\ call[h].new \cap call[h].old = {}
  BY <1>1, OfBusy DEF Tasks, FileKind, FileKinds
<1>3. GetPhotoFile' = call[h].new /\ photo' \in Urls
  <2>1. CASE PhotoSaves(h)
    <3>1. PICK f : call[h].new = {f}
      BY <2>1, OfBusy DEF PhotoSaves, Tasks, Shape
    <3>2. f \in FileIds /\ f # 0 /\ photo' = f
      BY <1>2, <2>1, <3>1, FilesTypes, FilesAssumption DEF PhotoSaves
    <3> QED BY <3>1, <3>2 DEF GetPhotoFile, Urls
  <2>2. CASE DeletePhotoSaves(h)
    <3>1. call[h].new = {}
      BY <2>2, OfBusy DEF DeletePhotoSaves, Tasks, Shape
    <3> QED BY <2>2, <3>1 DEF DeletePhotoSaves, GetPhotoFile, Urls
  <2> QED BY <2>1, <2>2
<1>4. FilesTypeOK'
  BY <1>1, <1>3, FilesTypes DEF FilesTypeOK
<1>5. UrlsOf("photo")' = call[h].new /\ UrlsOf("side")' = UrlsOf("side") /\ UrlsOf("paper")' = UrlsOf("paper")
  BY <1>1, <1>3, UrlsKept DEF UrlsOf
<1>6. \A f \in taken \ parted' :
         IF f \in InHand(h) THEN f \in stored' <=> f \in UrlsOf("photo")'
         ELSE (f \in stored' <=> f \in stored) /\ (f \in UrlsOf("photo")' <=> f \in UrlsOf("photo"))
  BY <1>1, <1>2, <1>5
<1>7. \A j \in FileKinds \ {"photo"} : UrlsOf(j)' = UrlsOf(j)
  BY <1>5 DEF FileKinds
<1> QED BY <1>1, <1>2, <1>4, <1>5, <1>6, <1>7, FilesEnd

LEMMA SideEndSteps ==
    ASSUME FilesInv, NEW h \in Handlers, IdentitySaves(h) \/ IdentityCleared(h)
    PROVE  FilesInv'
<1>1. /\ call[h].op \in {"identity", "approval"} /\ call[h].at = "save" /\ call' = [call EXCEPT ![h] = Idle]
      /\ UNCHANGED <<stored, taken, photo, documents>>
  BY DEF IdentitySaves, IdentityCleared, Ends
<1>2. /\ call[h].op \in Tasks /\ FileKind(call[h].op) = "side" /\ "side" \in FileKinds
      /\ InHand(h) = call[h].old \cup call[h].new /\ call[h].old \cap stored \subseteq parted
      /\ call[h].new \subseteq stored /\ call[h].new \subseteq taken /\ call[h].old \subseteq taken
      /\ call[h].new \cap call[h].old = {}
  BY <1>1, OfBusy DEF Tasks, FileKind, FileKinds
<1>3. \/ /\ GetIdentityFiles' = call[h].new /\ {front', back'} \subseteq Urls
         /\ parted' = parted \cup (UrlsOf("side") \ call[h].old)
      \/ /\ GetIdentityFiles' = GetIdentityFiles /\ {front', back'} \subseteq Urls
         /\ parted' = parted /\ InHand(h) = {}
  <2>1. CASE IdentitySaves(h)
    <3>1. PICK x, y : call[h].new = {x, y}
      BY <2>1, OfBusy DEF IdentitySaves, Tasks, Shape
    <3>2. PICK f, b \in call[h].new : f < b /\ front' = f /\ back' = b
      BY <2>1 DEF IdentitySaves
    <3>3. f \in FileIds /\ b \in FileIds /\ f # 0 /\ b # 0 /\ f # b
      <4>1. f \in FileIds /\ b \in FileIds
        BY <1>2, FilesTypes
      <4>2. f \in Nat /\ b \in Nat /\ f # 0 /\ b # 0
        BY <4>1, FilesAssumption
      <4> QED BY <3>2, <4>1, <4>2
    <3>4. call[h].new = {f, b}
      BY <3>1, <3>2, <3>3
    <3> QED BY <2>1, <3>2, <3>3, <3>4, FilesTypes DEF GetIdentityFiles, GetIdentityFile, Urls, IdentitySaves, Overwrites
  <2>2. CASE IdentityCleared(h) /\ call[h].old # {}
    <3>1. call[h].new = {}
      BY <2>2, OfBusy DEF IdentityCleared, Tasks, Shape
    <3> QED BY <2>2, <3>1, FilesTypes DEF IdentityCleared, GetIdentityFiles, GetIdentityFile, Urls, Overwrites
  <2>3. CASE IdentityCleared(h) /\ call[h].old = {}
    <3>1. call[h].new = {}
      BY <2>3, OfBusy DEF IdentityCleared, Tasks, Shape
    <3> QED BY <1>2, <2>3, <3>1, FilesTypes DEF IdentityCleared, GetIdentityFiles, GetIdentityFile, Urls
  <2> QED BY <2>1, <2>2, <2>3
<1>4. FilesTypeOK'
  BY <1>1, <1>3, FilesTypes DEF FilesTypeOK
<1>5. UrlsOf("photo")' = UrlsOf("photo") /\ UrlsOf("paper")' = UrlsOf("paper") /\ UrlsOf("side")' = GetIdentityFiles'
  BY <1>1, UrlsKept DEF UrlsOf
<1>6. \A f \in taken \ parted' :
         IF f \in InHand(h) THEN f \in stored' <=> f \in UrlsOf("side")'
         ELSE (f \in stored' <=> f \in stored) /\ (f \in UrlsOf("side")' <=> f \in UrlsOf("side"))
  BY <1>1, <1>2, <1>3, <1>5, FilesTypes
<1>7. \A j \in FileKinds \ {"side"} : UrlsOf(j)' = UrlsOf(j)
  BY <1>5 DEF FileKinds
<1>8. UrlsOf("side")' \subseteq UrlsOf("side") \cup call[h].new /\ parted \subseteq parted'
  BY <1>3, <1>5, FilesTypes
<1> QED BY <1>1, <1>2, <1>4, <1>6, <1>7, <1>8, FilesEnd

(* A deletion cut between the two files                                     *)
LEMMA CutDeletion ==
    ASSUME FilesInv, NEW h \in Handlers, call[h].op = "identity", call[h].at = "old", Ends(h, {"identity"}),
           NEW f \in call[h].old, Removes({f}), parted' = parted \cup {f}, UNCHANGED <<photo, front, back, documents>>
    PROVE  FilesInv'
<1>1. call[h].op \in Tasks /\ FileKind(call[h].op) = "side" /\ "side" \in FileKinds /\ call' = [call EXCEPT ![h] = Idle]
  BY DEF Tasks, FileKind, FileKinds, Ends
<1>2. InHand(h) = {} /\ call[h].old \subseteq taken
  BY <1>1, OfBusy
<1>3. taken' = taken /\ stored' = stored \ {f} /\ \A j \in FileKinds : UrlsOf(j)' = UrlsOf(j)
  BY UrlsKept DEF Removes, FileKinds
<1>4. FilesTypeOK'
  BY <1>2, <1>3, FilesTypes DEF FilesTypeOK
<1> QED BY <1>1, <1>2, <1>3, <1>4, FilesEnd

LEMMA PaperTakes ==
    ASSUME FilesInv, NEW h \in Handlers, DocumentStores(h) \/ \E f \in FileIds : DeleteDocumentFile(h, f)
    PROVE  FilesInv'
<1>1. CASE DocumentStores(h)
  <2>1. PICK f \in FileIds : Stores(f) /\ Takes(h, [op |-> "document", at |-> "save", old |-> {}, new |-> {f}])
    BY <1>1 DEF DocumentStores
  <2>2. f \notin taken /\ stored' = stored \cup {f} /\ taken' = taken \cup {f}
    BY <2>1 DEF Stores, Fresh
  <2> DEFINE r == [op |-> "document", at |-> "save", old |-> {}, new |-> {f}]
  <2>3. r \in FileCalls /\ r # Idle /\ Shape(r)
    BY DEF FileCalls, Tasks, Idle, Shape
  <2>4. r.op = "document" /\ r.at = "save" /\ r.old = {} /\ r.new = {f}
    OBVIOUS
  <2>5. call[h] = Idle /\ call' = [call EXCEPT ![h] = r]
    BY <2>1 DEF Takes
  <2>6. UNCHANGED <<photo, front, back, documents, parted>>
    BY <1>1 DEF DocumentStores
  <2>7. FilesTypeOK'
    BY <2>2, <2>6, FilesTypes DEF FilesTypeOK
  <2> HIDE DEF r
  <2> QED BY <2>2, <2>3, <2>4, <2>5, <2>6, <2>7, FilesTake
<1>2. ASSUME NEW f \in FileIds, DeleteDocumentFile(h, f) PROVE FilesInv'
  <2> DEFINE r == [op |-> "deleteDocument", at |-> "save", old |-> {f}, new |-> {}]
  <2>1. f \in UrlsOf("paper") /\ f \in taken /\ stored' = stored \ {f} /\ taken' = taken
    BY <1>2, FilesTypes DEF DeleteDocumentFile, Removes
  <2>2. r \in FileCalls /\ r # Idle /\ Shape(r) /\ FileKind(r.op) = "paper"
    BY DEF FileCalls, Tasks, Idle, Shape, FileKind
  <2>3. r.op = "deleteDocument" /\ r.at = "save" /\ r.old = {f} /\ r.new = {}
    OBVIOUS
  <2>4. call[h] = Idle /\ call' = [call EXCEPT ![h] = r]
    BY <1>2 DEF DeleteDocumentFile, Takes
  <2>5. UNCHANGED <<photo, front, back, documents, parted>>
    BY <1>2 DEF DeleteDocumentFile
  <2>6. FilesTypeOK'
    BY <2>1, <2>5, FilesTypes DEF FilesTypeOK
  <2> HIDE DEF r
  <2> QED BY <2>1, <2>2, <2>3, <2>4, <2>5, <2>6, FilesTake
<1> QED BY <1>1, <1>2

LEMMA PaperEndSteps ==
    ASSUME FilesInv, NEW h \in Handlers, DocumentSaves(h) \/ DeleteDocument(h)
    PROVE  FilesInv'
<1>1. /\ call[h].op \in {"document", "deleteDocument"} /\ call' = [call EXCEPT ![h] = Idle]
      /\ UNCHANGED <<stored, taken, photo, front, back, parted>>
  BY DEF DocumentSaves, DeleteDocument, Ends
<1>2. /\ call[h].op \in Tasks /\ FileKind(call[h].op) = "paper" /\ "paper" \in FileKinds
      /\ call[h].new \subseteq stored /\ call[h].new \subseteq taken /\ call[h].old \subseteq taken
      /\ call[h].new \cap call[h].old = {}
      /\ InHand(h) = call[h].old \cup call[h].new /\ call[h].old \cap stored \subseteq parted
      /\ (call[h].op = "document" => call[h].old = {}) /\ (call[h].op = "deleteDocument" => call[h].new = {})
  BY <1>1, OfBusy DEF Tasks, FileKind, FileKinds, Shape
<1>3. documents' = (documents \cup call[h].new) \ call[h].old
  BY <1>2, FilesTypes DEF DocumentSaves, DeleteDocument, Ends
<1>4. FilesTypeOK'
  BY <1>1, <1>2, <1>3, FilesTypes DEF FilesTypeOK
<1>5. /\ UrlsOf("photo")' = UrlsOf("photo") /\ UrlsOf("side")' = UrlsOf("side")
      /\ UrlsOf("paper")' = documents' /\ UrlsOf("paper") = documents
  BY <1>1, UrlsKept DEF UrlsOf
<1>6. \A f \in taken \ parted' :
         IF f \in InHand(h) THEN f \in stored' <=> f \in UrlsOf("paper")'
         ELSE (f \in stored' <=> f \in stored) /\ (f \in UrlsOf("paper")' <=> f \in UrlsOf("paper"))
  BY <1>1, <1>2, <1>3, <1>5
<1>7. \A j \in FileKinds \ {"paper"} : UrlsOf(j)' = UrlsOf(j)
  BY <1>5 DEF FileKinds
<1>8. UrlsOf("paper")' \subseteq UrlsOf("paper") \cup call[h].new
  BY <1>3, <1>5
<1> QED BY <1>1, <1>2, <1>4, <1>6, <1>7, <1>8, FilesEnd

-----------------------------------------------------------------------------
LEMMA FilesStep == FilesInv /\ [FilesNext]_<<fileVars, serviceVars>> => FilesInv'
<1> SUFFICES ASSUME FilesInv, [FilesNext]_<<fileVars, serviceVars>> PROVE FilesInv'
  OBVIOUS
<1>1. ASSUME NEW h \in Handlers, CutShort(h) PROVE FilesInv'
  BY <1>1, CutShortKeeps
<1>2. ASSUME NEW h \in Handlers, PhotoReads(h) \/ DeletePhotoReads(h) \/ IdentityReads(h) \/ ApprovalReads(h)
      PROVE  FilesInv'
  BY <1>2, ReadSteps
<1>3. ASSUME NEW h \in Handlers, PhotoDeletesOld(h) \/ DeletePhotoFile(h) \/ DeleteIdentityFiles(h) PROVE FilesInv'
  BY <1>3, DeletionSteps
<1>4. ASSUME NEW h \in Handlers, IdentityDeletesOld(h) PROVE FilesInv'
  <2>1. CASE /\ Removes(call[h].old) /\ UNCHANGED parted
             /\ GoesOn(h, "identity", [call[h] EXCEPT !.at = "front"])
    BY <1>4, <2>1, DeletionSteps
  <2>2. CASE Ends(h, {"identity"}) /\ \E f \in call[h].old : Removes({f}) /\ parted' = parted \cup {f}
    BY <1>4, <2>2, CutDeletion DEF IdentityDeletesOld
  <2> QED BY <1>4, <2>1, <2>2 DEF IdentityDeletesOld
<1>5. ASSUME NEW h \in Handlers, PhotoStores(h) \/ IdentityStores(h) PROVE FilesInv'
  BY <1>5, StoringSteps
<1>6. ASSUME NEW h \in Handlers, PhotoSaves(h) \/ DeletePhotoSaves(h) PROVE FilesInv'
  BY <1>6, PhotoEndSteps
<1>7. ASSUME NEW h \in Handlers, IdentitySaves(h) \/ IdentityCleared(h) PROVE FilesInv'
  BY <1>7, SideEndSteps
<1>8. ASSUME NEW h \in Handlers, DocumentStores(h) \/ \E f \in FileIds : DeleteDocumentFile(h, f) PROVE FilesInv'
  BY <1>8, PaperTakes
<1>9. ASSUME NEW h \in Handlers, DocumentSaves(h) \/ DeleteDocument(h) PROVE FilesInv'
  BY <1>9, PaperEndSteps
<1>10. CASE UNCHANGED <<fileVars, serviceVars>>
  <2>1. /\ \A kind \in FileKinds : UrlsOf(kind)' = UrlsOf(kind)
        /\ \A h \in Handlers : call'[h] = call[h] /\ Old(h)' = Old(h) /\ New(h)' = New(h) /\ InHand(h)' = InHand(h)
        /\ call' = call /\ stored' = stored /\ taken' = taken /\ parted' = parted
    BY <1>10, UrlsKept DEF fileVars, serviceVars, Old, New, InHand, FileKinds
  <2>2. FilesOK'
    BY <1>10, <2>1 DEF FilesInv, FilesOK, FilesTypeOK, fileVars, Shape
  <2>3. FileKindsApart'
    BY <2>1 DEF FilesInv, FileKindsApart, IsOf
  <2>4. HeldOK' /\ FilesMatch'
    BY <2>1 DEF FilesInv, HeldOK, FilesMatch
  <2> QED BY <2>2, <2>3, <2>4 DEF FilesInv
<1> QED BY <1>1, <1>2, <1>3, <1>4, <1>5, <1>6, <1>7, <1>8, <1>9, <1>10 DEF FilesNext

LEMMA FilesInvariant == FilesSpec => []FilesInv
  BY FilesInitHolds, FilesStep, PTL DEF FilesSpec

(* A file is stored exactly when a URL names it, but for what a handler has *)
(* in its hand and what a failure, a stop or a stale write has parted:      *)
(* however the uploads, deletions and approvals of one professional         *)
(* interleave and wherever they are cut (uploads.service, admin.service     *)
(* _deleteIdentityFiles).                                                   *)
THEOREM FileUrls == FilesSpec => []FilesMatchUrls
  BY FilesInvariant, FilesFollow, PTL

-----------------------------------------------------------------------------
(* Accounts                                                                 *)

AccountCalls ==
    {Idle} \cup [op : {"register", "professionalRegister", "companyRegister", "adminRegister", "createAdminUser"},
                 email : Addresses]
           \cup [op : {"verifyEmail"}, at : {"user", "profile", "trial"}, id : Users,
                 code : Addresses \cup Words \cup {NoCode}, email : Addresses]
           \cup [op : {"resetPassword"}, id : Users, token : 1 .. MaxTokens]
           \cup [op : {"referralCode"}, id : Users, code : Addresses \cup Words, byAdmin : BOOLEAN]
           \cup [op : {"updateAdminUser"}, id : Users, email : Addresses, kind : Kinds]

AccountsOK ==
    /\ AccountsTypeOK /\ call \in [Handlers -> AccountCalls] /\ BusyOK
    /\ \A h \in Handlers : call[h].op \in {"verifyEmail", "resetPassword", "referralCode", "updateAdminUser"} =>
          call[h].id \in DOMAIN users

Resetting(t) == {h \in Handlers : call[h].op = "resetPassword" /\ call[h].token = t}
VerifiersOf(u) == {h \in Handlers : call[h].op = "verifyEmail" /\ call[h].id = u}

(* A link that some account still holds was never used, no two accounts     *)
(* hold the same one, and a handler past the check holds the only other     *)
(* copy: what was set plus what is about to be set is at most the handlers  *)
(* side by side.                                                            *)
TokensOK ==
    /\ \A u \in DOMAIN users : users[u].token <= issued /\ (users[u].token # 0 => resets[users[u].token] = 0)
    /\ \A u, v \in DOMAIN users : users[u].token = users[v].token => users[u].token = 0 \/ u = v
    /\ \A t \in 1 .. MaxTokens : t > issued => resets[t] = 0
    /\ \A h \in Handlers : call[h].op = "resetPassword" =>
          /\ call[h].token <= issued
          /\ \A u \in DOMAIN users : users[u].token = call[h].token => u = call[h].id
    /\ \A t \in 1 .. MaxTokens : resets[t] + Cardinality(Resetting(t)) <= Side

(* Who has a trial is verified, so that no further handler gets past the    *)
(* check; who verified by the link while onboarding has the trial or a      *)
(* handler on its way to it.                                                *)
TrialsOK ==
    /\ \A u \in Users : trials[u] > 0 => u \in DOMAIN users /\ users[u].verified
    /\ \A h \in Handlers : call[h].op = "verifyEmail" /\ call[h].at # "user" => users[call[h].id].verified
    /\ \A u \in DOMAIN users : trials[u] + Cardinality(VerifiersOf(u)) <= Side
    /\ \A u \in DOMAIN users : users[u].byLink /\ users[u].onboarding /\ TrialDays > 0 =>
          trials[u] > 0 \/ u \in cut \/ \E h \in VerifiersOf(u) : call[h].at # "user"

AccountsInv == AccountsOK /\ TokensOK /\ TrialsOK

LEMMA AccountsInitHolds == AccountsInit /\ ServiceInit => AccountsInv
<1> SUFFICES ASSUME AccountsInit, ServiceInit PROVE AccountsInv
  OBVIOUS
<1>0. DOMAIN users = {}
  BY DEF AccountsInit
<1>1. \A h \in Handlers : call[h] = Idle
  BY DEF ServiceInit
<1>2. AccountsOK
  BY <1>0, <1>1, NobodyBusy, AccountsAssumption
     DEF AccountsInit, ServiceInit, AccountsOK, AccountsTypeOK, AccountCalls, Idle
<1>3. TokensOK
  <2>1. ASSUME NEW t \in 1 .. MaxTokens PROVE resets[t] + Cardinality(Resetting(t)) <= Side
    <3>1. Resetting(t) = {}
      BY <1>1 DEF Resetting, Idle
    <3> QED BY <3>1, SideIsNat, FS_EmptySet DEF AccountsInit
  <2> QED BY <1>0, <1>1, <2>1 DEF AccountsInit, TokensOK, Idle
<1>4. TrialsOK
  BY <1>0, <1>1 DEF AccountsInit, TrialsOK, Idle
<1> QED BY <1>2, <1>3, <1>4 DEF AccountsInv

LEMMA ResetsFollow == AccountsInv => ResetLinkWorksOnce
<1> SUFFICES ASSUME AccountsInv, NEW t \in 1 .. issued PROVE resets[t] <= Side
  BY DEF ResetLinkWorksOnce
<1>1. t \in 1 .. MaxTokens /\ resets[t] \in Nat
  BY AccountsAssumption DEF AccountsInv, AccountsOK, AccountsTypeOK
<1>2. Cardinality(Resetting(t)) \in Nat
  BY FewHandlers DEF Resetting
<1> QED BY <1>1, <1>2, SideIsNat DEF AccountsInv, TokensOK

LEMMA TrialsFollow == AccountsInv => TrialGoesWithVerification
<1> SUFFICES ASSUME AccountsInv, NEW u \in DOMAIN users
             PROVE  /\ users[u].byLink /\ users[u].onboarding /\ TrialDays > 0 =>
                          trials[u] > 0 \/ u \in cut \/ Verifying(u)
                    /\ trials[u] <= Side
  BY DEF TrialGoesWithVerification
<1>1. u \in Users /\ trials[u] \in Nat
  BY DEF AccountsInv, AccountsOK, AccountsTypeOK
<1>2. Cardinality(VerifiersOf(u)) \in Nat
  BY FewHandlers DEF VerifiersOf
<1> QED BY <1>1, <1>2, SideIsNat DEF AccountsInv, TrialsOK, Verifying, VerifiersOf

-----------------------------------------------------------------------------
(* What a step leaves of the rows, of the links and of the trials           *)

(* A row after an update of some of its fields is a row; what the           *)
(* invariants look at in it are its link, its verification and whether it   *)
(* is onboarding.                                                           *)
Tells(r, fields, token, known, byLink, onboarding) ==
    LET s == Patched(r, fields)
    IN s \in UserRecord /\ s.token = token /\ s.verified = known /\ s.byLink = byLink /\ s.onboarding = onboarding

LEMMA UserRows ==
    ASSUME NEW r \in UserRecord, NEW b \in BOOLEAN, NEW e \in Addresses, NEW k \in Kinds,
           NEW c \in Addresses \cup Words \cup {NoCode}, NEW t \in 0 .. MaxTokens
    PROVE  /\ Tells(r, [onboarding |-> FALSE], r.token, r.verified, r.byLink, FALSE)
           /\ Tells(r, [token |-> t, fresh |-> TRUE], t, r.verified, r.byLink, r.onboarding)
           /\ Tells(r, [fresh |-> FALSE], r.token, r.verified, r.byLink, r.onboarding)
           /\ Tells(r, [token |-> 0, fresh |-> FALSE, verified |-> TRUE], 0, TRUE, r.byLink, r.onboarding)
           /\ Tells(r, [code |-> c], r.token, r.verified, r.byLink, r.onboarding)
           /\ Tells(r, [email |-> e, kind |-> k], r.token, r.verified, r.byLink, r.onboarding)
           /\ Tells(r, [deleted |-> b], r.token, r.verified, r.byLink, r.onboarding)
           /\ Tells(r, [verified |-> TRUE, byLink |-> TRUE, code |-> c], r.token, TRUE, TRUE, r.onboarding)
<1>1. Tells(r, [onboarding |-> FALSE], r.token, r.verified, r.byLink, FALSE)
  BY AccountsAssumption DEF Tells, Patched, UserRecord
<1>2. Tells(r, [token |-> t, fresh |-> TRUE], t, r.verified, r.byLink, r.onboarding)
  BY AccountsAssumption DEF Tells, Patched, UserRecord
<1>3. Tells(r, [fresh |-> FALSE], r.token, r.verified, r.byLink, r.onboarding)
  BY AccountsAssumption DEF Tells, Patched, UserRecord
<1>4. Tells(r, [token |-> 0, fresh |-> FALSE, verified |-> TRUE], 0, TRUE, r.byLink, r.onboarding)
  <2>1. 0 \in 0 .. MaxTokens
    BY AccountsAssumption
  <2> QED BY <2>1 DEF Tells, Patched, UserRecord
<1>5. Tells(r, [code |-> c], r.token, r.verified, r.byLink, r.onboarding)
  BY AccountsAssumption DEF Tells, Patched, UserRecord
<1>6. Tells(r, [email |-> e, kind |-> k], r.token, r.verified, r.byLink, r.onboarding)
  BY AccountsAssumption DEF Tells, Patched, UserRecord
<1>7. Tells(r, [deleted |-> b], r.token, r.verified, r.byLink, r.onboarding)
  BY AccountsAssumption DEF Tells, Patched, UserRecord
<1>8. Tells(r, [verified |-> TRUE, byLink |-> TRUE, code |-> c], r.token, TRUE, TRUE, r.onboarding)
  BY AccountsAssumption DEF Tells, Patched, UserRecord
<1> QED BY <1>1, <1>2, <1>3, <1>4, <1>5, <1>6, <1>7, <1>8

(* An update of one row leaves the other rows alone.                        *)
LEMMA SetsRow ==
    ASSUME AccountsTypeOK, NEW u \in DOMAIN users, NEW fields, Sets(u, fields),
           Patched(users[u], fields) \in UserRecord
    PROVE  /\ DOMAIN users' = DOMAIN users /\ \A v \in DOMAIN users : users'[v] \in UserRecord
           /\ \A v \in DOMAIN users : users'[v] = IF v = u THEN Patched(users[u], fields) ELSE users[v]
  BY DEF AccountsTypeOK, Sets

LEMMA TokensFrame ==
    ASSUME AccountsInv, UNCHANGED <<issued, resets, scenario>>,
           \A u \in DOMAIN users' : users'[u].token = IF u \in DOMAIN users THEN users[u].token ELSE 0,
           \A h \in Handlers : call'[h].op = "resetPassword" => call'[h] = call[h]
    PROVE  TokensOK'
<1>0. /\ \A t \in 1 .. MaxTokens : resets[t] \in Nat /\ issued \in Nat
      /\ \A u \in DOMAIN users : users[u].token \in Nat
      /\ \A h \in Handlers : call[h].op = "resetPassword" => call[h].token \in Nat \ {0}
  BY AccountsAssumption
     DEF AccountsInv, AccountsOK, AccountsTypeOK, UserRecord, AccountCalls, Idle
<1>1. \A u \in DOMAIN users' : /\ users'[u].token <= issued
                               /\ users'[u].token # 0 => resets[users'[u].token] = 0
  BY <1>0 DEF AccountsInv, TokensOK, AccountsOK, AccountsTypeOK
<1>2. \A u, v \in DOMAIN users' : users'[u].token = users'[v].token => users'[u].token = 0 \/ u = v
  BY <1>0 DEF AccountsInv, TokensOK
<1>3. \A h \in Handlers : call'[h].op = "resetPassword" =>
          /\ call'[h].token <= issued
          /\ \A u \in DOMAIN users' : users'[u].token = call'[h].token => u = call'[h].id
  BY <1>0 DEF AccountsInv, TokensOK
<1>4. ASSUME NEW t \in 1 .. MaxTokens PROVE resets'[t] + Cardinality(Resetting(t)') <= Side'
  <2>1. Resetting(t)' \subseteq Resetting(t)
    BY DEF Resetting
  <2>2. /\ Cardinality(Resetting(t)') <= Cardinality(Resetting(t))
        /\ Cardinality(Resetting(t)') \in Nat /\ Cardinality(Resetting(t)) \in Nat
    BY <2>1, FewHandlers DEF Resetting
  <2>3. Side' = Side
    BY DEF Side, Offered
  <2>4. resets[t] + Cardinality(Resetting(t)) <= Side
    BY DEF AccountsInv, TokensOK
  <2> QED BY <1>0, <2>2, <2>3, <2>4, SideIsNat
<1> QED BY <1>1, <1>2, <1>3, <1>4 DEF TokensOK, AccountsInv

LEMMA TrialsFrame ==
    ASSUME AccountsInv, UNCHANGED <<trials, scenario>>, cut \subseteq cut', DOMAIN users \subseteq DOMAIN users',
           DOMAIN users' \subseteq Users,
           \A u \in DOMAIN users : /\ users[u].verified => users'[u].verified
                                   /\ users'[u].byLink /\ users'[u].onboarding => users[u].byLink /\ users[u].onboarding,
           \A u \in DOMAIN users' \ DOMAIN users : ~users'[u].byLink,
           \A h \in Handlers : "verifyEmail" \in {call'[h].op, call[h].op} => call'[h] = call[h]
    PROVE  TrialsOK'
<1>0. /\ \A u \in DOMAIN users : u \in Users
      /\ \A u \in Users : trials[u] \in Nat
      /\ \A h \in Handlers : call[h].op = "verifyEmail" => call[h].id \in DOMAIN users
  BY DEF AccountsInv, AccountsOK, AccountsTypeOK
<1>1. \A u \in Users : trials'[u] > 0 => u \in DOMAIN users' /\ users'[u].verified
  BY DEF AccountsInv, TrialsOK
<1>2. \A h \in Handlers : call'[h].op = "verifyEmail" /\ call'[h].at # "user" => users'[call'[h].id].verified
  BY <1>0 DEF AccountsInv, TrialsOK
<1>3. \A u : VerifiersOf(u)' = VerifiersOf(u)
  BY DEF VerifiersOf
<1>4. Side' = Side
  BY DEF Side, Offered
<1>5. ASSUME NEW u \in DOMAIN users'
      PROVE  /\ trials'[u] + Cardinality(VerifiersOf(u)') <= Side'
             /\ users'[u].byLink /\ users'[u].onboarding /\ TrialDays > 0 =>
                  trials'[u] > 0 \/ u \in cut' \/ \E h \in VerifiersOf(u)' : call'[h].at # "user"
  <2>1. CASE u \in DOMAIN users
    <3>1. \A h \in VerifiersOf(u) : call'[h] = call[h]
      BY DEF VerifiersOf
    <3>2. trials'[u] + Cardinality(VerifiersOf(u)') <= Side'
      BY <1>3, <1>4, <2>1 DEF AccountsInv, TrialsOK
    <3>3. ASSUME users'[u].byLink, users'[u].onboarding, TrialDays > 0
          PROVE  trials'[u] > 0 \/ u \in cut' \/ \E h \in VerifiersOf(u)' : call'[h].at # "user"
      <4>1. trials[u] > 0 \/ u \in cut \/ \E h \in VerifiersOf(u) : call[h].at # "user"
        BY <2>1, <3>3 DEF AccountsInv, TrialsOK
      <4> QED BY <1>3, <3>1, <4>1
    <3> QED BY <3>2, <3>3
  <2>2. CASE u \notin DOMAIN users
    <3>1. VerifiersOf(u) = {}
      BY <1>0, <2>2 DEF VerifiersOf
    <3>2. trials[u] = 0
      BY <1>0, <2>2 DEF AccountsInv, TrialsOK
    <3>3. Cardinality(VerifiersOf(u)') = 0
      BY <1>3, <3>1, FS_EmptySet
    <3>4. trials'[u] + Cardinality(VerifiersOf(u)') <= Side'
      BY <1>4, <3>2, <3>3, SideIsNat
    <3>5. ~users'[u].byLink
      BY <2>2
    <3> QED BY <3>4, <3>5
  <2> QED BY <2>1, <2>2
<1> QED BY <1>1, <1>2, <1>5 DEF TrialsOK

(* A step that keeps the links in their places, takes back no verification  *)
(* and adds no account that verified by the link                            *)
RowsKept ==
    /\ AccountsTypeOK' /\ DOMAIN users \subseteq DOMAIN users'
    /\ \A u \in DOMAIN users : /\ users'[u].token = users[u].token
                               /\ users[u].verified => users'[u].verified
                               /\ users'[u].byLink /\ users'[u].onboarding => users[u].byLink /\ users[u].onboarding
    /\ \A u \in DOMAIN users' \ DOMAIN users : users'[u].token = 0 /\ ~users'[u].byLink

(* The handlers after a request is taken, and after one is done             *)
LEMMA AccountTakes ==
    ASSUME AccountsInv, NEW h \in Handlers, NEW r \in AccountCalls, r # Idle, Takes(h, r)
    PROVE  /\ call' \in [Handlers -> AccountCalls] /\ call[h] = Idle
           /\ \A k \in Handlers : call'[k] = IF k = h THEN r ELSE call[k]
           /\ h \notin Busy /\ Busy' = Busy \cup {h} /\ BusyOK' /\ Cardinality(Busy) + 1 <= Side
           /\ Side' = Side /\ scenario' = scenario
<1>1. DOMAIN call = Handlers /\ BusyOK /\ call \in [Handlers -> AccountCalls]
  BY DEF AccountsInv, AccountsOK
<1> QED BY <1>1, TakesBusy DEF Takes

LEMMA AccountEnds ==
    ASSUME AccountsInv, NEW h \in Handlers, NEW ops, Ends(h, ops)
    PROVE  /\ call' \in [Handlers -> AccountCalls] /\ call[h].op \in ops
           /\ \A k \in Handlers : call'[k] = IF k = h THEN Idle ELSE call[k]
           /\ BusyOK' /\ Side' = Side /\ scenario' = scenario
<1>1. DOMAIN call = Handlers /\ BusyOK /\ call \in [Handlers -> AccountCalls]
  BY DEF AccountsInv, AccountsOK
<1> QED BY <1>1, EndsBusy DEF Ends, AccountCalls

LEMMA RowsOnly ==
    ASSUME AccountsInv, RowsKept, UNCHANGED <<issued, resets, trials, cut, serviceVars>>
    PROVE  AccountsInv'
<1>1. TokensOK'
  BY TokensFrame DEF RowsKept, serviceVars
<1>2. TrialsOK'
  BY TrialsFrame DEF RowsKept, serviceVars, AccountsTypeOK
<1>3. AccountsOK'
  <2>1. BusyOK'
    BY FewerBusy DEF AccountsInv, AccountsOK, Busy, serviceVars
  <2> QED BY <2>1 DEF RowsKept, serviceVars, AccountsInv, AccountsOK
<1> QED BY <1>1, <1>2, <1>3 DEF AccountsInv

LEMMA RowsByHandler ==
    ASSUME AccountsInv, RowsKept, UNCHANGED <<issued, resets, trials, cut>>,
           NEW h \in Handlers, NEW op, op \notin {"verifyEmail", "resetPassword"}, Ends(h, {op})
    PROVE  AccountsInv'
<1>1. /\ call' \in [Handlers -> AccountCalls] /\ call[h].op = op
      /\ \A k \in Handlers : call'[k] = IF k = h THEN Idle ELSE call[k]
      /\ BusyOK' /\ scenario' = scenario
  BY AccountEnds
<1>2. TokensOK'
  <2>1. \A k \in Handlers : call'[k].op = "resetPassword" => call'[k] = call[k]
    BY <1>1 DEF Idle
  <2> QED BY <1>1, <2>1, TokensFrame DEF RowsKept
<1>3. TrialsOK'
  <2>1. \A k \in Handlers : "verifyEmail" \in {call'[k].op, call[k].op} => call'[k] = call[k]
    BY <1>1 DEF Idle
  <2> QED BY <1>1, <2>1, TrialsFrame DEF RowsKept, AccountsTypeOK
<1>4. AccountsOK'
  BY <1>1 DEF RowsKept, AccountsInv, AccountsOK, Idle
<1> QED BY <1>2, <1>3, <1>4 DEF AccountsInv

LEMMA ChecksKeep ==
    ASSUME AccountsInv, UNCHANGED accountVars, NEW h \in Handlers, NEW r \in AccountCalls, r # Idle, Takes(h, r),
           r.op \notin {"verifyEmail", "resetPassword"},
           r.op \in {"referralCode", "updateAdminUser"} => r.id \in DOMAIN users
    PROVE  AccountsInv'
<1>1. /\ call' \in [Handlers -> AccountCalls] /\ call[h] = Idle
      /\ \A k \in Handlers : call'[k] = IF k = h THEN r ELSE call[k]
      /\ BusyOK' /\ scenario' = scenario
  BY AccountTakes
<1>2. RowsKept
  BY DEF RowsKept, AccountsInv, AccountsOK, AccountsTypeOK, accountVars
<1>3. TokensOK'
  <2>1. \A k \in Handlers : call'[k].op = "resetPassword" => call'[k] = call[k]
    BY <1>1
  <2> QED BY <1>1, <1>2, <2>1, TokensFrame DEF RowsKept, accountVars
<1>4. TrialsOK'
  <2>1. \A k \in Handlers : "verifyEmail" \in {call'[k].op, call[k].op} => call'[k] = call[k]
    BY <1>1 DEF Idle
  <2> QED BY <1>1, <1>2, <2>1, TrialsFrame DEF RowsKept, accountVars, AccountsTypeOK
<1>5. AccountsOK'
  BY <1>1, <1>2 DEF RowsKept, AccountsInv, AccountsOK, accountVars
<1> QED BY <1>3, <1>4, <1>5 DEF AccountsInv

(* An update that takes back no verification, and changes no link           *)
LEMMA SetsKeep ==
    ASSUME AccountsInv, NEW u \in DOMAIN users, NEW fields, Sets(u, fields), UNCHANGED <<links, issued, resets, trials, cut>>,
           NEW known \in BOOLEAN, NEW byLink \in BOOLEAN, NEW onboarding \in BOOLEAN,
           Tells(users[u], fields, users[u].token, known, byLink, onboarding),
           users[u].verified => known, byLink /\ onboarding => users[u].byLink /\ users[u].onboarding
    PROVE  RowsKept
<1>1. AccountsTypeOK
  BY DEF AccountsInv, AccountsOK
<1>2. /\ DOMAIN users' = DOMAIN users /\ \A v \in DOMAIN users : users'[v] \in UserRecord
      /\ \A v \in DOMAIN users : users'[v] = IF v = u THEN Patched(users[u], fields) ELSE users[v]
  BY <1>1, SetsRow DEF Tells
<1>3. AccountsTypeOK'
  BY <1>1, <1>2 DEF AccountsTypeOK
<1> QED BY <1>2, <1>3 DEF RowsKept, Tells

-----------------------------------------------------------------------------
(* Registration                                                             *)
Registrations == {"register", "professionalRegister", "companyRegister", "adminRegister", "createAdminUser"}

LEMMA LooksKeep ==
    ASSUME AccountsInv, NEW h \in Handlers, NEW op \in Registrations, NEW email \in Addresses, NEW among,
           Looks(h, op, email, among)
    PROVE  AccountsInv'
<1> DEFINE r == [op |-> op, email |-> email]
<1>1. r \in AccountCalls /\ r # Idle /\ r.op = op
  BY DEF AccountCalls, Registrations, Idle
<1> QED BY <1>1, ChecksKeep DEF Looks, Registrations

LEMMA InsertsKeep ==
    ASSUME AccountsInv, NEW h \in Handlers, NEW op \in Registrations, NEW kind \in Kinds,
           NEW known \in BOOLEAN, NEW onboarding \in BOOLEAN, Inserts(h, op, kind, known, onboarding)
    PROVE  AccountsInv'
<1>1. Ends(h, {op}) /\ UNCHANGED <<issued, resets, trials, cut>> /\ op \notin {"verifyEmail", "resetPassword"}
  BY DEF Inserts, Registrations
<1>2. AccountsTypeOK
  BY DEF AccountsInv, AccountsOK
<1>3. RowsKept
  <2>1. CASE UNCHANGED <<users, links>>
    BY <1>1, <1>2, <2>1 DEF RowsKept, AccountsTypeOK
  <2>2. CASE ~UNCHANGED <<users, links>>
    <3> DEFINE row == [email |-> call[h].email, kind |-> kind, deleted |-> FALSE, verified |-> known,
                       byLink |-> FALSE, code |-> NoCode, token |-> 0, fresh |-> FALSE, onboarding |-> onboarding]
    <3>1. PICK u \in Fresh(Users, DOMAIN users) :
            /\ users' = [v \in DOMAIN users \cup {u} |-> IF v # u THEN users[v] ELSE row]
            /\ links' \in {links, links \cup {u}}
      BY <2>2 DEF Inserts
    <3>2. u \in Users /\ u \notin DOMAIN users
      BY DEF Fresh
    <3>3. call[h].email \in Addresses
      BY <1>1 DEF Ends, AccountsInv, AccountsOK, AccountCalls, Idle, Registrations
    <3>4. row \in UserRecord
      BY <3>3, AccountsAssumption DEF UserRecord
    <3>5. /\ DOMAIN users' = DOMAIN users \cup {u}
          /\ \A v \in DOMAIN users : users'[v] = users[v]
          /\ users'[u] = row
      BY <3>1, <3>2
    <3> HIDE DEF row
    <3>6. AccountsTypeOK'
      BY <1>1, <1>2, <3>1, <3>2, <3>4, <3>5 DEF AccountsTypeOK
    <3>7. row.token = 0 /\ ~row.byLink
      BY DEF row
    <3> QED BY <3>5, <3>6, <3>7 DEF RowsKept
  <2> QED BY <2>1, <2>2
<1> QED BY <1>1, <1>3, RowsByHandler

LEMMA RegistrationSteps ==
    ASSUME AccountsInv, NEW h \in Handlers,
           \/ Register(h) \/ ProfessionalRegister(h) \/ CompanyRegister(h)
           \/ AdminRegistersProfessional(h) \/ CreateAdminUser(h)
    PROVE  AccountsInv'
<1>1. /\ {"register", "professionalRegister", "companyRegister", "adminRegister", "createAdminUser"} = Registrations
      /\ {"client", "professional", "company", "admin"} = Kinds
  BY DEF Registrations, Kinds
<1>2. CASE Register(h)
  BY <1>1, <1>2, LooksKeep, InsertsKeep DEF Register
<1>3. CASE ProfessionalRegister(h)
  BY <1>1, <1>3, LooksKeep, InsertsKeep DEF ProfessionalRegister
<1>4. CASE CompanyRegister(h)
  BY <1>1, <1>4, LooksKeep, InsertsKeep DEF CompanyRegister
<1>5. CASE AdminRegistersProfessional(h)
  BY <1>1, <1>5, LooksKeep, InsertsKeep DEF AdminRegistersProfessional
<1>6. CASE CreateAdminUser(h)
  BY <1>1, <1>6, LooksKeep, InsertsKeep DEF CreateAdminUser
<1> QED BY <1>2, <1>3, <1>4, <1>5, <1>6

-----------------------------------------------------------------------------
(* What one write does to an account                                        *)
LEMMA AccountRowSteps ==
    ASSUME AccountsInv, NEW u \in Users,
           \/ ResendVerification(u) \/ LinkExpires(u) \/ ProfileMovesOn(u)
           \/ TokenExpires(u) \/ SoftDelete(u) \/ RestoreSoftDeletedUser(u)
    PROVE  AccountsInv'
<1>0. AccountsTypeOK
  BY DEF AccountsInv, AccountsOK
<1>1. CASE ResendVerification(u) \/ LinkExpires(u)
  <2>1. UNCHANGED <<users, issued, resets, trials, cut, serviceVars>> /\ links' \subseteq DOMAIN users
    BY <1>0, <1>1 DEF ResendVerification, LinkExpires, Live, AccountsTypeOK
  <2>2. RowsKept
    BY <1>0, <2>1 DEF RowsKept, AccountsTypeOK
  <2> QED BY <2>1, <2>2, RowsOnly
<1>2. CASE ProfileMovesOn(u) \/ TokenExpires(u) \/ SoftDelete(u) \/ RestoreSoftDeletedUser(u)
  <2>1. u \in DOMAIN users /\ users[u] \in UserRecord
    BY <1>0, <1>2 DEF ProfileMovesOn, TokenExpires, SoftDelete, RestoreSoftDeletedUser, Live, AccountsTypeOK
  <2>2. UNCHANGED <<links, issued, resets, trials, cut, serviceVars>>
    BY <1>2 DEF ProfileMovesOn, TokenExpires, SoftDelete, RestoreSoftDeletedUser
  <2>3. RowsKept
    <3>0. users[u].email \in Addresses /\ users[u].kind \in Kinds /\ NoCode \in Addresses \cup Words \cup {NoCode}
          /\ 0 \in 0 .. MaxTokens
          /\ users[u].verified \in BOOLEAN /\ users[u].byLink \in BOOLEAN /\ users[u].onboarding \in BOOLEAN
      BY <2>1, AccountsAssumption DEF UserRecord
    <3>1. CASE ProfileMovesOn(u)
      <4>1. Tells(users[u], [onboarding |-> FALSE], users[u].token, users[u].verified, users[u].byLink, FALSE)
        BY <2>1, <3>0, UserRows
      <4>2. Sets(u, [onboarding |-> FALSE])
        BY <3>1 DEF ProfileMovesOn
      <4> QED BY <2>1, <2>2, <3>0, <4>1, <4>2, SetsKeep
    <3>2. CASE TokenExpires(u)
      <4>1. Tells(users[u], [fresh |-> FALSE], users[u].token, users[u].verified, users[u].byLink, users[u].onboarding)
        BY <2>1, <3>0, UserRows
      <4>2. Sets(u, [fresh |-> FALSE])
        BY <3>2 DEF TokenExpires
      <4> QED BY <2>1, <2>2, <3>0, <4>1, <4>2, SetsKeep
    <3>3. CASE SoftDelete(u) \/ RestoreSoftDeletedUser(u)
      <4>1. PICK b \in BOOLEAN : Sets(u, [deleted |-> b])
        BY <3>3 DEF SoftDelete, RestoreSoftDeletedUser
      <4>2. Tells(users[u], [deleted |-> b], users[u].token, users[u].verified, users[u].byLink, users[u].onboarding)
        BY <2>1, <3>0, UserRows
      <4> QED BY <2>1, <2>2, <3>0, <4>1, <4>2, SetsKeep
    <3> QED BY <1>2, <3>1, <3>2, <3>3
  <2> QED BY <2>2, <2>3, RowsOnly
<1> QED BY <1>1, <1>2

(* Referral codes, and an admin's update                                    *)
LEMMA ChecksSteps ==
    ASSUME AccountsInv, NEW h \in Handlers,
           \/ \E u \in DOMAIN users, code \in Addresses \cup Words, byAdmin \in BOOLEAN :
                CodeChecks(h, u, code, byAdmin)
           \/ \E by, u \in Live, email \in Addresses, kind \in {"client", "admin"} :
                AdminUpdateChecks(h, by, u, email, kind)
    PROVE  AccountsInv'
<1>0. DOMAIN users \subseteq Users /\ Live \subseteq DOMAIN users
  BY DEF AccountsInv, AccountsOK, AccountsTypeOK, Live
<1>1. ASSUME NEW u \in DOMAIN users, NEW code \in Addresses \cup Words, NEW byAdmin \in BOOLEAN,
             CodeChecks(h, u, code, byAdmin)
      PROVE  AccountsInv'
  <2> DEFINE r == [op |-> "referralCode", id |-> u, code |-> code, byAdmin |-> byAdmin]
  <2>1. r \in AccountCalls /\ r # Idle
    BY <1>0 DEF AccountCalls, Idle
  <2> QED BY <1>1, <2>1, ChecksKeep DEF CodeChecks
<1>2. ASSUME NEW by \in Live, NEW u \in Live, NEW email \in Addresses, NEW kind \in {"client", "admin"},
             AdminUpdateChecks(h, by, u, email, kind)
      PROVE  AccountsInv'
  <2> DEFINE r == [op |-> "updateAdminUser", id |-> u, email |-> email, kind |-> kind]
  <2>1. r \in AccountCalls /\ r # Idle
    BY <1>0 DEF AccountCalls, Idle, Kinds
  <2> QED BY <1>0, <1>2, <2>1, ChecksKeep DEF AdminUpdateChecks
<1> QED BY <1>1, <1>2

LEMMA WritesSteps ==
    ASSUME AccountsInv, NEW h \in Handlers, CodeWrites(h) \/ AdminUpdateWrites(h)
    PROVE  AccountsInv'
<1>0. AccountsTypeOK /\ call[h] \in AccountCalls
  BY DEF AccountsInv, AccountsOK
<1>1. ASSUME UNCHANGED <<users, links, issued, resets, trials, cut>> PROVE RowsKept
  BY <1>0, <1>1 DEF RowsKept, AccountsTypeOK
<1>2. ASSUME call[h].op \in {"referralCode", "updateAdminUser"}
      PROVE  /\ call[h].id \in DOMAIN users /\ users[call[h].id] \in UserRecord
             /\ users[call[h].id].email \in Addresses /\ users[call[h].id].kind \in Kinds
             /\ users[call[h].id].verified \in BOOLEAN /\ users[call[h].id].byLink \in BOOLEAN
             /\ users[call[h].id].onboarding \in BOOLEAN
             /\ NoCode \in Addresses \cup Words \cup {NoCode} /\ 0 \in 0 .. MaxTokens
  BY <1>0, <1>2, AccountsAssumption DEF AccountsInv, AccountsOK, AccountsTypeOK, UserRecord
<1>3. CASE CodeWrites(h)
  <2>1. Ends(h, {"referralCode"}) /\ UNCHANGED <<links, issued, resets, trials, cut>>
    BY <1>3 DEF CodeWrites
  <2>2. call[h].op = "referralCode" /\ call[h].code \in Addresses \cup Words \cup {NoCode}
    BY <1>0, <2>1 DEF Ends, AccountCalls, Idle
  <2>3. CASE Sets(call[h].id, [code |-> call[h].code])
    <3>1. PICK u \in DOMAIN users : u = call[h].id
      BY <1>2, <2>2
    <3>2. Tells(users[u], [code |-> call[h].code], users[u].token, users[u].verified, users[u].byLink, users[u].onboarding)
      BY <1>2, <2>2, <3>1, UserRows
    <3>3. RowsKept
      BY <1>2, <2>1, <2>2, <2>3, <3>1, <3>2, SetsKeep
    <3> QED BY <2>1, <3>3, RowsByHandler
  <2>4. CASE UNCHANGED users
    BY <1>1, <2>1, <2>4, RowsByHandler
  <2> QED BY <1>3, <2>3, <2>4 DEF CodeWrites
<1>4. CASE AdminUpdateWrites(h)
  <2>1. Ends(h, {"updateAdminUser"}) /\ UNCHANGED <<links, issued, resets, trials, cut>>
    BY <1>4 DEF AdminUpdateWrites
  <2>2. call[h].op = "updateAdminUser" /\ call[h].email \in Addresses /\ call[h].kind \in Kinds
    BY <1>0, <2>1 DEF Ends, AccountCalls, Idle
  <2>3. CASE Sets(call[h].id, [email |-> call[h].email, kind |-> call[h].kind])
    <3>1. PICK u \in DOMAIN users : u = call[h].id
      BY <1>2, <2>2
    <3>2. Tells(users[u], [email |-> call[h].email, kind |-> call[h].kind],
                users[u].token, users[u].verified, users[u].byLink, users[u].onboarding)
      BY <1>2, <2>2, <3>1, UserRows
    <3>3. RowsKept
      BY <1>2, <2>1, <2>2, <2>3, <3>1, <3>2, SetsKeep
    <3> QED BY <2>1, <3>3, RowsByHandler
  <2>4. CASE UNCHANGED users
    BY <1>1, <2>1, <2>4, RowsByHandler
  <2> QED BY <1>4, <2>3, <2>4 DEF AdminUpdateWrites
<1> QED BY <1>3, <1>4

LEMMA StopStep == ASSUME AccountsInv, AccountsStop PROVE AccountsInv'
<1>1. /\ \A h \in Handlers : call'[h] = Idle
      /\ DOMAIN call' = Handlers /\ call' = [h \in Handlers |-> Idle]
      /\ UNCHANGED <<users, links, issued, resets, trials, scenario>>
      /\ cut' = cut \cup {call[h].id : h \in {k \in Handlers : call[k].op = "verifyEmail"}}
  BY DEF AccountsStop
<1>2. TokensOK'
  <2>1. \A k \in Handlers : call'[k].op = "resetPassword" => call'[k] = call[k]
    BY <1>1 DEF Idle
  <2>2. \A u \in DOMAIN users' : users'[u].token = IF u \in DOMAIN users THEN users[u].token ELSE 0
    BY <1>1
  <2> QED BY <1>1, <2>1, <2>2, TokensFrame
<1>3. \A u \in DOMAIN users : u \in Users /\ trials[u] \in Nat
  BY DEF AccountsInv, AccountsOK, AccountsTypeOK
<1>4. TrialsOK'
  <2>1. \A u : VerifiersOf(u)' = {}
    BY <1>1 DEF VerifiersOf, Idle
  <2>2. Side' = Side
    BY <1>1 DEF Side, Offered
  <2>3. ASSUME NEW u \in DOMAIN users' PROVE trials'[u] + Cardinality(VerifiersOf(u)') <= Side'
    <3>1. trials[u] + Cardinality(VerifiersOf(u)) <= Side
      BY <1>1 DEF AccountsInv, TrialsOK
    <3>2. Cardinality(VerifiersOf(u)) \in Nat
      BY FewHandlers DEF VerifiersOf
    <3>3. Cardinality(VerifiersOf(u)') = 0
      BY <2>1, FS_EmptySet
    <3> QED BY <1>1, <1>3, <2>2, <3>1, <3>2, <3>3, SideIsNat
  <2>4. ASSUME NEW u \in DOMAIN users', users'[u].byLink, users'[u].onboarding, TrialDays > 0
        PROVE  trials'[u] > 0 \/ u \in cut'
    <3>1. trials[u] > 0 \/ u \in cut \/ \E h \in VerifiersOf(u) : call[h].at # "user"
      BY <1>1, <2>4 DEF AccountsInv, TrialsOK
    <3> QED BY <1>1, <3>1 DEF VerifiersOf
  <2>5. \A h \in Handlers : call'[h].op # "verifyEmail"
    BY <1>1 DEF Idle
  <2>6. \A u \in Users : trials'[u] > 0 => u \in DOMAIN users' /\ users'[u].verified
    BY <1>1 DEF AccountsInv, TrialsOK
  <2> QED BY <2>3, <2>4, <2>5, <2>6 DEF TrialsOK
<1>5. AccountsOK'
  <2>1. BusyOK'
    <3>1. Busy' \subseteq Busy
      BY <1>1 DEF Busy
    <3> QED BY <1>1, <3>1, FewerBusy DEF AccountsInv, AccountsOK
  <2>2. cut' \subseteq DOMAIN users
    BY <1>1 DEF AccountsInv, AccountsOK, AccountsTypeOK
  <2> QED BY <1>1, <2>1, <2>2 DEF AccountsInv, AccountsOK, AccountsTypeOK, AccountCalls, Idle
<1> QED BY <1>2, <1>4, <1>5 DEF AccountsInv

-----------------------------------------------------------------------------
(* Reset links                                                              *)
LEMMA SetsTells ==
    ASSUME AccountsInv, NEW u \in DOMAIN users, NEW fields, Sets(u, fields),
           NEW token, NEW known, NEW byLink, NEW onboarding,
           Tells(users[u], fields, token, known, byLink, onboarding)
    PROVE  /\ DOMAIN users' = DOMAIN users /\ \A v \in DOMAIN users : users'[v] \in UserRecord
           /\ \A v \in DOMAIN users \ {u} : users'[v] = users[v]
           /\ users'[u].token = token /\ users'[u].verified = known
           /\ users'[u].byLink = byLink /\ users'[u].onboarding = onboarding
<1>1. AccountsTypeOK
  BY DEF AccountsInv, AccountsOK
<1> QED BY <1>1, SetsRow DEF Tells

(* A new link is one that nobody holds and no handler saw.                  *)
LEMMA ForgotStep == ASSUME AccountsInv, NEW u \in Users, ForgotPassword(u) PROVE AccountsInv'
<1>0. AccountsTypeOK /\ u \in DOMAIN users /\ users[u] \in UserRecord /\ issued + 1 \in 0 .. MaxTokens
      /\ issued \in Nat /\ issued' = issued + 1 /\ UNCHANGED <<links, resets, trials, cut, serviceVars>>
  BY AccountsAssumption DEF AccountsInv, AccountsOK, AccountsTypeOK, ForgotPassword, Live
<1>1. /\ DOMAIN users' = DOMAIN users /\ \A v \in DOMAIN users : users'[v] \in UserRecord
      /\ \A v \in DOMAIN users \ {u} : users'[v] = users[v]
      /\ users'[u].token = issued + 1 /\ users'[u].verified = users[u].verified
      /\ users'[u].byLink = users[u].byLink /\ users'[u].onboarding = users[u].onboarding
  <2>1. users[u].email \in Addresses /\ users[u].kind \in Kinds /\ NoCode \in Addresses \cup Words \cup {NoCode}
        /\ TRUE \in BOOLEAN
    BY <1>0 DEF UserRecord
  <2>2. Tells(users[u], [token |-> issued + 1, fresh |-> TRUE], issued + 1,
              users[u].verified, users[u].byLink, users[u].onboarding)
    BY <1>0, <2>1, UserRows
  <2>3. Sets(u, [token |-> issued + 1, fresh |-> TRUE])
    BY DEF ForgotPassword
  <2> QED BY <1>0, <2>2, <2>3, SetsTells
<1>2. TrialsOK'
  <2>1. \A v \in DOMAIN users : /\ users[v].verified => users'[v].verified
                                /\ users'[v].byLink /\ users'[v].onboarding => users[v].byLink /\ users[v].onboarding
    <3>1. ASSUME NEW v \in DOMAIN users
          PROVE  /\ users[v].verified => users'[v].verified
                 /\ users'[v].byLink /\ users'[v].onboarding => users[v].byLink /\ users[v].onboarding
      <4>1. CASE v = u
        BY <1>1, <4>1
      <4>2. CASE v # u
        BY <1>1, <4>2
      <4> QED BY <4>1, <4>2
    <3> QED BY <3>1
  <2> QED BY <1>0, <1>1, <2>1, TrialsFrame DEF AccountsTypeOK, serviceVars
<1>3. TokensOK'
  <2>0. /\ \A v \in DOMAIN users : users[v].token \in Nat
        /\ \A t \in 1 .. MaxTokens : resets[t] \in Nat
    BY <1>0 DEF AccountsTypeOK, UserRecord
  <2>1. /\ \A v \in DOMAIN users : /\ users[v].token <= issued
                                   /\ users[v].token # 0 => resets[users[v].token] = 0
        /\ \A t \in 1 .. MaxTokens : t > issued => resets[t] = 0
    BY DEF AccountsInv, TokensOK
  <2>2. \A v \in DOMAIN users' : /\ users'[v].token <= issued'
                                 /\ users'[v].token # 0 => resets'[users'[v].token] = 0
    <3>1. \A v \in DOMAIN users \ {u} : /\ users'[v].token <= issued'
                                        /\ users'[v].token # 0 => resets'[users'[v].token] = 0
      BY <1>0, <1>1, <2>0, <2>1
    <3>2. users'[u].token <= issued' /\ resets'[users'[u].token] = 0
      BY <1>0, <1>1, <2>1
    <3> QED BY <1>1, <3>1, <3>2
  <2>3. \A v, w \in DOMAIN users' : users'[v].token = users'[w].token => users'[v].token = 0 \/ v = w
    BY <1>0, <1>1, <2>0, <2>1 DEF AccountsInv, TokensOK
  <2>4. \A t \in 1 .. MaxTokens : t > issued' => resets'[t] = 0
    BY <1>0, <2>1
  <2>5. ASSUME NEW k \in Handlers, call'[k].op = "resetPassword"
        PROVE  /\ call'[k].token <= issued'
               /\ \A v \in DOMAIN users' : users'[v].token = call'[k].token => v = call'[k].id
    <3>1. call'[k] = call[k]
      BY <1>0 DEF serviceVars
    <3>2. /\ call[k].token <= issued
          /\ \A v \in DOMAIN users : users[v].token = call[k].token => v = call[k].id
      BY <2>5, <3>1 DEF AccountsInv, TokensOK
    <3>3. call[k].token \in Nat
      BY <2>5, <3>1 DEF AccountsInv, AccountsOK, AccountCalls, Idle
    <3> QED BY <1>0, <1>1, <3>1, <3>2, <3>3
  <2>6. \A t \in 1 .. MaxTokens : resets'[t] + Cardinality(Resetting(t)') <= Side'
    BY <1>0 DEF AccountsInv, TokensOK, Resetting, Side, Offered, serviceVars
  <2> QED BY <2>2, <2>3, <2>4, <2>5, <2>6 DEF TokensOK
<1>4. AccountsOK'
  <2>1. BusyOK'
    BY <1>0, FewerBusy DEF AccountsInv, AccountsOK, Busy, serviceVars
  <2>2. AccountsTypeOK'
    BY <1>0, <1>1 DEF AccountsTypeOK
  <2> QED BY <1>0, <1>1, <2>1, <2>2 DEF AccountsInv, AccountsOK, serviceVars
<1> QED BY <1>2, <1>3, <1>4 DEF AccountsInv

(* A handler gets past the check with a link that was never used.           *)
LEMMA ResetReadsStep ==
    ASSUME AccountsInv, NEW h \in Handlers, NEW u \in Users, NEW token \in 1 .. issued, ResetReads(h, u, token)
    PROVE  AccountsInv'
<1> DEFINE r == [op |-> "resetPassword", id |-> u, token |-> token]
<1>0. AccountsTypeOK /\ u \in DOMAIN users /\ users[u].token = token /\ token \in 1 .. MaxTokens /\ issued \in Nat
      /\ UNCHANGED accountVars
  BY AccountsAssumption DEF AccountsInv, AccountsOK, AccountsTypeOK, ResetReads, Live
<1>1. /\ call' \in [Handlers -> AccountCalls] /\ call[h] = Idle
      /\ \A k \in Handlers : call'[k] = IF k = h THEN r ELSE call[k]
      /\ h \notin Busy /\ Busy' = Busy \cup {h} /\ BusyOK' /\ Cardinality(Busy) + 1 <= Side
      /\ Side' = Side /\ scenario' = scenario
  <2>1. r \in AccountCalls /\ r # Idle
    BY <1>0 DEF AccountCalls, Idle
  <2> QED BY <2>1, AccountTakes DEF ResetReads
<1>2. TrialsOK'
  <2>1. \A k \in Handlers : "verifyEmail" \in {call'[k].op, call[k].op} => call'[k] = call[k]
    BY <1>1 DEF Idle
  <2> QED BY <1>0, <1>1, <2>1, TrialsFrame DEF AccountsTypeOK, accountVars
<1>3. TokensOK'
  <2>1. resets[token] = 0
    BY <1>0 DEF AccountsInv, TokensOK
  <2>2. ASSUME NEW t \in 1 .. MaxTokens PROVE resets'[t] + Cardinality(Resetting(t)') <= Side'
    <3>1. CASE t = token
      <4>1. Resetting(t)' \subseteq Busy'
        BY DEF Resetting, Busy, Idle
      <4>2. Cardinality(Resetting(t)') <= Cardinality(Busy') /\ Cardinality(Busy') <= Side'
            /\ Cardinality(Resetting(t)') \in Nat
        BY <1>1, <4>1, FewHandlers DEF Busy, BusyOK
      <4>3. Cardinality(Busy') \in Nat
        BY FewHandlers DEF Busy
      <4> QED BY <1>0, <1>1, <2>1, <3>1, <4>2, <4>3, SideIsNat DEF accountVars
    <3>2. CASE t # token
      <4>1. Resetting(t)' = Resetting(t)
        BY <1>1, <3>2 DEF Resetting, Idle
      <4> QED BY <1>0, <1>1, <4>1 DEF AccountsInv, TokensOK, accountVars
    <3> QED BY <3>1, <3>2
  <2>3. ASSUME NEW k \in Handlers, call'[k].op = "resetPassword"
        PROVE  /\ call'[k].token <= issued'
               /\ \A v \in DOMAIN users' : users'[v].token = call'[k].token => v = call'[k].id
    <3>1. CASE k = h
      <4>1. call'[k].token = token /\ call'[k].id = u
        BY <1>1, <3>1
      <4>2. \A v \in DOMAIN users : users[v].token = users[u].token => users[v].token = 0 \/ v = u
        BY <1>0 DEF AccountsInv, TokensOK
      <4> QED BY <1>0, <4>1, <4>2 DEF accountVars
    <3>2. CASE k # h
      BY <1>0, <1>1, <2>3, <3>2 DEF AccountsInv, TokensOK, accountVars
    <3> QED BY <3>1, <3>2
  <2> QED BY <1>0, <2>2, <2>3 DEF AccountsInv, TokensOK, accountVars
<1>4. AccountsOK'
  BY <1>0, <1>1 DEF AccountsInv, AccountsOK, AccountsTypeOK, accountVars
<1> QED BY <1>2, <1>3, <1>4 DEF AccountsInv

(* The link that is used leaves the account it was in, whatever link that   *)
(* account holds by now.                                                    *)
LEMMA ResetWritesStep == ASSUME AccountsInv, NEW h \in Handlers, ResetWrites(h) PROVE AccountsInv'
<1>0. AccountsTypeOK
  BY DEF AccountsInv, AccountsOK
<1>1. /\ call' \in [Handlers -> AccountCalls] /\ call[h].op = "resetPassword"
      /\ \A k \in Handlers : call'[k] = IF k = h THEN Idle ELSE call[k]
      /\ BusyOK' /\ Side' = Side /\ scenario' = scenario /\ UNCHANGED <<links, issued, trials, cut>>
  BY AccountEnds DEF ResetWrites
<1>2. PICK u \in DOMAIN users, t \in 1 .. MaxTokens : u = call[h].id /\ t = call[h].token /\ users[u] \in UserRecord
  BY <1>0, <1>1 DEF AccountsInv, AccountsOK, AccountsTypeOK, AccountCalls, Idle
<1>3. \A k \in Handlers : /\ call'[k].op = "resetPassword" => call'[k] = call[k] /\ k # h
                          /\ "verifyEmail" \in {call'[k].op, call[k].op} => call'[k] = call[k]
  BY <1>1 DEF Idle
<1>4. CASE UNCHANGED <<users, resets>>
  <2>1. TokensOK' /\ TrialsOK'
    BY <1>0, <1>1, <1>3, <1>4, TokensFrame, TrialsFrame DEF AccountsTypeOK
  <2>2. AccountsOK'
    BY <1>0, <1>1, <1>4 DEF AccountsInv, AccountsOK, AccountsTypeOK, Idle
  <2> QED BY <2>1, <2>2 DEF AccountsInv
<1>5. CASE Sets(u, [token |-> 0, fresh |-> FALSE, verified |-> TRUE]) /\ resets' = [resets EXCEPT ![t] = @ + 1]
  <2>1. /\ DOMAIN users' = DOMAIN users /\ \A v \in DOMAIN users : users'[v] \in UserRecord
        /\ \A v \in DOMAIN users \ {u} : users'[v] = users[v]
        /\ users'[u].token = 0 /\ users'[u].verified = TRUE
        /\ users'[u].byLink = users[u].byLink /\ users'[u].onboarding = users[u].onboarding
    <3>1. users[u].email \in Addresses /\ users[u].kind \in Kinds /\ NoCode \in Addresses \cup Words \cup {NoCode}
          /\ TRUE \in BOOLEAN /\ 0 \in 0 .. MaxTokens
      BY <1>2, AccountsAssumption DEF UserRecord
    <3>2. Tells(users[u], [token |-> 0, fresh |-> FALSE, verified |-> TRUE], 0, TRUE, users[u].byLink, users[u].onboarding)
      BY <1>2, <3>1, UserRows
    <3> QED BY <1>0, <1>5, <3>2, SetsRow DEF Tells
  <2>2. TrialsOK'
    <3>1. ASSUME NEW v \in DOMAIN users
          PROVE  /\ users[v].verified => users'[v].verified
                 /\ users'[v].byLink /\ users'[v].onboarding => users[v].byLink /\ users[v].onboarding
      <4>1. CASE v = u
        BY <2>1, <4>1
      <4>2. CASE v # u
        BY <2>1, <4>2
      <4> QED BY <4>1, <4>2
    <3> QED BY <1>0, <1>1, <1>3, <2>1, <3>1, TrialsFrame DEF AccountsTypeOK
  <2>3. TokensOK'
    <3>0. /\ \A v \in DOMAIN users : users[v].token \in 0 .. MaxTokens
          /\ \A s \in 1 .. MaxTokens : resets[s] \in Nat /\ resets'[s] = IF s = t THEN resets[t] + 1 ELSE resets[s]
          /\ issued \in Nat /\ MaxTokens \in Nat
      BY <1>0, <1>5, AccountsAssumption DEF AccountsTypeOK, UserRecord
    <3>1. t <= issued /\ \A v \in DOMAIN users : users[v].token = t => v = u
      BY <1>1, <1>2 DEF AccountsInv, TokensOK
    <3>2. \A v \in DOMAIN users \ {u} : users'[v] = users[v] /\ users[v].token # t
      BY <2>1, <3>1
    <3>3. ASSUME NEW v \in DOMAIN users'
          PROVE  users'[v].token <= issued' /\ (users'[v].token # 0 => resets'[users'[v].token] = 0)
      <4>1. CASE v = u
        BY <1>1, <2>1, <3>0, <4>1
      <4>2. CASE v # u
        <5>1. /\ users[v].token <= issued /\ (users[v].token # 0 => resets[users[v].token] = 0)
              /\ users'[v] = users[v] /\ users[v].token # t /\ v \in DOMAIN users
          BY <2>1, <3>2, <4>2 DEF AccountsInv, TokensOK
        <5> QED BY <1>1, <3>0, <5>1
      <4> QED BY <4>1, <4>2
    <3>4. ASSUME NEW v \in DOMAIN users', NEW w \in DOMAIN users', users'[v].token = users'[w].token
          PROVE  users'[v].token = 0 \/ v = w
      <4>1. CASE v = u \/ w = u
        BY <2>1, <3>4, <4>1
      <4>2. CASE v # u /\ w # u
        BY <2>1, <3>4, <4>2 DEF AccountsInv, TokensOK
      <4> QED BY <4>1, <4>2
    <3>5. ASSUME NEW s \in 1 .. MaxTokens, s > issued' PROVE resets'[s] = 0
      <4>1. resets[s] = 0 /\ s # t
        BY <1>1, <3>0, <3>1, <3>5 DEF AccountsInv, TokensOK
      <4> QED BY <3>0, <4>1
    <3>6. ASSUME NEW k \in Handlers, call'[k].op = "resetPassword"
          PROVE  /\ call'[k].token <= issued'
                 /\ \A v \in DOMAIN users' : users'[v].token = call'[k].token => v = call'[k].id
      <4>1. /\ call[k].token <= issued /\ call'[k] = call[k]
            /\ \A v \in DOMAIN users : users[v].token = call[k].token => v = call[k].id
        BY <1>3, <3>6 DEF AccountsInv, TokensOK
      <4>2. call[k].token # 0
        BY <1>3, <3>6 DEF AccountsInv, AccountsOK, AccountCalls, Idle
      <4>3. ASSUME NEW v \in DOMAIN users', users'[v].token = call[k].token PROVE v = call[k].id
        <5>1. v # u
          BY <2>1, <4>2, <4>3
        <5> QED BY <2>1, <4>1, <4>3, <5>1
      <4> QED BY <1>1, <4>1, <4>3
    <3>7. ASSUME NEW s \in 1 .. MaxTokens PROVE resets'[s] + Cardinality(Resetting(s)') <= Side'
      <4>1. resets[s] + Cardinality(Resetting(s)) <= Side
        BY DEF AccountsInv, TokensOK
      <4>2. Cardinality(Resetting(s)) \in Nat
        BY FewHandlers DEF Resetting
      <4>3. CASE s = t
        <5>1. h \in Resetting(s) /\ Resetting(s)' = Resetting(s) \ {h} /\ IsFiniteSet(Resetting(s))
          BY <1>1, <1>2, <4>3, FewHandlers DEF Resetting, Idle
        <5>2. Cardinality(Resetting(s)') = Cardinality(Resetting(s)) - 1
          BY <5>1, FS_RemoveElement
        <5> QED BY <1>1, <3>0, <4>1, <4>2, <4>3, <5>2
      <4>4. CASE s # t
        <5>1. Resetting(s)' = Resetting(s)
          BY <1>1, <1>2, <4>4 DEF Resetting, Idle
        <5> QED BY <1>1, <3>0, <4>1, <4>4, <5>1
      <4> QED BY <4>3, <4>4
    <3> QED BY <3>3, <3>4, <3>5, <3>6, <3>7 DEF TokensOK
  <2>4. AccountsOK'
    <3>1. resets' \in [1 .. MaxTokens -> Nat]
      BY <1>0, <1>5 DEF AccountsTypeOK
    <3>2. AccountsTypeOK'
      BY <1>0, <1>1, <2>1, <3>1 DEF AccountsTypeOK
    <3> QED BY <1>1, <2>1, <3>2 DEF AccountsInv, AccountsOK, Idle
  <2> QED BY <2>2, <2>3, <2>4 DEF AccountsInv
<1> QED BY <1>2, <1>4, <1>5 DEF ResetWrites

-----------------------------------------------------------------------------
(* Verification by the link                                                 *)

(* Only an account that is not verified, and so has no trial, gets another  *)
(* handler.                                                                 *)
LEMMA VerifyReadsStep == ASSUME AccountsInv, NEW h \in Handlers, NEW u \in Users, VerifyReads(h, u) PROVE AccountsInv'
<1> DEFINE r == [op |-> "verifyEmail", at |-> "user", id |-> u, code |-> users[u].code, email |-> users[u].email]
<1>0. AccountsTypeOK /\ u \in DOMAIN users /\ ~users[u].verified /\ UNCHANGED accountVars
  BY DEF AccountsInv, AccountsOK, VerifyReads, Live
<1>1. /\ call' \in [Handlers -> AccountCalls] /\ call[h] = Idle
      /\ \A k \in Handlers : call'[k] = IF k = h THEN r ELSE call[k]
      /\ h \notin Busy /\ Busy' = Busy \cup {h} /\ BusyOK' /\ Cardinality(Busy) + 1 <= Side
      /\ Side' = Side /\ scenario' = scenario
  <2>1. r \in AccountCalls /\ r # Idle
    BY <1>0 DEF AccountsTypeOK, UserRecord, AccountCalls, Idle
  <2> QED BY <2>1, AccountTakes DEF VerifyReads
<1>2. TokensOK'
  <2>1. \A k \in Handlers : call'[k].op = "resetPassword" => call'[k] = call[k]
    BY <1>1
  <2> QED BY <1>0, <1>1, <2>1, TokensFrame DEF accountVars
<1>3. TrialsOK'
  <2>1. trials[u] = 0
    BY <1>0 DEF AccountsInv, TrialsOK, AccountsTypeOK
  <2>2. ASSUME NEW v \in DOMAIN users PROVE trials[v] + Cardinality(VerifiersOf(v)') <= Side
    <3>1. CASE v = u
      <4>1. VerifiersOf(v)' \subseteq Busy'
        BY DEF VerifiersOf, Busy, Idle
      <4>2. Cardinality(VerifiersOf(v)') <= Cardinality(Busy') /\ Cardinality(Busy') <= Side
            /\ Cardinality(VerifiersOf(v)') \in Nat /\ Cardinality(Busy') \in Nat
        BY <1>1, <4>1, FewHandlers DEF Busy, BusyOK
      <4> QED BY <2>1, <3>1, <4>2, SideIsNat
    <3>2. CASE v # u
      <4>1. VerifiersOf(v)' = VerifiersOf(v)
        BY <1>1, <3>2 DEF VerifiersOf, Idle
      <4> QED BY <4>1 DEF AccountsInv, TrialsOK
    <3> QED BY <3>1, <3>2
  <2>3. ASSUME NEW v \in DOMAIN users, users[v].byLink, users[v].onboarding, TrialDays > 0
        PROVE  trials[v] > 0 \/ v \in cut \/ \E k \in VerifiersOf(v)' : call'[k].at # "user"
    <3>1. trials[v] > 0 \/ v \in cut \/ \E k \in VerifiersOf(v) : call[k].at # "user"
      BY <2>3 DEF AccountsInv, TrialsOK
    <3>2. \A k \in VerifiersOf(v) : k \in VerifiersOf(v)' /\ call'[k] = call[k]
      BY <1>1 DEF VerifiersOf, Idle
    <3> QED BY <3>1, <3>2
  <2>4. \A k \in Handlers : call'[k].op = "verifyEmail" /\ call'[k].at # "user" => users[call'[k].id].verified
    BY <1>1 DEF AccountsInv, TrialsOK
  <2> QED BY <1>0, <1>1, <2>2, <2>3, <2>4 DEF AccountsInv, TrialsOK, accountVars
<1>4. AccountsOK'
  BY <1>0, <1>1 DEF AccountsInv, AccountsOK, AccountsTypeOK, accountVars
<1> QED BY <1>2, <1>3, <1>4 DEF AccountsInv

LEMMA VerifierGoesOn ==
    ASSUME AccountsInv, NEW h \in Handlers, NEW at \in {"profile", "trial"},
           GoesOn(h, "verifyEmail", [call[h] EXCEPT !.at = at])
    PROVE  /\ call' \in [Handlers -> AccountCalls] /\ call'[h].id = call[h].id /\ call'[h].at = at
           /\ call[h].op = "verifyEmail" /\ call'[h].op = "verifyEmail"
           /\ call[h].id \in DOMAIN users /\ \A k \in Handlers \ {h} : call'[k] = call[k]
           /\ \A v : VerifiersOf(v)' = VerifiersOf(v)
           /\ BusyOK' /\ Side' = Side /\ scenario' = scenario
<1>1. DOMAIN call = Handlers /\ BusyOK /\ call \in [Handlers -> AccountCalls] /\ call[h].op = "verifyEmail"
  BY DEF AccountsInv, AccountsOK, GoesOn
<1> DEFINE r == [call[h] EXCEPT !.at = at]
<1>2. r \in AccountCalls /\ r # Idle /\ r.id = call[h].id /\ r.at = at /\ r.op = "verifyEmail"
  BY <1>1 DEF AccountCalls, Idle
<1> HIDE DEF r
<1>3. /\ call' \in [Handlers -> AccountCalls] /\ call'[h] = r
      /\ \A k \in Handlers \ {h} : call'[k] = call[k]
  BY <1>1, <1>2 DEF GoesOn, r
<1>4. \A v : VerifiersOf(v)' = VerifiersOf(v)
  BY <1>1, <1>2, <1>3 DEF VerifiersOf
<1>5. BusyOK' /\ Side' = Side /\ scenario' = scenario
  BY <1>1, <1>2, GoesOnBusy DEF GoesOn, r
<1> QED BY <1>1, <1>2, <1>3, <1>4, <1>5 DEF AccountsInv, AccountsOK

LEMMA VerifierEnds ==
    ASSUME AccountsInv, NEW h \in Handlers, Ends(h, {"verifyEmail"})
    PROVE  /\ call' \in [Handlers -> AccountCalls] /\ call[h].op = "verifyEmail"
           /\ call[h].id \in DOMAIN users /\ call'[h] = Idle
           /\ \A k \in Handlers \ {h} : call'[k] = call[k]
           /\ \A v : /\ VerifiersOf(v)' = VerifiersOf(v) \ {h}
                     /\ Cardinality(VerifiersOf(v)) \in Nat /\ Cardinality(VerifiersOf(v)') \in Nat
                     /\ Cardinality(VerifiersOf(v)')
                          = Cardinality(VerifiersOf(v)) - (IF v = call[h].id THEN 1 ELSE 0)
           /\ BusyOK' /\ Side' = Side /\ scenario' = scenario
<1>1. /\ call' \in [Handlers -> AccountCalls] /\ call[h].op = "verifyEmail"
      /\ \A k \in Handlers : call'[k] = IF k = h THEN Idle ELSE call[k]
      /\ BusyOK' /\ Side' = Side /\ scenario' = scenario
  BY AccountEnds
<1>2. ASSUME NEW v
      PROVE  /\ VerifiersOf(v)' = VerifiersOf(v) \ {h}
             /\ Cardinality(VerifiersOf(v)) \in Nat /\ Cardinality(VerifiersOf(v)') \in Nat
             /\ Cardinality(VerifiersOf(v)') = Cardinality(VerifiersOf(v)) - (IF v = call[h].id THEN 1 ELSE 0)
  <2>1. VerifiersOf(v)' = VerifiersOf(v) \ {h} /\ (h \in VerifiersOf(v) <=> v = call[h].id)
    BY <1>1 DEF VerifiersOf, Idle
  <2>2. /\ IsFiniteSet(VerifiersOf(v)) /\ Cardinality(VerifiersOf(v)) \in Nat
        /\ Cardinality(VerifiersOf(v)') \in Nat
    BY FewHandlers DEF VerifiersOf
  <2>3. CASE v = call[h].id
    <3>1. Cardinality(VerifiersOf(v) \ {h}) = Cardinality(VerifiersOf(v)) - 1
      BY <2>1, <2>2, <2>3, FS_RemoveElement
    <3> QED BY <2>1, <2>2, <2>3, <3>1
  <2>4. CASE v # call[h].id
    <3>1. VerifiersOf(v)' = VerifiersOf(v)
      BY <2>1, <2>4
    <3>2. Cardinality(VerifiersOf(v)') = Cardinality(VerifiersOf(v)) - 0
      BY <2>2, <3>1
    <3> QED BY <2>1, <2>2, <2>4, <3>2
  <2> QED BY <2>3, <2>4
<1> QED BY <1>1, <1>2 DEF AccountsInv, AccountsOK

(* A handler past the check either goes on, or did nothing.                 *)
LEMMA VerifyMarksStep == ASSUME AccountsInv, NEW h \in Handlers, VerifyMarks(h) PROVE AccountsInv'
<1>0. AccountsTypeOK /\ call[h] \in AccountCalls /\ call[h].op = "verifyEmail" /\ call[h].at = "user"
      /\ UNCHANGED <<links, issued, resets, trials, cut>>
  BY DEF AccountsInv, AccountsOK, VerifyMarks
<1>1. PICK u \in DOMAIN users : u = call[h].id /\ users[u] \in UserRecord
  BY <1>0 DEF AccountsInv, AccountsOK, AccountsTypeOK
<1>2. CASE UNCHANGED users /\ Ends(h, {"verifyEmail"})
  <2>1. TokensOK'
    <3>1. \A k \in Handlers : call'[k].op = "resetPassword" => call'[k] = call[k]
      BY <1>2, AccountEnds DEF Idle
    <3>2. scenario' = scenario
      BY <1>2 DEF Ends
    <3> QED BY <1>0, <1>2, <3>1, <3>2, TokensFrame
  <2>2. TrialsOK'
    <3>1. ASSUME NEW v \in DOMAIN users PROVE trials[v] + Cardinality(VerifiersOf(v)') <= Side
      <4>1. trials[v] \in Nat /\ trials[v] + Cardinality(VerifiersOf(v)) <= Side
        BY <1>0 DEF AccountsInv, TrialsOK, AccountsTypeOK
      <4> QED BY <1>2, <4>1, VerifierEnds, SideIsNat
    <3>2. ASSUME NEW v \in DOMAIN users, users[v].byLink, users[v].onboarding, TrialDays > 0
          PROVE  trials[v] > 0 \/ v \in cut \/ \E k \in VerifiersOf(v)' : call'[k].at # "user"
      <4>1. trials[v] > 0 \/ v \in cut \/ \E k \in VerifiersOf(v) : call[k].at # "user"
        BY <3>2 DEF AccountsInv, TrialsOK
      <4>2. \A k \in VerifiersOf(v) : call[k].at # "user" => k \in VerifiersOf(v)' /\ call'[k] = call[k]
        BY <1>0, <1>2, VerifierEnds DEF VerifiersOf
      <4> QED BY <4>1, <4>2
    <3>3. \A k \in Handlers : call'[k].op = "verifyEmail" /\ call'[k].at # "user" => users[call'[k].id].verified
      BY <1>2, VerifierEnds DEF AccountsInv, TrialsOK, Idle
    <3>4. Side' = Side
      BY <1>2, VerifierEnds
    <3> QED BY <1>0, <1>2, <3>1, <3>2, <3>3, <3>4 DEF AccountsInv, TrialsOK
  <2>3. AccountsOK'
    BY <1>0, <1>2, VerifierEnds DEF AccountsInv, AccountsOK, AccountsTypeOK, Idle
  <2> QED BY <2>1, <2>2, <2>3 DEF AccountsInv
<1>3. ASSUME NEW code \in Addresses \cup Words \cup {NoCode},
             Sets(u, [verified |-> TRUE, byLink |-> TRUE, code |-> code]),
             GoesOn(h, "verifyEmail", [call[h] EXCEPT !.at = "profile"])
      PROVE  AccountsInv'
  <2>1. /\ DOMAIN users' = DOMAIN users /\ \A v \in DOMAIN users : users'[v] \in UserRecord
        /\ \A v \in DOMAIN users \ {u} : users'[v] = users[v]
        /\ users'[u].token = users[u].token /\ users'[u].verified = TRUE
    <3>1. users[u].email \in Addresses /\ users[u].kind \in Kinds /\ TRUE \in BOOLEAN /\ 0 \in 0 .. MaxTokens
      BY <1>1, AccountsAssumption DEF UserRecord
    <3>2. Tells(users[u], [verified |-> TRUE, byLink |-> TRUE, code |-> code],
                users[u].token, TRUE, TRUE, users[u].onboarding)
      BY <1>1, <3>1, UserRows
    <3> QED BY <1>0, <1>3, <3>2, SetsRow DEF Tells
  <2>2. /\ call' \in [Handlers -> AccountCalls] /\ call'[h].id = u /\ call'[h].at = "profile"
        /\ call'[h].op = "verifyEmail"
        /\ \A k \in Handlers \ {h} : call'[k] = call[k]
        /\ \A v : VerifiersOf(v)' = VerifiersOf(v)
        /\ BusyOK' /\ Side' = Side /\ scenario' = scenario
    BY <1>1, <1>3, VerifierGoesOn
  <2>3. TokensOK'
    <3>1. \A k \in Handlers : call'[k].op = "resetPassword" => call'[k] = call[k]
      BY <2>2
    <3>2. \A v \in DOMAIN users' : users'[v].token = IF v \in DOMAIN users THEN users[v].token ELSE 0
      BY <2>1
    <3> QED BY <1>0, <2>2, <3>1, <3>2, TokensFrame
  <2>4. TrialsOK'
    <3>1. \A v \in Users : trials[v] > 0 => v \in DOMAIN users' /\ users'[v].verified
      BY <2>1 DEF AccountsInv, TrialsOK
    <3>2. \A k \in Handlers : call'[k].op = "verifyEmail" /\ call'[k].at # "user" => users'[call'[k].id].verified
      <4>1. ASSUME NEW k \in Handlers, call'[k].op = "verifyEmail", call'[k].at # "user"
            PROVE  users'[call'[k].id].verified
        <5>1. CASE k = h
          BY <2>1, <2>2, <5>1
        <5>2. CASE k # h
          <6>1. call'[k] = call[k] /\ users[call[k].id].verified /\ call[k].id \in DOMAIN users
            BY <2>2, <4>1, <5>2 DEF AccountsInv, TrialsOK, AccountsOK
          <6> QED BY <2>1, <6>1
        <5> QED BY <5>1, <5>2
      <4> QED BY <4>1
    <3>3. ASSUME NEW v \in DOMAIN users, users'[v].byLink, users'[v].onboarding, TrialDays > 0
          PROVE  trials[v] > 0 \/ v \in cut \/ \E k \in VerifiersOf(v)' : call'[k].at # "user"
      <4>1. CASE v = u
        <5>1. h \in VerifiersOf(v)' /\ call'[h].at # "user"
          BY <2>2, <4>1 DEF VerifiersOf
        <5> QED BY <5>1
      <4>2. CASE v # u
        <5>1. trials[v] > 0 \/ v \in cut \/ \E k \in VerifiersOf(v) : call[k].at # "user"
          BY <2>1, <3>3, <4>2 DEF AccountsInv, TrialsOK
        <5>2. \A k \in VerifiersOf(v) : k \in VerifiersOf(v)' /\ call'[k] = call[k]
          BY <1>1, <2>2, <4>2 DEF VerifiersOf
        <5> QED BY <5>1, <5>2
      <4> QED BY <4>1, <4>2
    <3> QED BY <1>0, <2>1, <2>2, <3>1, <3>2, <3>3 DEF AccountsInv, TrialsOK
  <2>5. AccountsOK'
    <3>1. AccountsTypeOK'
      BY <1>0, <2>1 DEF AccountsTypeOK
    <3> QED BY <1>1, <2>1, <2>2, <3>1 DEF AccountsInv, AccountsOK
  <2> QED BY <2>3, <2>4, <2>5 DEF AccountsInv
<1>4. /\ call[h].email \in Addresses \cup Words \cup {NoCode}
      /\ users[u].code \in Addresses \cup Words \cup {NoCode}
  BY <1>0, <1>1 DEF AccountCalls, Idle, UserRecord
<1> QED BY <1>1, <1>2, <1>3, <1>4 DEF VerifyMarks

(* The trial: nothing to do, or the last write.                             *)
LEMMA VerifyEndsSteps ==
    ASSUME AccountsInv, NEW h \in Handlers, Ends(h, {"verifyEmail"}), call[h].at # "user",
           UNCHANGED <<users, links, issued, resets>>,
           \/ /\ trials' = [trials EXCEPT ![call[h].id] = @ + 1] /\ cut' = cut
           \/ /\ trials' = trials
              /\ \/ cut' = cut /\ ~(users[call[h].id].onboarding /\ TrialDays > 0)
                 \/ cut' = cut \cup {call[h].id}
    PROVE  AccountsInv'
<1>0. AccountsTypeOK /\ call[h].op = "verifyEmail"
  BY DEF AccountsInv, AccountsOK, Ends
<1>1. PICK u \in DOMAIN users : u = call[h].id /\ users[u].verified
  BY <1>0, VerifierEnds DEF AccountsInv, TrialsOK
<1>2. /\ u \in Users /\ cut \subseteq cut' /\ cut' \subseteq DOMAIN users /\ trials' \in [Users -> Nat]
      /\ \A v \in Users : /\ trials[v] \in Nat
                          /\ v # u => trials'[v] = trials[v]
                          /\ trials'[v] \in {trials[v], trials[v] + 1}
  BY <1>0, <1>1 DEF AccountsTypeOK
<1>3. TokensOK'
  <2>1. \A k \in Handlers : call'[k].op = "resetPassword" => call'[k] = call[k]
    BY AccountEnds DEF Idle
  <2>2. scenario' = scenario
    BY DEF Ends
  <2> QED BY <2>1, <2>2, TokensFrame
<1>4. TrialsOK'
  <2>1. ASSUME NEW v \in DOMAIN users PROVE trials'[v] + Cardinality(VerifiersOf(v)') <= Side'
    <3>1. trials[v] + Cardinality(VerifiersOf(v)) <= Side /\ v \in Users
      BY <1>0 DEF AccountsInv, TrialsOK, AccountsTypeOK
    <3>2. /\ Side' = Side /\ Cardinality(VerifiersOf(v)) \in Nat /\ Cardinality(VerifiersOf(v)') \in Nat
          /\ Cardinality(VerifiersOf(v)') = Cardinality(VerifiersOf(v)) - (IF v = u THEN 1 ELSE 0)
      BY <1>1, VerifierEnds
    <3> QED BY <1>2, <3>1, <3>2, SideIsNat
  <2>2. ASSUME NEW v \in DOMAIN users, users[v].byLink, users[v].onboarding, TrialDays > 0
        PROVE  trials'[v] > 0 \/ v \in cut' \/ \E k \in VerifiersOf(v)' : call'[k].at # "user"
    <3>1. CASE v = u
      <4>1. trials'[v] = trials[v] + 1 \/ v \in cut'
        BY <1>0, <1>1, <1>2, <2>2, <3>1 DEF AccountsTypeOK
      <4> QED BY <1>1, <1>2, <3>1, <4>1
    <3>2. CASE v # u
      <4>1. trials[v] > 0 \/ v \in cut \/ \E k \in VerifiersOf(v) : call[k].at # "user"
        BY <2>2 DEF AccountsInv, TrialsOK
      <4>2. \A k \in VerifiersOf(v) : k \in VerifiersOf(v)' /\ call'[k] = call[k]
        BY <1>1, <3>2, VerifierEnds DEF VerifiersOf
      <4>3. v \in Users
        BY <1>0 DEF AccountsTypeOK
      <4> QED BY <1>2, <3>2, <4>1, <4>2, <4>3
    <3> QED BY <3>1, <3>2
  <2>3. \A k \in Handlers : call'[k].op = "verifyEmail" /\ call'[k].at # "user" => users[call'[k].id].verified
    BY VerifierEnds DEF AccountsInv, TrialsOK, Idle
  <2>4. ASSUME NEW v \in Users, trials'[v] > 0 PROVE v \in DOMAIN users /\ users[v].verified
    BY <1>1, <1>2, <2>4 DEF AccountsInv, TrialsOK
  <2> QED BY <2>1, <2>2, <2>3, <2>4 DEF TrialsOK
<1>5. AccountsOK'
  <2>1. AccountsTypeOK'
    BY <1>0, <1>2 DEF AccountsTypeOK
  <2> QED BY <2>1, VerifierEnds DEF AccountsInv, AccountsOK, Idle
<1> QED BY <1>3, <1>4, <1>5 DEF AccountsInv

LEMMA VerifyProfileStep == ASSUME AccountsInv, NEW h \in Handlers, VerifyProfile(h) PROVE AccountsInv'
<1>0. call[h].op = "verifyEmail" /\ call[h].at = "profile" /\ UNCHANGED <<users, links, issued, resets, trials>>
  BY DEF VerifyProfile
<1>1. CASE GoesOn(h, "verifyEmail", [call[h] EXCEPT !.at = "trial"]) /\ UNCHANGED cut
  <2>1. /\ call' \in [Handlers -> AccountCalls] /\ call'[h].id = call[h].id
        /\ call'[h].op = "verifyEmail" /\ call'[h].at = "trial" /\ call[h].id \in DOMAIN users
        /\ \A k \in Handlers \ {h} : call'[k] = call[k]
        /\ \A v : VerifiersOf(v)' = VerifiersOf(v)
        /\ BusyOK' /\ Side' = Side /\ scenario' = scenario
    BY <1>1, VerifierGoesOn
  <2>2. TokensOK'
    <3>1. \A k \in Handlers : call'[k].op = "resetPassword" => call'[k] = call[k]
      BY <2>1
    <3> QED BY <1>0, <2>1, <3>1, TokensFrame
  <2>3. TrialsOK'
    <3>1. \A k \in Handlers : call'[k].op = "verifyEmail" /\ call'[k].at # "user" => users[call'[k].id].verified
      BY <1>0, <2>1 DEF AccountsInv, TrialsOK
    <3>2. ASSUME NEW v \in DOMAIN users, users[v].byLink, users[v].onboarding, TrialDays > 0
          PROVE  trials[v] > 0 \/ v \in cut \/ \E k \in VerifiersOf(v)' : call'[k].at # "user"
      <4>1. trials[v] > 0 \/ v \in cut \/ \E k \in VerifiersOf(v) : call[k].at # "user"
        BY <3>2 DEF AccountsInv, TrialsOK
      <4>2. \A k \in VerifiersOf(v) : call[k].at # "user" => call'[k].at # "user"
        BY <2>1 DEF VerifiersOf
      <4> QED BY <2>1, <4>1, <4>2
    <3> QED BY <1>0, <1>1, <2>1, <3>1, <3>2 DEF AccountsInv, TrialsOK
  <2>4. AccountsOK'
    BY <1>0, <1>1, <2>1 DEF AccountsInv, AccountsOK, AccountsTypeOK
  <2> QED BY <2>2, <2>3, <2>4 DEF AccountsInv
<1>2. CASE ~(GoesOn(h, "verifyEmail", [call[h] EXCEPT !.at = "trial"]) /\ UNCHANGED cut)
  <2>1. /\ Ends(h, {"verifyEmail"}) /\ cut' = cut \cup ({call[h].id} \ Live)
        /\ ~(call[h].id \in Live /\ users[call[h].id].onboarding /\ TrialDays > 0)
    BY <1>2 DEF VerifyProfile
  <2>2. \/ cut' = cut /\ ~(users[call[h].id].onboarding /\ TrialDays > 0)
        \/ cut' = cut \cup {call[h].id}
    BY <2>1
  <2> QED BY <1>0, <2>1, <2>2, VerifyEndsSteps
<1> QED BY <1>1, <1>2

LEMMA VerifyGrantsStep == ASSUME AccountsInv, NEW h \in Handlers, VerifyGrants(h) PROVE AccountsInv'
  BY VerifyEndsSteps DEF VerifyGrants

-----------------------------------------------------------------------------
LEMMA AccountsStep ==
    ASSUME AccountsInv, [AccountsNext]_<<accountVars, serviceVars>>
    PROVE  AccountsInv'
<1>1. CASE UNCHANGED <<accountVars, serviceVars>>
  <2>1. RowsKept
    BY <1>1 DEF RowsKept, AccountsInv, AccountsOK, AccountsTypeOK, accountVars
  <2> QED BY <1>1, <2>1, RowsOnly DEF accountVars
<1>2. CASE AccountsNext
  BY <1>2, RegistrationSteps, AccountRowSteps, ChecksSteps, WritesSteps, ForgotStep, ResetReadsStep, ResetWritesStep,
     VerifyReadsStep, VerifyMarksStep, VerifyProfileStep, VerifyGrantsStep, StopStep DEF AccountsNext
<1> QED BY <1>1, <1>2

LEMMA AccountsInvariant == AccountsSpec => []AccountsInv
  BY AccountsInitHolds, AccountsStep, PTL DEF AccountsSpec

(* A reset link sets a password at most once per handler that runs at the   *)
(* same time, however many links are asked for (auth.service                *)
(* forgotPassword, resetPassword).                                          *)
THEOREM ResetLinks == AccountsSpec => []ResetLinkWorksOnce
  BY AccountsInvariant, ResetsFollow, PTL

(* Who verifies by the link while onboarding has the trial, or the server   *)
(* stopped or the account was gone before the second write, and nobody has  *)
(* more trials than handlers ran side by side (auth.service verifyEmail).   *)
THEOREM VerifiedTrials == AccountsSpec => []TrialGoesWithVerification
  BY AccountsInvariant, TrialsFollow, PTL
=============================================================================
