--------------------------- MODULE Platform_proof ---------------------------
(* Proofs about Platform: what is proved of each service on its own holds   *)
(* where they share the handlers, for any values of their constants.        *)
(*                                                                          *)
(* A behaviour has one scenario, and a scenario is about one service: that  *)
(* service keeps its own invariant, and the tables of the others stay as    *)
(* they were.                                                               *)
EXTENDS Platform, Boards_proof, Catalogue_proof, People_proof, CronRunner_proof

(* No step changes the scenario.                                            *)
LEMMA HelpersKeep ==
    /\ UNCHANGED serviceVars => UNCHANGED scenario
    /\ \A h, r : Takes(h, r) => UNCHANGED scenario
    /\ \A h, op, r : GoesOn(h, op, r) => UNCHANGED scenario
    /\ \A h, ops : Ends(h, ops) => UNCHANGED scenario
  BY DEF serviceVars, Takes, GoesOn, Ends

LEMMA MessagesScenario == MessagesNext => UNCHANGED scenario
  BY HelpersKeep DEF MessagesNext, SendMessage, MarkAsRead, DeleteMessage, DeleteForAll, DeleteConversation, DeleteReceived

LEMMA JobsScenario == JobsNext => UNCHANGED scenario
  BY HelpersKeep
     DEF JobsNext, CreateJob, UpdateJobStatus, UpdateJob, SoftDeleteJob, DatePasses, VisitBegins, WorkVisitBegins,
         VisitCounts, ApplyBegins, WorkApplyBegins, ApplyInserts

LEMMA LandingsScenario == LandingsNext => UNCHANGED scenario
  BY HelpersKeep
     DEF LandingsNext, UpdateLanding, DeleteLanding, AddFieldReads, AddFieldInserts, UpdateField, DeleteField,
         ReorderReads, ReorderWrites, SubmitReads, SubmitInserts, DeleteSubmission

LEMMA TaxonomyScenario == TaxonomyNext => UNCHANGED scenario
<1>1. ASSUME NEW h \in Handlers, CategoryInserts(h) \/ CategoryWrites(h) \/ DeactivateWrites(h)
      PROVE  UNCHANGED scenario
  BY <1>1, HelpersKeep DEF CategoryInserts, CategoryWrites, DeactivateWrites
<1>2. /\ \A h, level, parent, slug : Creating(h, level, parent, slug) => UNCHANGED scenario
      /\ \A h, c, given, slug, parent, active : Changing(h, c, given, slug, parent, active) => UNCHANGED scenario
      /\ \A h, c : Deactivating(h, c) => UNCHANGED scenario
  BY HelpersKeep DEF Creating, Changing, Deactivating
<1> QED BY <1>1, <1>2
        DEF TaxonomyNext, AdminCreateRubro, AdminCreateSubrubro, AdminCreateProfesion, AdminDeactivateRubro,
            AdminDeactivateSubrubro, AdminDeactivateProfesion, AdminUpdateRubro, AdminUpdateSubrubro,
            AdminUpdateProfesion

LEMMA DiscountsScenario == DiscountsNext => UNCHANGED scenario
<1>1. ASSUME \/ DayPasses \/ JobsStop \/ AmountSetByHand
             \/ \E next \in Plans : PlanMoves(next)
             \/ \E o \in DOMAIN offers : RemoveOffer(o)
      PROVE  UNCHANGED scenario
  BY <1>1 DEF DayPasses, JobsStop, AmountSetByHand, PlanMoves, RemoveOffer, serviceVars
<1>2. ASSUME ApplySteps \/ RestoreSteps PROVE UNCHANGED scenario
  <2>1. \A r \in DiscountRuns : ApplyStarts(r) \/ ApplyMarks(r) \/ ApplyEnds(r) => UNCHANGED scenario
    BY DEF ApplyStarts, ApplyMarks, ApplyEnds, serviceVars
  <2>2. \A r \in DiscountRuns, d \in DiscountIds : ApplyOne(r, d) \/ RestoreOne(r, d) => UNCHANGED scenario
    BY DEF ApplyOne, RestoreOne, serviceVars
  <2>3. \A r \in DiscountRuns : RestoreStarts(r) \/ RestoreMarks(r) \/ RestoreEnds(r) => UNCHANGED scenario
    BY DEF RestoreStarts, RestoreMarks, RestoreEnds, serviceVars
  <2> QED BY <1>2, <2>1, <2>2, <2>3 DEF ApplySteps, RestoreSteps
<1>3. ASSUME NEW h \in Handlers,
             DiscountInserts(h) \/ DiscountDeleted(h) \/ OfferInserts(h) \/ OfferUpdates(h) \/ CheckoutCounts(h)
      PROVE  UNCHANGED scenario
  BY <1>3, HelpersKeep DEF DiscountInserts, DiscountDeleted, OfferInserts, OfferUpdates, CheckoutCounts
<1>4. /\ \A h, d : DiscountLeaves(h, d) => UNCHANGED scenario
      /\ \A h, o : CheckoutResolves(h, o) => UNCHANGED scenario
      /\ \A h, from, to : DiscountChecks(h, from, to) => UNCHANGED scenario
      /\ \A h, from, to, active : OfferChecks(h, from, to, active) => UNCHANGED scenario
      /\ \A h, o, given, from, to, active :
           OfferUpdateChecks(h, o, given, from, to, active) => UNCHANGED scenario
  BY HelpersKeep DEF DiscountLeaves, CheckoutResolves, DiscountChecks, OfferChecks, OfferUpdateChecks
<1> QED BY <1>1, <1>2, <1>3, <1>4 DEF DiscountsNext

LEMMA CronScenario == CronNext => UNCHANGED scenario
  BY HelpersKeep
     DEF CronNext, ServerStarts, ServerStops, UpdateCronJob, RestartReads, RestartSets, RunBegins, RunCreates,
         HandlerReturns, HandlerThrows, RecordsCompleted, CompletionFails, RecordsFailed, FailureIsLost

LEMMA ExternalJobsScenario == ExternalJobsNext => UNCHANGED scenario
  BY HelpersKeep
     DEF ExternalJobsNext, BoardChanges, SyncStarts, NextSource, FetchPage, FetchFails, FindExisting, UpsertWrites, UpsertFails,
         SourceDone

LEMMA AccountsScenario == AccountsNext => UNCHANGED scenario
  BY HelpersKeep
     DEF AccountsNext, Looks, Inserts, Register, ProfessionalRegister, CompanyRegister, AdminRegistersProfessional,
         CreateAdminUser, ResendVerification, LinkExpires, VerifyReads, VerifyMarks, VerifyProfile, VerifyGrants,
         ProfileMovesOn, ForgotPassword, TokenExpires, ResetReads, ResetWrites, CodeChecks, CodeWrites,
         AdminUpdateChecks, AdminUpdateWrites, SoftDelete, RestoreSoftDeletedUser, AccountsStop

LEMMA ProfilesScenario == ProfilesNext => UNCHANGED scenario
  BY HelpersKeep
     DEF ProfilesNext, TrialRunsOut, LoginReads, LoginWrites, HandleExpiredTrials, SubscriptionBegins,
         SubscriptionMoves, SubscriptionShows, Cancel, HandleWebhook, SectionReads, SectionWrites, UpdatePersonal,
         UpdateProfessionalInfo, UpdatePreferences, UpdateMotivation, Update, RecalculateAndReturn, AddEducation,
         AddCertification, CvChanges, SubmitForReview, SubmitSaves, CompleteReads, CompleteWrites,
         ApproveProfessional, ValidateRow, ValidateProfile, UpdateUser, UpdateProfessional, SetTrialDate,
         ProfileGoes, ProfilesStop

LEMMA FilesScenario == FilesNext => UNCHANGED scenario
  BY HelpersKeep
     DEF FilesNext, CutShort, PhotoReads, PhotoDeletesOld, PhotoStores, PhotoSaves, DeletePhotoReads,
         DeletePhotoFile, DeletePhotoSaves, IdentityReads, IdentityDeletesOld, IdentityStores, IdentitySaves,
         ApprovalReads, DeleteIdentityFiles, IdentityCleared, DocumentStores, DocumentSaves, DeleteDocumentFile,
         DeleteDocument
-----------------------------------------------------------------------------
(* What the service a scenario is about keeps                               *)
Kept(part) ==
    /\ part = "messages" => MessagesInv
    /\ part = "jobs" => JobsInv
    /\ part = "landings" => LandingsInv /\ SentOK
    /\ part = "taxonomy" => TaxonomyInv
    /\ part = "discounts" => PeriodsInv
    /\ part = "cron" => CronInv
    /\ part = "external" => SyncInv /\ ListsOK
    /\ part = "accounts" => AccountsInv
    /\ part = "profiles" => ProfilesInv
    /\ part = "files" => FilesInv

NoSync == \A h \in Handlers : call[h].op # "sync"

(* What a service that is not offered is left with                          *)
Apart(part) ==
    /\ part = "messages" => MessagesInit
    /\ part = "jobs" => JobsInit
    /\ part = "landings" => LandingsInit
    /\ part = "taxonomy" => TaxonomyInit
    /\ part = "discounts" => DiscountsInit
    /\ part = "cron" => CronInit
    /\ part = "external" => ExternalJobsInit /\ NoSync
    /\ part = "accounts" => AccountsInit
    /\ part = "profiles" => ProfilesInit
    /\ part = "files" => FilesInit

PlatformInv ==
    /\ scenario \in Scenarios
    /\ \A part \in Services : IF Offered(part) THEN Kept(part) ELSE Apart(part)

LEMMA PlatformInitHolds == Init => PlatformInv
<1> SUFFICES ASSUME Init, NEW part \in Services PROVE IF Offered(part) THEN Kept(part) ELSE Apart(part)
  BY DEF Init, ServiceInit, PlatformInv
<1>1. NoSync
  BY DEF Init, ServiceInit, NoSync, Idle
<1>2. SentOK
  BY DEF Init, LandingsInit, SentOK
<1>3. ListsOK
  BY ListsInit DEF Init
<1>4. Kept(part)
  BY <1>2, <1>3, MessagesInitHolds, JobsInitHolds, LandingsInitHolds, TaxonomyInitHolds, PeriodsInitHolds,
     CronInitHolds, SyncInitHolds, AccountsInitHolds, ProfilesInitHolds, FilesInitHolds DEF Init, Kept
<1>5. Apart(part)
  BY <1>1 DEF Init, Apart
<1> QED BY <1>4, <1>5

(* A step of the service the scenario is about: the others are not offered, *)
(* and stay apart.                                                          *)
LEMMA ServiceMoves ==
    ASSUME PlatformInv, NEW part \in Services, Offered(part), Others(part), UNCHANGED scenario,
           Kept(part)', part # "external" => NoSync'
    PROVE  PlatformInv'
<1>1. \A q \in Services : Offered(q) => q = part
  BY PlatformAssumption DEF PlatformInv, Offered
<1>2. \A q \in Services : Offered(q)' = Offered(q)
  BY DEF Offered
<1>3. ASSUME NEW q \in Services, q # part PROVE Apart(q)'
  <2>0. Apart(q)
    BY <1>1, <1>3 DEF PlatformInv
  <2>1. CASE q = "messages"
    BY <1>3, <2>0, <2>1 DEF Apart, Others, MessagesInit
  <2>2. CASE q = "jobs"
    BY <1>3, <2>0, <2>2 DEF Apart, Others, JobsInit, jobVars
  <2>3. CASE q = "landings"
    BY <1>3, <2>0, <2>3 DEF Apart, Others, LandingsInit, landingVars
  <2>4. CASE q = "taxonomy"
    BY <1>3, <2>0, <2>4 DEF Apart, Others, TaxonomyInit
  <2>5. CASE q = "discounts"
    BY <1>3, <2>0, <2>5 DEF Apart, Others, DiscountsInit, discountVars, Resting
  <2>6. CASE q = "cron"
    BY <1>3, <2>0, <2>6 DEF Apart, Others, CronInit, cronVars
  <2>7. CASE q = "external"
    BY <1>3, <2>0, <2>7 DEF Apart, Others, ExternalJobsInit, externalVars, Offered
  <2>8. CASE q = "accounts"
    BY <1>3, <2>0, <2>8 DEF Apart, Others, AccountsInit, accountVars
  <2>9. CASE q = "profiles"
    BY <1>3, <2>0, <2>9 DEF Apart, Others, ProfilesInit, profileVars, Offered
  <2>10. CASE q = "files"
    BY <1>3, <2>0, <2>10 DEF Apart, Others, FilesInit, fileVars
  <2> QED BY <2>1, <2>2, <2>3, <2>4, <2>5, <2>6, <2>7, <2>8, <2>9, <2>10 DEF Services
<1> QED BY <1>1, <1>2, <1>3 DEF PlatformInv

LEMMA PlatformStep ==
    ASSUME PlatformInv, [Next]_platformVars
    PROVE  PlatformInv'
<1>0. \A part \in Services : Offered(part) => Kept(part)
  BY DEF PlatformInv
<1>1. CASE Offered("messages") /\ MessagesNext /\ Others("messages")
  <2>1. Kept("messages")
    BY <1>0, <1>1 DEF Services
  <2>2. MessagesInv'
    BY <1>1, <2>1, MessagesStep DEF Kept
  <2>3. NoSync'
    BY <2>2 DEF NoSync, MessagesInv, MessagesCalls, Idle
  <2>4. Kept("messages")'
    BY <2>2 DEF Kept
  <2> QED BY <1>1, <2>3, <2>4, MessagesScenario, ServiceMoves DEF Services
<1>2. CASE Offered("jobs") /\ JobsNext /\ Others("jobs")
  <2>1. Kept("jobs")
    BY <1>0, <1>2 DEF Services
  <2>2. JobsInv'
    BY <1>2, <2>1, JobsStep DEF Kept
  <2>3. NoSync'
    BY <2>2 DEF NoSync, JobsInv, JobsCalls, Idle
  <2>4. Kept("jobs")'
    BY <2>2 DEF Kept
  <2> QED BY <1>2, <2>3, <2>4, JobsScenario, ServiceMoves DEF Services
<1>3. CASE Offered("landings") /\ LandingsNext /\ Others("landings")
  <2>1. Kept("landings")
    BY <1>0, <1>3 DEF Services
  <2>2. LandingsInv' /\ SentOK'
    BY <1>3, <2>1, LandingsStep, SentStep DEF Kept
  <2>3. NoSync'
    BY <2>2 DEF NoSync, LandingsInv, FieldCalls, Idle
  <2>4. Kept("landings")'
    BY <2>2 DEF Kept
  <2> QED BY <1>3, <2>3, <2>4, LandingsScenario, ServiceMoves DEF Services
<1>4. CASE Offered("taxonomy") /\ TaxonomyNext /\ Others("taxonomy")
  <2>1. Kept("taxonomy")
    BY <1>0, <1>4 DEF Services
  <2>2. TaxonomyInv'
    BY <1>4, <2>1, TaxonomyStep DEF Kept
  <2>3. NoSync'
    BY <2>2 DEF NoSync, TaxonomyInv, TaxonomyHandlersOK, TaxonomyCalls, Idle
  <2>4. Kept("taxonomy")'
    BY <2>2 DEF Kept
  <2> QED BY <1>4, <2>3, <2>4, TaxonomyScenario, ServiceMoves DEF Services
<1>5. CASE Offered("discounts") /\ DiscountsNext /\ Others("discounts")
  <2>1. Kept("discounts")
    BY <1>0, <1>5 DEF Services
  <2>2. PeriodsInv'
    BY <1>5, <2>1, PeriodsStep DEF Kept
  <2>3. NoSync'
    BY <2>2 DEF NoSync, PeriodsInv, DiscountsOK, DiscountCalls, Idle
  <2>4. Kept("discounts")'
    BY <2>2 DEF Kept
  <2> QED BY <1>5, <2>3, <2>4, DiscountsScenario, ServiceMoves DEF Services
<1>6. CASE Offered("cron") /\ CronNext /\ Others("cron")
  <2>1. Kept("cron")
    BY <1>0, <1>6 DEF Services
  <2>2. CronInv'
    BY <1>6, <2>1, CronStep DEF Kept
  <2>3. NoSync'
    BY <2>2 DEF NoSync, CronInv, CallsOK, Calls, Idle
  <2>4. Kept("cron")'
    BY <2>2 DEF Kept
  <2> QED BY <1>6, <2>3, <2>4, CronScenario, ServiceMoves DEF Services
<1>7. CASE Offered("external") /\ ExternalJobsNext /\ Others("external")
  <2>1. Kept("external")
    BY <1>0, <1>7 DEF Services
  <2>2. SyncInv' /\ ListsOK'
    BY <1>7, <2>1, SyncStep, ListsStep DEF Kept
  <2>4. Kept("external")'
    BY <2>2 DEF Kept
  <2> QED BY <1>7, <2>4, ExternalJobsScenario, ServiceMoves DEF Services
<1>8. CASE Offered("accounts") /\ AccountsNext /\ Others("accounts")
  <2>1. Kept("accounts")
    BY <1>0, <1>8 DEF Services
  <2>2. AccountsInv'
    BY <1>8, <2>1, AccountsStep DEF Kept
  <2>3. NoSync'
    BY <2>2 DEF NoSync, AccountsInv, AccountsOK, AccountCalls, Idle
  <2>4. Kept("accounts")'
    BY <2>2 DEF Kept
  <2> QED BY <1>8, <2>3, <2>4, AccountsScenario, ServiceMoves DEF Services
<1>9. CASE Offered("profiles") /\ ProfilesNext /\ Others("profiles")
  <2>1. Kept("profiles")
    BY <1>0, <1>9 DEF Services
  <2>2. ProfilesInv'
    BY <1>9, <2>1, ProfilesStep DEF Kept
  <2>3. NoSync'
    BY <2>2 DEF NoSync, ProfilesInv, ProfilesOK, ProfileCalls, Idle
  <2>4. Kept("profiles")'
    BY <2>2 DEF Kept
  <2> QED BY <1>9, <2>3, <2>4, ProfilesScenario, ServiceMoves DEF Services
<1>10. CASE Offered("files") /\ FilesNext /\ Others("files")
  <2>1. Kept("files")
    BY <1>0, <1>10 DEF Services
  <2>2. FilesInv'
    BY <1>10, <2>1, FilesStep DEF Kept
  <2>3. NoSync'
    BY <2>2 DEF NoSync, FilesInv, FilesOK, FileCalls, Idle, Tasks
  <2>4. Kept("files")'
    BY <2>2 DEF Kept
  <2> QED BY <1>10, <2>3, <2>4, FilesScenario, ServiceMoves DEF Services
<1>11. CASE UNCHANGED platformVars
  <2>1. ASSUME NEW part \in Services, Kept(part) PROVE Kept(part)'
    <3>1. CASE part = "messages"
      BY <1>11, <2>1, <3>1, MessagesStep DEF Kept, platformVars
    <3>2. CASE part = "jobs"
      BY <1>11, <2>1, <3>2, JobsStep DEF Kept, platformVars
    <3>3. CASE part = "landings"
      BY <1>11, <2>1, <3>3, LandingsStep, SentStep DEF Kept, platformVars
    <3>4. CASE part = "taxonomy"
      BY <1>11, <2>1, <3>4, TaxonomyStep DEF Kept, platformVars
    <3>5. CASE part = "discounts"
      BY <1>11, <2>1, <3>5, PeriodsStep DEF Kept, platformVars
    <3>6. CASE part = "cron"
      BY <1>11, <2>1, <3>6, CronStep DEF Kept, platformVars
    <3>7. CASE part = "external"
      BY <1>11, <2>1, <3>7, SyncStep, ListsStep DEF Kept, platformVars
    <3>8. CASE part = "accounts"
      BY <1>11, <2>1, <3>8, AccountsStep DEF Kept, platformVars
    <3>9. CASE part = "profiles"
      BY <1>11, <2>1, <3>9, ProfilesStep DEF Kept, platformVars
    <3>10. CASE part = "files"
      BY <1>11, <2>1, <3>10, FilesStep DEF Kept, platformVars
    <3> QED BY <3>1, <3>2, <3>3, <3>4, <3>5, <3>6, <3>7, <3>8, <3>9, <3>10 DEF Services
  <2>2. ASSUME NEW part \in Services, Offered(part) PROVE PlatformInv'
    <3>1. Others(part) /\ UNCHANGED <<scenario, call>>
      BY <1>11 DEF Others, platformVars, serviceVars
    <3>2. part # "external" => NoSync'
      <4>1. part # "external" => ~Offered("external")
        BY <2>2, PlatformAssumption DEF PlatformInv, Offered, Services
      <4>2. part # "external" => NoSync
        BY <4>1 DEF PlatformInv, Apart, Services
      <4> QED BY <3>1, <4>2 DEF NoSync
    <3> QED BY <1>0, <2>1, <2>2, <3>1, <3>2, ServiceMoves
  <2>3. CASE \A part \in Services : ~Offered(part)
    <3>1. Apart("external") /\ scenario' = scenario
      BY <1>11, <2>3 DEF PlatformInv, Services, platformVars, serviceVars
    <3>2. ASSUME NEW part \in Services PROVE ~Offered(part)' /\ Apart(part)'
      <4>1. Apart(part)
        BY <2>3 DEF PlatformInv
      <4>2. UNCHANGED platformVars
        BY <1>11
      <4> QED BY <2>3, <3>1, <4>1, <4>2
              DEF Apart, Offered, NoSync, Resting, platformVars, serviceVars, jobVars, landingVars, discountVars,
                  cronVars, externalVars, accountVars, profileVars, fileVars, MessagesInit, JobsInit, LandingsInit,
                  TaxonomyInit, DiscountsInit, CronInit, ExternalJobsInit, AccountsInit, ProfilesInit, FilesInit
    <3> QED BY <3>1, <3>2 DEF PlatformInv
  <2> QED BY <2>2, <2>3
<1> QED BY <1>1, <1>2, <1>3, <1>4, <1>5, <1>6, <1>7, <1>8, <1>9, <1>10, <1>11 DEF Next

LEMMA PlatformInvariant == Spec => []PlatformInv
  BY PlatformInitHolds, PlatformStep, PTL DEF Spec

-----------------------------------------------------------------------------
(* Nothing is wrong with the tables of the beginning.                       *)
LEMMA RowlessBoards ==
    /\ MessagesInit => MessagesTypeOK /\ BadgeMatchesThread
    /\ JobsInit => JobsTypeOK /\ JobTalliesAreTrue
    /\ LandingsInit => LandingsTypeOK /\ FieldOrdersClashOnlyInRaces
    /\ ExternalJobsInit /\ NoSync => ExternalJobsTypeOK /\ SyncIsWhole
<1>1. ASSUME MessagesInit PROVE MessagesTypeOK /\ BadgeMatchesThread
  <2>1. DOMAIN messages = {}
    BY <1>1 DEF MessagesInit
  <2> QED BY <2>1 DEF MessagesTypeOK, BadgeMatchesThread, GetConversations
<1>2. ASSUME JobsInit PROVE JobsTypeOK /\ JobTalliesAreTrue
  <2>1. /\ DOMAIN jobs = {} /\ applications = [x \in JobIds \X Applicants |-> 0] /\ visits = [j \in JobIds |-> 0]
    BY <1>2 DEF JobsInit
  <2>2. JobsTypeOK
    BY <2>1 DEF JobsTypeOK
  <2>3. \A asked, roots : ListPublicJobs(asked, roots) = {} /\ WorkList(asked, roots) = {}
    BY <2>1 DEF ListPublicJobs, WorkList, PublicJobs, WorkAvailable
  <2>4. \A u \in Applicants : ListMyApplications(u) = {} /\ WorkApplications(u) = {}
    BY <2>1 DEF ListMyApplications, WorkApplications
  <2>5. \A j \in JobIds, u \in Applicants : applications[<<j, u>>] <= 1
    BY <2>1
  <2> QED BY <2>1, <2>2, <2>3, <2>4, <2>5 DEF JobTalliesAreTrue
<1>3. ASSUME LandingsInit PROVE LandingsTypeOK /\ FieldOrdersClashOnlyInRaces
  <2>1. DOMAIN fields = {} /\ DOMAIN submissions = {} /\ landing = [public |-> TRUE, deleted |-> FALSE, current |-> TRUE]
    BY <1>3 DEF LandingsInit
  <2> QED BY <2>1 DEF LandingsTypeOK, FieldOrdersClashOnlyInRaces
<1>4. ASSUME ExternalJobsInit, NoSync PROVE ExternalJobsTypeOK /\ SyncIsWhole
  <2>1. DOMAIN postings = {}
    BY <1>4 DEF ExternalJobsInit
  <2>2. SyncIsWhole
    BY <1>4, <2>1 DEF NoSync, SyncIsWhole
  <2>3. \A s \in Sources : Range(board[s]) \subseteq Postings
    <3>1. \A q \in Lists \cup {<<>>} : Range(q) \subseteq Postings
      BY DEF Lists, Range
    <3>2. \A s \in Sources : board[s] \in Lists \cup {<<>>}
      BY <1>4 DEF ExternalJobsInit
    <3> QED BY <3>1, <3>2
  <2> QED BY <1>4, <2>1, <2>2, <2>3, ListsInit DEF ExternalJobsTypeOK, ListsOK
<1> QED BY <1>1, <1>2, <1>3, <1>4

LEMMA RowlessCatalogue ==
    /\ TaxonomyInit => TaxonomyTypeOK /\ TreeIsSound
    /\ DiscountsInit => DiscountsTypeOK /\ LowPriceIsAccountedFor /\ OverlapsComeFromRaces /\ UsesStayNearLimit
<1>1. ASSUME TaxonomyInit PROVE TaxonomyTypeOK /\ TreeIsSound
  <2>1. DOMAIN categories = {}
    BY <1>1 DEF TaxonomyInit
  <2> QED BY <2>1 DEF TaxonomyTypeOK, TreeIsSound
<1>2. ASSUME DiscountsInit
      PROVE  DiscountsTypeOK /\ LowPriceIsAccountedFor /\ OverlapsComeFromRaces /\ UsesStayNearLimit
  <2>1. DOMAIN discounts = {} /\ DOMAIN offers = {} /\ amount = 0
    BY <1>2 DEF DiscountsInit
  <2>2. DiscountsTypeOK
    BY <1>2, DiscountsAssumption DEF DiscountsInit, DiscountsTypeOK, Resting, JobRun, Plans, Days
  <2>3. OverlapsComeFromRaces
    BY <2>1, SideIsNat, FS_EmptySet DEF OverlapsComeFromRaces
  <2> QED BY <2>1, <2>2, <2>3 DEF LowPriceIsAccountedFor, UsesStayNearLimit
<1> QED BY <1>1, <1>2

LEMMA RowlessPeople ==
    /\ CronInit => CronTypeOK /\ ExecutionsTellTheTruth
    /\ AccountsInit => AccountsTypeOK /\ ResetLinkWorksOnce /\ TrialGoesWithVerification
    /\ ProfilesInit => ProfilesTypeOK /\ ListingsFollowReview /\ PayerStaysListed
    /\ FilesInit => FilesTypeOK /\ FilesMatchUrls
<1>1. ASSUME CronInit PROVE CronTypeOK /\ ExecutionsTellTheTruth
  BY <1>1, CronTypesBegin DEF CronInit, ExecutionsTellTheTruth
<1>2. ASSUME AccountsInit PROVE AccountsTypeOK /\ ResetLinkWorksOnce /\ TrialGoesWithVerification
  BY <1>2, AccountsAssumption DEF AccountsInit, AccountsTypeOK, ResetLinkWorksOnce, TrialGoesWithVerification
<1>3. ASSUME ProfilesInit PROVE ProfilesTypeOK /\ ListingsFollowReview /\ PayerStaysListed
  <2>1. /\ profile.validated = Offered("enteredByAdmin") /\ paying = FALSE /\ verified = TRUE
        /\ clash = FALSE /\ outed = FALSE
        /\ reviewed = IF Offered("enteredByAdmin") THEN "approved" ELSE "none"
    BY <1>3 DEF ProfilesInit
  <2>2. profile \in ProfileRecord
    BY <1>3, FirstProfile
  <2>3. ListingsFollowReview
    BY <2>1 DEF ListingsFollowReview, FindAll, FindOne, FindFeatured, FindBySlug, Search
  <2> QED BY <2>1, <2>2, <2>3 DEF ProfilesTypeOK, PayerStaysListed
<1>4. ASSUME FilesInit PROVE FilesTypeOK /\ FilesMatchUrls
  BY <1>4 DEF FilesInit, FilesTypeOK, Urls, FilesMatchUrls, GetPhotoFile, GetIdentityFiles, GetIdentityFile
<1> QED BY <1>1, <1>2, <1>3, <1>4

-----------------------------------------------------------------------------
LEMMA BoardsHold ==
    ASSUME PlatformInv
    PROVE  /\ MessagesTypeOK /\ BadgeMatchesThread
           /\ JobsTypeOK /\ JobTalliesAreTrue
           /\ LandingsTypeOK /\ FieldOrdersClashOnlyInRaces
           /\ ExternalJobsTypeOK /\ SyncIsWhole
<1>0. \A part \in Services : Kept(part) \/ Apart(part)
  BY DEF PlatformInv
<1>1. MessagesInv \/ MessagesInit
  BY <1>0 DEF Kept, Apart, Services
<1>2. JobsInv \/ JobsInit
  BY <1>0 DEF Kept, Apart, Services
<1>3. (LandingsInv /\ SentOK) \/ LandingsInit
  BY <1>0 DEF Kept, Apart, Services
<1>4. (SyncInv /\ ListsOK) \/ (ExternalJobsInit /\ NoSync)
  BY <1>0 DEF Kept, Apart, Services
<1>5. (MessagesInv => MessagesTypeOK) /\ (JobsInv => JobsTypeOK)
  BY DEF MessagesInv, JobsInv
<1> QED BY <1>1, <1>2, <1>3, <1>4, <1>5, RowlessBoards, BadgeFollows, TalliesFollow, PlacesFollow, SyncFollows,
           LandingsTypesFollow, ExternalJobsTypesFollow

LEMMA CatalogueHolds ==
    ASSUME PlatformInv
    PROVE  /\ TaxonomyTypeOK /\ TreeIsSound
           /\ DiscountsTypeOK /\ LowPriceIsAccountedFor /\ OverlapsComeFromRaces /\ UsesStayNearLimit
<1>0. \A part \in Services : Kept(part) \/ Apart(part)
  BY DEF PlatformInv
<1>1. TaxonomyInv \/ TaxonomyInit
  BY <1>0 DEF Kept, Apart, Services
<1>2. PeriodsInv \/ DiscountsInit
  BY <1>0 DEF Kept, Apart, Services
<1>3. TaxonomyInv => TaxonomyTypeOK
  BY DEF TaxonomyInv
<1>4. PeriodsInv => DiscountsTypeOK /\ LowPriceIsAccountedFor
  BY PriceFollows DEF PeriodsInv, DiscountsOK
<1> QED BY <1>1, <1>2, <1>3, <1>4, RowlessCatalogue, TreeFollows, OverlapsFollow, UsesFollow

LEMMA PeopleHold ==
    ASSUME PlatformInv
    PROVE  /\ CronTypeOK /\ ExecutionsTellTheTruth
           /\ AccountsTypeOK /\ ResetLinkWorksOnce /\ TrialGoesWithVerification
           /\ ProfilesTypeOK /\ ListingsFollowReview /\ PayerStaysListed
           /\ FilesTypeOK /\ FilesMatchUrls
<1>0. \A part \in Services : Kept(part) \/ Apart(part)
  BY DEF PlatformInv
<1>1. CronInv \/ CronInit
  BY <1>0 DEF Kept, Apart, Services
<1>2. AccountsInv \/ AccountsInit
  BY <1>0 DEF Kept, Apart, Services
<1>3. ProfilesInv \/ ProfilesInit
  BY <1>0 DEF Kept, Apart, Services
<1>4. FilesInv \/ FilesInit
  BY <1>0 DEF Kept, Apart, Services
<1>5. /\ CronInv => CronTypeOK /\ ExecutionsTellTheTruth
      /\ AccountsInv => AccountsTypeOK
      /\ ProfilesInv => ProfilesTypeOK
      /\ FilesInv => FilesTypeOK
  BY DEF CronInv, AccountsInv, AccountsOK, ProfilesInv, ProfilesOK, FilesInv, FilesOK
<1> QED BY <1>1, <1>2, <1>3, <1>4, <1>5, RowlessPeople, ResetsFollow, TrialsFollow, ListingsFollow, PayerFollows,
           FilesFollow

(* The tables of every service stay well formed in Platform, whatever       *)
(* handlers, jobs, outages and stops interleave (the tables of the Prisma   *)
(* schema that the ten services write).                                     *)
THEOREM PlatformTypes == Spec => []PlatformTypeOK
<1>1. PlatformInv => PlatformTypeOK
  BY BoardsHold, CatalogueHolds, PeopleHold DEF PlatformTypeOK
<1> QED BY <1>1, PlatformInvariant, PTL

(* What is proved of each service on its own holds in Platform, whichever   *)
(* scenarios, each about one service, it is run with: no step of another    *)
(* service writes its tables, and none of the others is left in a state     *)
(* that its own invariant excludes (messages, jobs, landings, external-jobs *)
(* sync, profession-categories, discounts, base-cron, auth, professionals   *)
(* and uploads services).                                                   *)
THEOREM PlatformSafe ==
    Spec => /\ [](BadgeMatchesThread /\ JobTalliesAreTrue /\ FieldOrdersClashOnlyInRaces /\ SyncIsWhole)
            /\ [](TreeIsSound /\ LowPriceIsAccountedFor /\ OverlapsComeFromRaces /\ UsesStayNearLimit)
            /\ [](ExecutionsTellTheTruth /\ ResetLinkWorksOnce /\ TrialGoesWithVerification)
            /\ [](ListingsFollowReview /\ PayerStaysListed /\ FilesMatchUrls)
<1>1. PlatformInv => BadgeMatchesThread /\ JobTalliesAreTrue /\ FieldOrdersClashOnlyInRaces /\ SyncIsWhole
  BY BoardsHold
<1>2. PlatformInv => TreeIsSound /\ LowPriceIsAccountedFor /\ OverlapsComeFromRaces /\ UsesStayNearLimit
  BY CatalogueHolds
<1>3. PlatformInv => ExecutionsTellTheTruth /\ ResetLinkWorksOnce /\ TrialGoesWithVerification
  BY PeopleHold
<1>4. PlatformInv => ListingsFollowReview /\ PayerStaysListed /\ FilesMatchUrls
  BY PeopleHold
<1> QED BY <1>1, <1>2, <1>3, <1>4, PlatformInvariant, PTL

(* In Platform too a message leaves somebody's thread only because he       *)
(* asked for it, or its sender took it back (messages.service).             *)
THEOREM PlatformHides == Spec => HiddenByItsSide
<1> DEFINE Asked ==
      \A m \in DOMAIN messages, u \in People :
         Visible(u, m) /\ ~Visible(u, m)' =>
            \/ DeleteMessage(u, m) \/ DeleteForAll(messages[m].from, m)
            \/ \E h \in Handlers : {call[h], call'[h]} \cap Clearing(u) # {}
<1>1. ASSUME PlatformInv, [Next]_platformVars PROVE [Asked]_messages
  <2>1. CASE Offered("messages") /\ MessagesNext
    <3>1. MessagesInv
      BY <1>1, <2>1 DEF PlatformInv, Kept, Services
    <3> QED BY <2>1, <3>1, HidingIsAsked
  <2>2. CASE UNCHANGED messages
    BY <2>2
  <2>3. (Offered("messages") /\ MessagesNext) \/ UNCHANGED messages
    BY <1>1 DEF Next, Others, platformVars
  <2> QED BY <2>1, <2>2, <2>3
<1>2. PlatformInv /\ [Next]_platformVars => [Asked]_messages
  BY <1>1
<1> QED BY <1>2, PlatformInvariant, PTL DEF Spec, HiddenByItsSide
=============================================================================
