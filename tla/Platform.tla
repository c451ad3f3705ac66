------------------------------ MODULE Platform ------------------------------
(* The smaller services of the platform side by side, on the handlers of    *)
(* one server.                                                              *)
EXTENDS Messages, JobBoard, Landings, Taxonomy, Discounts, CronRunner, ExternalJobs,
        Accounts, Profiles, Files

Services ==
    {"messages", "jobs", "landings", "taxonomy", "discounts", "cron", "external", "accounts", "profiles", "files"}

(* A scenario is about one service: they share the handlers, and what stops *)
(* the handlers of one does not account for another's.                      *)
ASSUME PlatformAssumption == \A s \in Scenarios : \A p, q \in s \cap Services : p = q

platformVars ==
    <<messages, jobVars, landingVars, categories, discountVars, cronVars, externalVars,
      accountVars, profileVars, fileVars, serviceVars>>

Init ==
    /\ ServiceInit /\ MessagesInit /\ JobsInit /\ LandingsInit /\ TaxonomyInit /\ DiscountsInit
    /\ CronInit /\ ExternalJobsInit /\ AccountsInit /\ ProfilesInit /\ FilesInit

Others(part) ==
    /\ part = "messages"  \/ UNCHANGED messages
    /\ part = "jobs"      \/ UNCHANGED jobVars
    /\ part = "landings"  \/ UNCHANGED landingVars
    /\ part = "taxonomy"  \/ UNCHANGED categories
    /\ part = "discounts" \/ UNCHANGED discountVars
    /\ part = "cron"      \/ UNCHANGED cronVars
    /\ part = "external"  \/ UNCHANGED externalVars
    /\ part = "accounts"  \/ UNCHANGED accountVars
    /\ part = "profiles"  \/ UNCHANGED profileVars
    /\ part = "files"     \/ UNCHANGED fileVars

(* A scenario names the service it is about next to its operations. *)
Next ==
    \/ Offered("messages") /\ MessagesNext /\ Others("messages")
    \/ Offered("jobs") /\ JobsNext /\ Others("jobs")
    \/ Offered("landings") /\ LandingsNext /\ Others("landings")
    \/ Offered("taxonomy") /\ TaxonomyNext /\ Others("taxonomy")
    \/ Offered("discounts") /\ DiscountsNext /\ Others("discounts")
    \/ Offered("cron") /\ CronNext /\ Others("cron")
    \/ Offered("external") /\ ExternalJobsNext /\ Others("external")
    \/ Offered("accounts") /\ AccountsNext /\ Others("accounts")
    \/ Offered("profiles") /\ ProfilesNext /\ Others("profiles")
    \/ Offered("files") /\ FilesNext /\ Others("files")

(* The restoring job comes round again and finishes what it began: it runs  *)
(* every day (discounts-cron), and its steps wait for nobody.               *)
Spec == Init /\ [][Next]_platformVars
        /\ WF_platformVars(Offered("discounts") /\ RestoreSteps /\ Others("discounts"))

PlatformTypeOK ==
    /\ MessagesTypeOK /\ JobsTypeOK /\ LandingsTypeOK /\ TaxonomyTypeOK /\ DiscountsTypeOK
    /\ CronTypeOK /\ ExternalJobsTypeOK /\ AccountsTypeOK /\ ProfilesTypeOK /\ FilesTypeOK
=============================================================================
