----------------------------- MODULE MCPlatform -----------------------------
(* Small instances of the services of Platform: each scenario gives one of  *)
(* them a few kinds of request, one at a time or ("parallel") two.          *)
EXTENDS Platform

MCCategoriesOf == [j \in JobIds |-> {"law"}]
MCRubrosOf == [u \in Applicants |-> IF u = CHOOSE v \in Applicants : TRUE THEN {"law"} ELSE {}]

MCScenarios == {
  \* messages
  {"messages", "sendMessage", "markAsRead", "deleteConversation", "parallel"},
  {"messages", "sendMessage", "markAsRead", "deleteForAll", "deleteMessage", "deleteConversation"},
  \* jobs
  {"jobs", "createJob", "updateJobStatus", "updateJob", "softDeleteJob", "datePasses", "getPublicJobById", "apply"},
  {"jobs", "createJob", "updateJobStatus", "softDeleteJob", "getPublicJobById", "getWorkById", "apply", "applyToWork",
   "parallel"},
  \* landings
  {"landings", "addField", "deleteField", "reorderFields", "parallel"},
  {"landings", "addField", "orderByHand", "reorderFields", "parallel"},
  {"landings", "addField", "updateField", "orderByHand"},
  {"landings", "addField", "updateField", "submitLanding", "deleteField", "reorderFields"},
  {"landings", "addField", "updateField", "updateLanding", "deleteLanding", "submitLanding", "deleteSubmission"},
  \* professions
  {"taxonomy", "createCategory", "deactivateCategory"},
  {"taxonomy", "createCategory", "parallel"},
  {"taxonomy", "createCategory", "deactivateCategory", "updateCategory"},
  \* discounts and discount plans
  {"discounts", "createDiscount", "apply", "restore", "day", "plan"},
  {"discounts", "createDiscount", "removeDiscount", "apply", "restore", "day", "stopJobs"},
  {"discounts", "createDiscount", "removeDiscount", "apply", "parallel"},
  {"discounts", "createDiscount", "apply", "restore", "day", "trigger", "byHand"},
  {"discounts", "createOffer", "updateOffer", "parallel"},
  {"discounts", "createOffer", "removeOffer"},
  {"discounts", "createOffer", "useOffer", "parallel"},
  \* the cron runner
  {"cron", "run", "trigger", "outage", "updateCronJob", "parallel"},
  {"cron", "updateCronJob", "restartJob", "run", "parallel"},
  \* external job postings
  {"external", "sync", "board", "outage"},
  {"external", "sync", "parallel", "outage"},
  \* accounts
  {"accounts", "professionalRegister", "verifyEmail", "resend", "linkExpires", "stopAuth", "profile"},
  {"accounts", "professionalRegister", "verifyEmail", "softDelete", "restore", "parallel"},
  {"accounts", "register", "companyRegister", "forgotPassword", "resetPassword", "softDelete"},
  {"accounts", "register", "forgotPassword", "resetPassword", "parallel"},
  {"accounts", "professionalRegister", "verifyEmail", "referralCode"},
  {"accounts", "adminRegister", "createAdminUser", "updateAdminUser", "resend", "verifyEmail"},
  \* profiles
  {"profiles", "login", "trial", "pay", "validate", "setTrialDate", "parallel"},
  {"profiles", "enteredByAdmin", "validate", "trial", "login", "pay", "remove", "oldPayment", "parallel"},
  {"profiles", "validate", "adminUpdate", "parallel"},
  {"profiles", "adminUpdate", "pay", "parallel"},
  {"profiles", "submit", "validate", "pay", "stopReview", "trial"},
  {"profiles", "enteredByAdmin", "login", "trial", "pay", "stopReview", "parallel"},
  {"profiles", "section", "complete", "validate", "pay"},
  {"profiles", "section", "update", "submit", "approve", "pay"},
  \* files
  {"files", "photo", "deletePhoto", "outage", "parallel"},
  {"files", "identity", "approval", "outage", "parallel"},
  {"files", "document", "deleteDocument", "outage", "parallel"}
 }
=============================================================================
