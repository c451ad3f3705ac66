------------------------------ MODULE JobBoard ------------------------------
(* The jobs board (jobs.service, its twin work.service, admin-jobs.service):*)
(* who sees a job, the counter of its visits, and one application per user. *)
EXTENDS Service

CONSTANTS
    Applicants, JobIds,
    MaxVisits,      \* bound on the visits of a job
    CategoriesOf,   \* [JobIds -> sets of categories], Job.categoryIds
    RubrosOf        \* [Applicants -> sets of categories], the roots of a professional's

VARIABLES
    jobs,           \* Job: status, deletedAt, where now is against validFrom and validUntil
    applications,   \* JobApplication: how many rows a job and a user have
    visits          \* history: the visits that were answered

jobVars == <<jobs, applications, visits>>

JobRecord == [active : BOOLEAN, deleted : BOOLEAN, window : {"before", "open", "over"}, clicks : Nat]

JobsTypeOK ==
    /\ DOMAIN jobs \subseteq JobIds /\ \A j \in DOMAIN jobs : jobs[j] \in JobRecord
    /\ applications \in [JobIds \X Applicants -> Nat] /\ visits \in [JobIds -> Nat]

JobsInit ==
    /\ jobs = [j \in {} |-> 0]
    /\ applications = [x \in JobIds \X Applicants |-> 0]
    /\ visits = [j \in JobIds |-> 0]

(* ensureJobAvailable, and the condition of the public list *)
Open(j) ==
    /\ j \in DOMAIN jobs /\ jobs[j].active /\ ~jobs[j].deleted
    /\ jobs[j].window = "open"

PublicJobs == {j \in DOMAIN jobs : Open(j)}

(* listPublicJobs: the categories asked for, else those of the caller, and  *)
(* with none at all every open job                                          *)
ListPublicJobs(asked, roots) ==
    LET wanted == IF asked # {} THEN asked ELSE roots
    IN {j \in PublicJobs : wanted = {} \/ CategoriesOf[j] \cap wanted # {}}

(* getProfessionalRootCategoryIds *)
RootsOf(u) == IF u \in Applicants THEN RubrosOf[u] ELSE {}

HasApplied(j, u) == applications[<<j, u>>] > 0

(* listMyApplications: jobs that have closed since are still listed *)
ListMyApplications(u) == {j \in DOMAIN jobs : HasApplied(j, u)}

(* AdminJobsService.listJobs, without and with a status *)
ListJobs(statuses) == {j \in DOMAIN jobs : ~jobs[j].deleted /\ jobs[j].active \in statuses}

(* AdminJobsService.listJobApplications: a deleted job answers nothing *)
ListJobApplications(j) == {u \in Applicants : j \in ListJobs(BOOLEAN) /\ HasApplied(j, u)}

(* The twin of the board, WorkService, reads the same rows by the same rules.*)
WorkAvailable(j) ==
    j \in DOMAIN jobs /\ jobs[j].active /\ ~jobs[j].deleted /\ jobs[j].window = "open"

WorkList(asked, roots) ==
    LET wanted == IF asked # {} THEN asked ELSE roots
    IN {j \in DOMAIN jobs : WorkAvailable(j) /\ (wanted = {} \/ CategoriesOf[j] \cap wanted # {})}

WorkApplications(u) == {j \in DOMAIN jobs : applications[<<j, u>>] > 0}

-----------------------------------------------------------------------------
(* AdminJobsService *)

CreateJob(j, active, window) ==
    /\ Offered("createJob") /\ j \notin DOMAIN jobs
    /\ jobs' = [k \in DOMAIN jobs \cup {j} |->
                  IF k = j THEN [active |-> active, deleted |-> FALSE, window |-> window, clicks |-> 0]
                  ELSE jobs[k]]
    /\ UNCHANGED <<applications, visits, serviceVars>>

(* updateJobStatus: a deleted job is not found *)
UpdateJobStatus(j) ==
    /\ Offered("updateJobStatus") /\ j \in DOMAIN jobs /\ ~jobs[j].deleted
    /\ jobs' = [jobs EXCEPT ![j].active = ~@]
    /\ UNCHANGED <<applications, visits, serviceVars>>

(* updateJob: other dates may put now anywhere *)
UpdateJob(j, window) ==
    /\ Offered("updateJob") /\ j \in DOMAIN jobs /\ ~jobs[j].deleted
    /\ jobs' = [jobs EXCEPT ![j].window = window]
    /\ UNCHANGED <<applications, visits, serviceVars>>

SoftDeleteJob(j) ==
    /\ Offered("softDeleteJob") /\ j \in DOMAIN jobs /\ ~jobs[j].deleted
    /\ jobs' = [jobs EXCEPT ![j].deleted = TRUE]
    /\ UNCHANGED <<applications, visits, serviceVars>>

(* The dates of a job come and go. *)
DatePasses(j) ==
    /\ Offered("datePasses") /\ j \in DOMAIN jobs /\ jobs[j].window # "over"
    /\ jobs' = [jobs EXCEPT ![j].window = IF @ = "before" THEN "open" ELSE "over"]
    /\ UNCHANGED <<applications, visits, serviceVars>>

-----------------------------------------------------------------------------
(* JobsService and WorkService.  The handlers check the job first and write *)
(* by its id: the job may have been closed meanwhile.                       *)

VisitBegins(h, j) ==
    /\ Takes(h, [op |-> "getPublicJobById", job |-> j])
    /\ Open(j) /\ visits[j] < MaxVisits /\ UNCHANGED jobVars

WorkVisitBegins(h, j) ==
    /\ Takes(h, [op |-> "getWorkById", job |-> j])
    /\ WorkAvailable(j) /\ visits[j] < MaxVisits /\ UNCHANGED jobVars

(* A count of the visits to a job that is still open *)
VisitCountsIfOpen(h) ==
    /\ Ends(h, {"getPublicJobById", "getWorkById"})
    /\ LET j == call[h].job
       IN /\ jobs' = [jobs EXCEPT ![j].clicks = IF Open(j) THEN @ + 1 ELSE @]
          /\ visits' = [visits EXCEPT ![j] = @ + 1]
    /\ UNCHANGED applications

(* clickCount: { increment: 1 } *)
VisitCounts(h) ==
    /\ Ends(h, {"getPublicJobById", "getWorkById"})
    /\ LET j == call[h].job
       IN /\ jobs' = [jobs EXCEPT ![j].clicks = @ + 1]
          /\ visits' = [visits EXCEPT ![j] = @ + 1]
    /\ UNCHANGED applications

ApplyBegins(h, u, j) ==
    /\ Takes(h, [op |-> "apply", by |-> u, job |-> j])
    /\ Open(j) /\ ~HasApplied(j, u) /\ UNCHANGED jobVars

WorkApplyBegins(h, u, j) ==
    /\ Takes(h, [op |-> "applyToWork", by |-> u, job |-> j])
    /\ WorkAvailable(j) /\ ~HasApplied(j, u) /\ UNCHANGED jobVars

(* The insert, unique by job and user: a second one fails *)
ApplyInserts(h) ==
    /\ Ends(h, {"apply", "applyToWork"})
    /\ applications' = IF HasApplied(call[h].job, call[h].by) THEN applications
                       ELSE [applications EXCEPT ![<<call[h].job, call[h].by>>] = @ + 1]
    /\ UNCHANGED <<jobs, visits>>

JobsNext ==
    \/ \E j \in JobIds, w \in {"before", "open"} : \E active \in BOOLEAN : CreateJob(j, active, w)
    \/ \E j \in JobIds : UpdateJobStatus(j) \/ SoftDeleteJob(j) \/ DatePasses(j) \/ UpdateJob(j, "before")
    \/ \E h \in Handlers :
         \/ VisitCounts(h) \/ ApplyInserts(h)
         \/ \E j \in JobIds : VisitBegins(h, j) \/ WorkVisitBegins(h, j)
         \/ \E j \in JobIds, u \in Applicants : ApplyBegins(h, u, j) \/ WorkApplyBegins(h, u, j)

JobsSpec == JobsInit /\ ServiceInit /\ [][JobsNext]_<<jobVars, serviceVars>>

-----------------------------------------------------------------------------
(* Every visit that was answered is counted, however many are served at     *)
(* once and through whichever board; two simultaneous requests, one on each *)
(* board, leave one application of a user for a job; both boards list the   *)
(* same jobs, every one of them open and known to the admins, and whoever   *)
(* applied is listed by his own page and, while the job is kept, by the     *)
(* job's (jobs.service and work.service getPublicJobById, apply,            *)
(* listPublicJobs, listMyApplications; the unique index of JobApplication;  *)
(* admin-jobs.service listJobs, listJobApplications).                       *)
JobTalliesAreTrue ==
    /\ \A j \in DOMAIN jobs : jobs[j].clicks = visits[j]
    /\ \A j \in JobIds, u \in Applicants : applications[<<j, u>>] <= 1
    /\ \A u \in Applicants : \A asked \in {{}} \cup {CategoriesOf[j] : j \in JobIds} :
         /\ ListPublicJobs(asked, RootsOf(u)) = WorkList(asked, RootsOf(u))
         /\ ListPublicJobs(asked, RootsOf(u)) \subseteq ListJobs({TRUE})
    /\ \A u \in Applicants :
         /\ ListMyApplications(u) = WorkApplications(u)
         /\ \A j \in ListMyApplications(u) : jobs[j].deleted \/ u \in ListJobApplications(j)
=============================================================================
