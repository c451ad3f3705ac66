----------------------------- MODULE CronRunner -----------------------------
(* How the background jobs run (base-cron.service, cron-admin.service): the *)
(* table of jobs, the timers of the running server, one row per execution.  *)
EXTENDS Service

CONSTANTS
    Jobs,               \* keys of cron_jobs, with a handler each
    Executions,         \* ids of job_executions
    MaxStarts           \* bound on the starts of the server

ASSUME CronAssumption == MaxStarts \in Nat /\ Executions \subseteq Nat

VARIABLES
    table,              \* CronJob: active and schedule of every key
    up, starts,         \* whether the server runs, and how often it was started
    timer,              \* SchedulerRegistry: the schedule a job's timer has, or "none"
    rows,               \* JobExecution: the status of each row
    running             \* the runs of runWithLogging, by the row they hold

cronVars == <<table, up, starts, timer, rows, running>>

Schedules == {"early", "late"}
Statuses  == {"running", "completed", "failed"}

(* A run: its job, how far it is ("lost" without a last word), and, for     *)
(* history, how its handler ended.                                          *)
RunRecord == [job : Jobs, at : {"handling", "completing", "failing", "over", "lost"},
              ended : {"no", "returned", "threw"}]

CronTypeOK ==
    /\ table \in [Jobs -> [active : BOOLEAN, schedule : Schedules]]
    /\ up \in BOOLEAN /\ starts \in 0 .. MaxStarts
    /\ timer \in [Jobs -> Schedules \cup {"none"}]
    /\ DOMAIN rows \subseteq Executions /\ rows \in [DOMAIN rows -> Statuses]
    /\ running \in [DOMAIN rows -> RunRecord]

CronInit ==
    /\ table = [j \in Jobs |-> [active |-> TRUE, schedule |-> "early"]]
    /\ up = FALSE /\ starts = 0
    /\ timer = [j \in Jobs |-> "none"]
    /\ rows = [x \in {} |-> "none"] /\ running = [x \in {} |-> "none"]

-----------------------------------------------------------------------------
(* onModuleInit, getCronSchedule, registerJob: a timer for each active job; *)
(* without the database there is none.                                      *)
ServerStarts ==
    /\ Offered("cron") /\ ~up /\ starts < MaxStarts
    /\ up' = TRUE /\ starts' = starts + 1
    /\ \/ timer' = [j \in Jobs |-> IF table[j].active THEN table[j].schedule ELSE "none"]
       \/ Offered("outage") /\ timer' = [j \in Jobs |-> "none"]
    /\ UNCHANGED <<table, rows, running, serviceVars>>

ServerStops ==
    /\ up /\ up' = FALSE
    /\ timer' = [j \in Jobs |-> "none"]
    /\ running' = [x \in DOMAIN running |->
                     IF running[x].at = "over" THEN running[x] ELSE [running[x] EXCEPT !.at = "lost"]]
    /\ call' = [h \in Handlers |-> Idle]
    /\ UNCHANGED <<table, starts, rows, scenario>>

(* updateCronJob: the table only; a timer keeps the schedule it has. *)
UpdateCronJob(j, active, schedule) ==
    /\ up /\ Offered("updateCronJob") /\ table[j] # [active |-> active, schedule |-> schedule]
    /\ table' = [table EXCEPT ![j] = [active |-> active, schedule |-> schedule]]
    /\ UNCHANGED <<up, starts, timer, rows, running, serviceVars>>

(* CronAdminService.restartJob: the row is read, then the timer is replaced *)
RestartReads(h, j) ==
    /\ up /\ Takes(h, [op |-> "restartJob", job |-> j, schedule |-> table[j].schedule])
    /\ table[j].active /\ UNCHANGED cronVars

RestartSets(h) ==
    /\ Ends(h, {"restartJob"})
    /\ timer' = [timer EXCEPT ![call[h].job] = call[h].schedule]
    /\ UNCHANGED <<table, up, starts, rows, running>>

-----------------------------------------------------------------------------
(* runWithLogging, by a timer or by hand (triggerJob): nothing keeps two    *)
(* runs of a job apart.                                                     *)

(* Inactive in the table: skipped; a table that cannot be read is no reason *)
RunBegins(h, j) ==
    /\ up /\ Takes(h, [op |-> "run", job |-> j])
    /\ timer[j] # "none" \/ Offered("trigger")
    /\ table[j].active \/ Offered("outage")
    /\ UNCHANGED cronVars

(* jobExecution.create, and the handler starts *)
RunCreates(h) ==
    /\ Ends(h, {"run"})
    /\ \E x \in Fresh(Executions, DOMAIN rows) :
         /\ rows' = [y \in DOMAIN rows \cup {x} |-> IF y = x THEN "running" ELSE rows[y]]
         /\ running' = [y \in DOMAIN rows \cup {x} |->
                          IF y = x THEN [job |-> call[h].job, at |-> "handling", ended |-> "no"] ELSE running[y]]
    /\ UNCHANGED <<table, up, starts, timer>>

HandlerReturns(x) ==
    /\ x \in DOMAIN running /\ running[x].at = "handling"
    /\ running' = [running EXCEPT ![x].at = "completing", ![x].ended = "returned"]
    /\ UNCHANGED <<table, up, starts, timer, rows, serviceVars>>

HandlerThrows(x) ==
    /\ x \in DOMAIN running /\ running[x].at = "handling"
    /\ running' = [running EXCEPT ![x].at = "failing", ![x].ended = "threw"]
    /\ UNCHANGED <<table, up, starts, timer, rows, serviceVars>>

(* A completion written without waiting for the handler *)
RecordsUnawaited(x) ==
    /\ x \in DOMAIN running /\ running[x].at \in {"handling", "completing"}
    /\ rows' = [rows EXCEPT ![x] = "completed"]
    /\ running' = [running EXCEPT ![x].at = "over"]
    /\ UNCHANGED <<table, up, starts, timer, serviceVars>>

RecordsCompleted(x) ==
    /\ x \in DOMAIN running /\ running[x].at = "completing"
    /\ rows' = [rows EXCEPT ![x] = "completed"]
    /\ running' = [running EXCEPT ![x].at = "over"]
    /\ UNCHANGED <<table, up, starts, timer, serviceVars>>

(* An update that fails is taken for a failure of the handler. *)
CompletionFails(x) ==
    /\ Offered("outage") /\ x \in DOMAIN running /\ running[x].at = "completing"
    /\ running' = [running EXCEPT ![x].at = "failing"]
    /\ UNCHANGED <<table, up, starts, timer, rows, serviceVars>>

RecordsFailed(x) ==
    /\ x \in DOMAIN running /\ running[x].at = "failing"
    /\ rows' = [rows EXCEPT ![x] = "failed"]
    /\ running' = [running EXCEPT ![x].at = "over"]
    /\ UNCHANGED <<table, up, starts, timer, serviceVars>>

(* The update of a failure that fails too is nobody's to catch. *)
FailureIsLost(x) ==
    /\ Offered("outage") /\ x \in DOMAIN running /\ running[x].at = "failing"
    /\ running' = [running EXCEPT ![x].at = "lost"]
    /\ UNCHANGED <<table, up, starts, timer, rows, serviceVars>>

CronNext ==
    \/ ServerStarts \/ ServerStops
    \/ \E j \in Jobs, active \in BOOLEAN, schedule \in Schedules : UpdateCronJob(j, active, schedule)
    \/ \E h \in Handlers :
         \/ RestartSets(h) \/ RunCreates(h)
         \/ \E j \in Jobs : RestartReads(h, j) \/ RunBegins(h, j)
    \/ \E x \in Executions :
         \/ HandlerReturns(x) \/ HandlerThrows(x)
         \/ RecordsCompleted(x) \/ CompletionFails(x) \/ RecordsFailed(x) \/ FailureIsLost(x)

CronSpec == CronInit /\ ServiceInit /\ [][CronNext]_<<cronVars, serviceVars>>

-----------------------------------------------------------------------------
(* The log of executions does not flatter: completed means that the handler *)
(* returned, failed that it threw or that its completion could not be       *)
(* written, and a row still running has a run behind it unless the server   *)
(* stopped or the database was away (base-cron.service runWithLogging).     *)
ExecutionsTellTheTruth ==
    \A x \in DOMAIN rows :
        /\ rows[x] = "completed" => running[x].ended = "returned"
        /\ rows[x] = "failed" => running[x].ended = "threw" \/ Offered("outage")
        /\ rows[x] = "running" <=> running[x].at # "over"
        /\ running[x].at = "lost" => starts > 1 \/ ~up \/ Offered("outage")
=============================================================================
