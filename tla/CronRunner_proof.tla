-------------------------- MODULE CronRunner_proof --------------------------
(* Proofs about CronRunner, for any jobs, executions, handlers, scenarios   *)
(* and number of starts.                                                    *)
(*                                                                          *)
(* ExecutionsTellTheTruth is not inductive: a step that writes "completed"  *)
(* needs that a run on its way to that write had a handler that returned,   *)
(* and a start of the server that a run without a last word was begun by an *)
(* earlier one.                                                             *)
EXTENDS CronRunner, TLAPS

Calls == {Idle} \cup [op : {"run"}, job : Jobs]
                \cup [op : {"restartJob"}, job : Jobs, schedule : Schedules]

CallsOK == call \in [Handlers -> Calls]

(* What the runs of one execution owe its row.                              *)
RunsOK ==
    \A x \in DOMAIN rows :
        /\ running[x].at = "completing" => running[x].ended = "returned"
        /\ running[x].at = "failing" => running[x].ended = "threw" \/ Offered("outage")
        /\ running[x].at = "lost" => starts > 1 \/ (starts > 0 /\ ~up) \/ Offered("outage")

StartsOK == up => starts > 0

CronInv == CronTypeOK /\ CallsOK /\ StartsOK /\ RunsOK /\ ExecutionsTellTheTruth

(* Before the first start there is no timer, no run and no row.             *)
LEMMA CronTypesBegin == CronInit => CronTypeOK
<1> SUFFICES ASSUME CronInit PROVE CronTypeOK
  OBVIOUS
<1>1. DOMAIN rows = {} /\ rows \in [DOMAIN rows -> Statuses] /\ running \in [DOMAIN rows -> RunRecord]
  BY DEF CronInit
<1>2. starts \in 0 .. MaxStarts
  BY CronAssumption DEF CronInit
<1> QED BY <1>1, <1>2 DEF CronInit, CronTypeOK, Schedules

LEMMA CronInitHolds == CronInit /\ ServiceInit => CronInv
<1> SUFFICES ASSUME CronInit, ServiceInit PROVE CronInv
  OBVIOUS
<1>1. CronTypeOK
  BY CronTypesBegin
<1>2. CallsOK
  BY DEF ServiceInit, CallsOK, Calls
<1>3. StartsOK /\ RunsOK /\ ExecutionsTellTheTruth
  BY DEF CronInit, StartsOK, RunsOK, ExecutionsTellTheTruth
<1> QED BY <1>1, <1>2, <1>3 DEF CronInv

(* A step that leaves the executions and the server alone owes them nothing. *)
LEMMA ExecutionsKept ==
    ASSUME CronInv, UNCHANGED <<up, starts, rows, running, scenario>>
    PROVE  StartsOK' /\ RunsOK' /\ ExecutionsTellTheTruth'
  BY DEF CronInv, StartsOK, RunsOK, ExecutionsTellTheTruth, Offered

(* A step that moves one run on, and perhaps writes its row, owes that run  *)
(* and that row; the others are as they were.                               *)
LEMMA OneRun ==
    ASSUME CronInv, NEW x \in DOMAIN running,
           NEW r \in RunRecord,
           running' = [running EXCEPT ![x] = r],
           rows' \in [DOMAIN rows -> Statuses],
           \A y \in DOMAIN rows \ {x} : rows'[y] = rows[y],
           UNCHANGED <<table, up, starts, timer, serviceVars>>,
           r.at = "completing" => r.ended = "returned",
           r.at = "failing" => r.ended = "threw" \/ Offered("outage"),
           r.at = "lost" => Offered("outage"),
           rows'[x] = "completed" => r.ended = "returned",
           rows'[x] = "failed" => r.ended = "threw" \/ Offered("outage"),
           rows'[x] = "running" <=> r.at # "over"
    PROVE  CronInv'
<1>1. CronTypeOK'
  BY DEF CronInv, CronTypeOK
<1>2. CallsOK' /\ StartsOK'
  BY DEF CronInv, CallsOK, StartsOK, serviceVars
<1>3. RunsOK'
  BY DEF CronInv, CronTypeOK, RunsOK, Offered, serviceVars
<1>4. ExecutionsTellTheTruth'
  BY DEF CronInv, CronTypeOK, ExecutionsTellTheTruth, Offered, serviceVars
<1> QED BY <1>1, <1>2, <1>3, <1>4 DEF CronInv

LEMMA CronStep ==
    ASSUME CronInv, [CronNext]_<<cronVars, serviceVars>>
    PROVE  CronInv'
<1> USE DEF CronInv
<1>1. CASE ServerStarts
  <2>1. CronTypeOK'
    BY <1>1, CronAssumption DEF ServerStarts, CronTypeOK
  <2>2. CallsOK' /\ StartsOK'
    BY <1>1 DEF ServerStarts, CallsOK, StartsOK, CronTypeOK, serviceVars
  <2>3. RunsOK' /\ ExecutionsTellTheTruth'
    BY <1>1, CronAssumption DEF ServerStarts, RunsOK, ExecutionsTellTheTruth, CronTypeOK, Offered, serviceVars
  <2> QED BY <2>1, <2>2, <2>3
<1>2. CASE ServerStops
  <2>1. CronTypeOK'
    BY <1>2 DEF ServerStops, CronTypeOK, RunRecord
  <2>2. CallsOK' /\ StartsOK'
    BY <1>2 DEF ServerStops, CallsOK, Calls, StartsOK
  <2>3. RunsOK' /\ ExecutionsTellTheTruth'
    BY <1>2 DEF ServerStops, RunsOK, ExecutionsTellTheTruth, CronTypeOK, RunRecord, StartsOK, Offered
  <2> QED BY <2>1, <2>2, <2>3
<1>3. ASSUME NEW j \in Jobs, NEW active \in BOOLEAN, NEW schedule \in Schedules,
             UpdateCronJob(j, active, schedule)
      PROVE  CronInv'
  <2>1. CronTypeOK'
    BY <1>3 DEF UpdateCronJob, CronTypeOK
  <2>2. CallsOK' /\ UNCHANGED <<up, starts, rows, running, scenario>>
    BY <1>3 DEF UpdateCronJob, CallsOK, serviceVars
  <2> QED BY <2>1, <2>2, ExecutionsKept
<1>4. ASSUME NEW h \in Handlers, NEW j \in Jobs, RestartReads(h, j)
      PROVE  CronInv'
  <2>1. CronTypeOK' /\ UNCHANGED <<up, starts, rows, running, scenario>>
    BY <1>4 DEF RestartReads, Takes, CronTypeOK, cronVars
  <2>2. CallsOK'
    BY <1>4 DEF RestartReads, Takes, CallsOK, Calls, CronTypeOK
  <2> QED BY <2>1, <2>2, ExecutionsKept
<1>5. ASSUME NEW h \in Handlers, RestartSets(h)
      PROVE  CronInv'
  <2>1. call[h].job \in Jobs /\ call[h].schedule \in Schedules
    BY <1>5 DEF RestartSets, Ends, CallsOK, Calls, Idle
  <2>2. CronTypeOK' /\ UNCHANGED <<up, starts, rows, running, scenario>>
    BY <1>5, <2>1 DEF RestartSets, Ends, CronTypeOK
  <2>3. CallsOK'
    BY <1>5 DEF RestartSets, Ends, CallsOK, Calls
  <2> QED BY <2>2, <2>3, ExecutionsKept
<1>6. ASSUME NEW h \in Handlers, NEW j \in Jobs, RunBegins(h, j)
      PROVE  CronInv'
  <2>1. CronTypeOK' /\ UNCHANGED <<up, starts, rows, running, scenario>>
    BY <1>6 DEF RunBegins, Takes, CronTypeOK, cronVars
  <2>2. CallsOK'
    BY <1>6 DEF RunBegins, Takes, CallsOK, Calls
  <2> QED BY <2>1, <2>2, ExecutionsKept
<1>7. ASSUME NEW h \in Handlers, RunCreates(h)
      PROVE  CronInv'
  <2>1. call[h].job \in Jobs
    BY <1>7 DEF RunCreates, Ends, CallsOK, Calls, Idle
  <2>2. PICK x \in Executions \ DOMAIN rows :
          /\ rows' = [y \in DOMAIN rows \cup {x} |-> IF y = x THEN "running" ELSE rows[y]]
          /\ running' = [y \in DOMAIN rows \cup {x} |->
               IF y = x THEN [job |-> call[h].job, at |-> "handling", ended |-> "no"] ELSE running[y]]
    BY <1>7 DEF RunCreates, Fresh
  <2>3. CronTypeOK'
    BY <1>7, <2>1, <2>2 DEF RunCreates, CronTypeOK, RunRecord, Statuses
  <2>4. CallsOK' /\ StartsOK'
    BY <1>7 DEF RunCreates, Ends, CallsOK, Calls, StartsOK
  <2>5. RunsOK' /\ ExecutionsTellTheTruth'
    BY <1>7, <2>2 DEF RunCreates, Ends, RunsOK, ExecutionsTellTheTruth, CronTypeOK, Offered
  <2> QED BY <2>3, <2>4, <2>5
<1>8. ASSUME NEW x, HandlerReturns(x) \/ HandlerThrows(x) \/ RecordsCompleted(x)
                    \/ CompletionFails(x) \/ RecordsFailed(x) \/ FailureIsLost(x)
      PROVE  CronInv'
  <2> USE DEF CronTypeOK
  <2>1. x \in DOMAIN running /\ running[x] \in RunRecord /\ rows[x] \in Statuses
    BY <1>8 DEF HandlerReturns, HandlerThrows, RecordsCompleted, CompletionFails, RecordsFailed, FailureIsLost
  <2>2. CASE HandlerReturns(x)
    <3> DEFINE r == [running[x] EXCEPT !.at = "completing", !.ended = "returned"]
    <3>1. r \in RunRecord /\ r.at = "completing" /\ r.ended = "returned"
      BY <2>1 DEF RunRecord
    <3>2. /\ running' = [running EXCEPT ![x] = r]
          /\ UNCHANGED <<table, up, starts, timer, rows, serviceVars>>
      BY <2>2 DEF HandlerReturns
    <3>3. rows[x] = "running"
      BY <2>1, <2>2 DEF HandlerReturns, ExecutionsTellTheTruth
    <3> HIDE DEF r
    <3> QED BY <2>1, <3>1, <3>2, <3>3, OneRun
  <2>3. CASE HandlerThrows(x)
    <3> DEFINE r == [running[x] EXCEPT !.at = "failing", !.ended = "threw"]
    <3>1. r \in RunRecord /\ r.at = "failing" /\ r.ended = "threw"
      BY <2>1 DEF RunRecord
    <3>2. /\ running' = [running EXCEPT ![x] = r]
          /\ UNCHANGED <<table, up, starts, timer, rows, serviceVars>>
      BY <2>3 DEF HandlerThrows
    <3>3. rows[x] = "running"
      BY <2>1, <2>3 DEF HandlerThrows, ExecutionsTellTheTruth
    <3> HIDE DEF r
    <3> QED BY <2>1, <3>1, <3>2, <3>3, OneRun
  <2>4. CASE RecordsCompleted(x)
    <3> DEFINE r == [running[x] EXCEPT !.at = "over"]
    <3>1. r \in RunRecord /\ r.at = "over" /\ r.ended = running[x].ended
      BY <2>1 DEF RunRecord
    <3>2. running[x].ended = "returned"
      BY <2>1, <2>4 DEF RecordsCompleted, RunsOK
    <3> QED BY <2>1, <2>4, <3>1, <3>2, OneRun DEF RecordsCompleted, Statuses
  <2>5. CASE CompletionFails(x)
    <3> DEFINE r == [running[x] EXCEPT !.at = "failing"]
    <3>1. r \in RunRecord /\ r.at = "failing" /\ Offered("outage")
      BY <2>1, <2>5 DEF RunRecord, CompletionFails
    <3>2. /\ running' = [running EXCEPT ![x] = r]
          /\ UNCHANGED <<table, up, starts, timer, rows, serviceVars>>
      BY <2>5 DEF CompletionFails
    <3>3. rows[x] = "running"
      BY <2>1, <2>5 DEF CompletionFails, ExecutionsTellTheTruth
    <3> HIDE DEF r
    <3> QED BY <2>1, <3>1, <3>2, <3>3, OneRun
  <2>6. CASE RecordsFailed(x)
    <3> DEFINE r == [running[x] EXCEPT !.at = "over"]
    <3>1. r \in RunRecord /\ r.at = "over" /\ r.ended = running[x].ended
      BY <2>1 DEF RunRecord
    <3>2. running[x].ended = "threw" \/ Offered("outage")
      BY <2>1, <2>6 DEF RecordsFailed, RunsOK
    <3> QED BY <2>1, <2>6, <3>1, <3>2, OneRun DEF RecordsFailed, Statuses
  <2>7. CASE FailureIsLost(x)
    <3> DEFINE r == [running[x] EXCEPT !.at = "lost"]
    <3>1. r \in RunRecord /\ r.at = "lost" /\ Offered("outage")
      BY <2>1, <2>7 DEF RunRecord, FailureIsLost
    <3>2. /\ running' = [running EXCEPT ![x] = r]
          /\ UNCHANGED <<table, up, starts, timer, rows, serviceVars>>
      BY <2>7 DEF FailureIsLost
    <3>3. rows[x] = "running"
      BY <2>1, <2>7 DEF FailureIsLost, ExecutionsTellTheTruth
    <3> HIDE DEF r
    <3> QED BY <2>1, <3>1, <3>2, <3>3, OneRun
  <2> QED BY <1>8, <2>2, <2>3, <2>4, <2>5, <2>6, <2>7
<1>9. CASE UNCHANGED <<cronVars, serviceVars>>
  BY <1>9, ExecutionsKept DEF cronVars, serviceVars, CronTypeOK, CallsOK
<1> QED BY <1>1, <1>2, <1>3, <1>4, <1>5, <1>6, <1>7, <1>8, <1>9 DEF CronNext

(* The strengthened invariant holds of every behaviour of the runner.       *)
THEOREM CronInvariant == CronSpec => []CronInv
<1>1. CronInit /\ ServiceInit => CronInv
  BY CronInitHolds
<1>2. CronInv /\ [CronNext]_<<cronVars, serviceVars>> => CronInv'
  BY CronStep
<1> QED BY <1>1, <1>2, PTL DEF CronSpec

(* The tables, the timers and the runs stay well formed, whatever starts,   *)
(* stops and outages come (base-cron.service).                              *)
THEOREM CronTypes == CronSpec => []CronTypeOK
<1>1. CronInv => CronTypeOK
  BY DEF CronInv
<1> QED BY <1>1, CronInvariant, PTL

(* The log of executions never flatters, for any number of overlapping runs *)
(* and of starts (base-cron.service runWithLogging).                        *)
THEOREM ExecutionsTruth == CronSpec => []ExecutionsTellTheTruth
<1>1. CronInv => ExecutionsTellTheTruth
  BY DEF CronInv
<1> QED BY <1>1, CronInvariant, PTL
=============================================================================
