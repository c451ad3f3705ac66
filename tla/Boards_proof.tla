---------------------------- MODULE Boards_proof ----------------------------
(* Proofs about what people post: Messages, JobBoard, Landings, and what    *)
(* comes in from other boards (ExternalJobs), for any users, rows, handlers *)
(* and scenarios.                                                           *)
EXTENDS Messages, JobBoard, Landings, ExternalJobs, SequenceTheorems, Service_proof

-----------------------------------------------------------------------------
(* Messages *)

MessagesCalls == {Idle} \cup [op : {"deleteConversation"}, by : People, other : People]

(* Nobody writes to himself: a side of a message is one of two people.      *)
TwoSides == \A m \in DOMAIN messages : messages[m].from # messages[m].to

MessagesInv == MessagesTypeOK /\ TwoSides /\ call \in [Handlers -> MessagesCalls]

LEMMA MessagesInitHolds == MessagesInit /\ ServiceInit => MessagesInv
  BY DEF MessagesInit, ServiceInit, MessagesInv, MessagesTypeOK, TwoSides, MessagesCalls

(* Once sent, a message keeps its sides, and stays.                         *)
SidesStay ==
    /\ DOMAIN messages \subseteq DOMAIN messages'
    /\ \A m \in DOMAIN messages : messages'[m].from = messages[m].from /\ messages'[m].to = messages[m].to

LEMMA MessagesStep ==
    ASSUME MessagesInv, [MessagesNext]_<<messages, serviceVars>>
    PROVE  MessagesInv' /\ SidesStay
<1> USE DEF MessagesInv, MessagesTypeOK, MessageRecord, TwoSides, SidesStay
<1>1. ASSUME NEW u \in People, NEW other \in People, SendMessage(u, other)
      PROVE  MessagesInv' /\ SidesStay
  <2>1. PICK m \in MessageIds :
          /\ DOMAIN messages = {n \in MessageIds : n < m}
          /\ messages' = [n \in DOMAIN messages \cup {m} |->
                            IF n = m THEN [from |-> u, to |-> other, read |-> FALSE, hidFrom |-> FALSE, hidTo |-> FALSE]
                            ELSE messages[n]]
    BY <1>1 DEF SendMessage
  <2>2. m \notin DOMAIN messages
    BY <2>1, MessagesAssumption
  <2> QED BY <1>1, <2>1, <2>2 DEF SendMessage, serviceVars
<1>2. ASSUME NEW u \in People, NEW m \in MessageIds, MarkAsRead(u, m) \/ DeleteMessage(u, m) \/ DeleteForAll(u, m)
      PROVE  MessagesInv' /\ SidesStay
  <2>1. UNCHANGED call /\ m \in DOMAIN messages
    BY <1>2 DEF MarkAsRead, DeleteMessage, DeleteForAll, serviceVars
  <2>2. /\ DOMAIN messages' = DOMAIN messages /\ \A n \in DOMAIN messages \ {m} : messages'[n] = messages[n]
        /\ messages'[m] \in MessageRecord
        /\ messages'[m].from = messages[m].from /\ messages'[m].to = messages[m].to
    <3>1. CASE MarkAsRead(u, m)
      BY <3>1 DEF MarkAsRead
    <3>2. CASE DeleteMessage(u, m)
      BY <3>2 DEF DeleteMessage
    <3>3. CASE DeleteForAll(u, m)
      BY <3>3 DEF DeleteForAll
    <3> QED BY <1>2, <3>1, <3>2, <3>3
  <2> QED BY <2>1, <2>2
<1>3. ASSUME NEW u \in People, NEW other \in People, NEW h \in Handlers, DeleteConversation(h, u, other)
      PROVE  MessagesInv' /\ SidesStay
  BY <1>3 DEF DeleteConversation, Takes, MessagesCalls
<1>4. ASSUME NEW h \in Handlers, DeleteReceived(h) PROVE MessagesInv' /\ SidesStay
  BY <1>4 DEF DeleteReceived, Ends, MessagesCalls
<1>5. CASE UNCHANGED <<messages, serviceVars>>
  BY <1>5 DEF serviceVars
<1> QED BY <1>1, <1>2, <1>3, <1>4, <1>5 DEF MessagesNext

LEMMA MessagesInvariant == MessagesSpec => []MessagesInv
  BY MessagesInitHolds, MessagesStep, PTL DEF MessagesSpec

(* The two queries select the same rows: what u received, he finds in the   *)
(* thread with its sender unless he hid it.                                 *)
LEMMA BadgeFollows == MessagesInv => BadgeMatchesThread
<1> SUFFICES ASSUME MessagesInv, NEW u \in People, NEW other \in DOMAIN GetConversations(u)
             PROVE  GetConversations(u)[other] =
                        Cardinality({m \in GetMessages(u, other) : messages[m].to = u /\ ~messages[m].read})
  BY DEF BadgeMatchesThread
<1> DEFINE unread == {m \in DOMAIN messages : messages[m].from = other /\ messages[m].to = u
                                              /\ ~messages[m].read /\ ~messages[m].hidTo}
           thread == {m \in GetMessages(u, other) : messages[m].to = u /\ ~messages[m].read}
<1>1. \A m \in DOMAIN messages : m \in unread <=> m \in thread
  BY DEF MessagesInv, TwoSides, GetMessages, Other, Visible
<1>2. unread = thread
  BY <1>1 DEF GetMessages
<1>3. GetConversations(u)[other] = Cardinality(unread)
  BY DEF GetConversations
<1> QED BY <1>2, <1>3

(* The unread count beside a conversation is that of its thread, whatever   *)
(* each side hid and however the handlers of deleteConversation interleave  *)
(* (messages.service getConversations, getMessages).                        *)
THEOREM MessageBadges == MessagesSpec => []BadgeMatchesThread
  BY MessagesInvariant, BadgeFollows, PTL

(* Who loses sight of a message on a step has asked for it.                 *)
LEMMA HidingIsAsked ==
    ASSUME MessagesInv, [MessagesNext]_<<messages, serviceVars>>, ~UNCHANGED messages,
           NEW m \in DOMAIN messages, NEW u \in People, Visible(u, m), ~Visible(u, m)'
    PROVE  \/ DeleteMessage(u, m) \/ DeleteForAll(messages[m].from, m)
           \/ \E h \in Handlers : {call[h], call'[h]} \cap Clearing(u) # {}
<1>0. /\ messages[m].from \in People /\ messages[m].to \in People /\ messages[m].from # messages[m].to
      /\ messages'[m].from = messages[m].from /\ messages'[m].to = messages[m].to /\ m \in MessageIds
  BY MessagesStep DEF MessagesInv, MessagesTypeOK, MessageRecord, TwoSides, SidesStay
<1>1. ASSUME NEW v \in People, NEW other \in People, SendMessage(v, other) PROVE FALSE
  <2>1. messages'[m] = messages[m]
    BY <1>1, MessagesAssumption DEF SendMessage, MessagesInv, MessagesTypeOK
  <2> QED BY <2>1 DEF Visible
<1>2. ASSUME NEW v \in People, NEW n \in MessageIds, MarkAsRead(v, n) PROVE FALSE
  <2>1. messages'[m].hidFrom = messages[m].hidFrom /\ messages'[m].hidTo = messages[m].hidTo
    BY <1>2 DEF MarkAsRead, MessagesInv, MessagesTypeOK, MessageRecord
  <2> QED BY <1>0, <2>1 DEF Visible
<1>3. ASSUME NEW v \in People, NEW n \in MessageIds, DeleteMessage(v, n) PROVE DeleteMessage(u, m)
  <2>1. n = m
    BY <1>3 DEF DeleteMessage, Visible
  <2>2. v = u
    BY <1>0, <1>3, <2>1 DEF DeleteMessage, Visible, MessagesInv, MessagesTypeOK, MessageRecord
  <2> QED BY <1>3, <2>1, <2>2
<1>4. ASSUME NEW v \in People, NEW n \in MessageIds, DeleteForAll(v, n)
      PROVE  DeleteForAll(messages[m].from, m)
  <2>1. n = m
    BY <1>4 DEF DeleteForAll, Visible
  <2>2. v = messages[m].from
    BY <1>4, <2>1 DEF DeleteForAll
  <2> QED BY <1>4, <2>1, <2>2
<1>5. ASSUME NEW v \in People, NEW other \in People, NEW h \in Handlers, DeleteConversation(h, v, other)
      PROVE  call'[h] \in Clearing(u)
  <2>1. messages[m].from = v /\ messages'[m].hidTo = messages[m].hidTo
    BY <1>5 DEF DeleteConversation, Visible, MessagesInv, MessagesTypeOK, MessageRecord
  <2>2. u = v
    BY <1>0, <2>1 DEF Visible
  <2>3. call'[h] = [op |-> "deleteConversation", by |-> v, other |-> other]
    BY <1>5 DEF DeleteConversation, Takes, MessagesInv
  <2> QED BY <2>2, <2>3 DEF Clearing
<1>6. ASSUME NEW h \in Handlers, DeleteReceived(h) PROVE call[h] \in Clearing(u)
  <2>1. messages[m].to = call[h].by /\ messages'[m].hidFrom = messages[m].hidFrom
    BY <1>6 DEF DeleteReceived, Visible, MessagesInv, MessagesTypeOK, MessageRecord
  <2>2. u = call[h].by
    BY <1>0, <2>1 DEF Visible
  <2>3. call[h] \in [op : {"deleteConversation"}, by : People, other : People]
    BY <1>6 DEF DeleteReceived, Ends, MessagesInv, MessagesCalls, Idle
  <2> QED BY <2>2, <2>3 DEF Clearing
<1>7. CASE MessagesNext
  BY <1>1, <1>2, <1>3, <1>4, <1>5, <1>6, <1>7 DEF MessagesNext
<1> QED BY <1>7

(* A message leaves somebody's thread only at his own request or because    *)
(* its sender took it back, whichever handlers run between the two updates  *)
(* of deleteConversation (messages.service).                                *)
THEOREM MessageHiding == MessagesSpec => HiddenByItsSide
<1> DEFINE Asked ==
      \A m \in DOMAIN messages, u \in People :
         Visible(u, m) /\ ~Visible(u, m)' =>
            \/ DeleteMessage(u, m) \/ DeleteForAll(messages[m].from, m)
            \/ \E h \in Handlers : {call[h], call'[h]} \cap Clearing(u) # {}
<1>1. MessagesInv /\ [MessagesNext]_<<messages, serviceVars>> => [Asked]_messages
  BY HidingIsAsked
<1> QED BY <1>1, MessagesInvariant, PTL DEF MessagesSpec, HiddenByItsSide

-----------------------------------------------------------------------------
(* JobBoard *)

JobsCalls ==
    {Idle} \cup [op : {"getPublicJobById", "getWorkById"}, job : JobIds]
           \cup [op : {"apply", "applyToWork"}, by : Applicants, job : JobIds]

(* A handler that checked a job still finds its row: rows are not removed.  *)
JobsInv ==
    /\ JobsTypeOK /\ call \in [Handlers -> JobsCalls]
    /\ \A h \in Handlers : call[h] # Idle => call[h].job \in DOMAIN jobs
    /\ \A j \in DOMAIN jobs : jobs[j].clicks = visits[j]
    /\ \A j \in JobIds \ DOMAIN jobs : visits[j] = 0
    /\ \A j \in JobIds, u \in Applicants : applications[<<j, u>>] \in {0, 1}

LEMMA JobsInitHolds == JobsInit /\ ServiceInit => JobsInv
  BY DEF JobsInit, ServiceInit, JobsInv, JobsTypeOK, JobsCalls

(* The boards agree by their definitions, and whoever applied applied for a *)
(* job that is a row.                                                       *)
LEMMA TalliesFollow == JobsInv => JobTalliesAreTrue
<1> SUFFICES ASSUME JobsInv PROVE JobTalliesAreTrue
  OBVIOUS
<1>1. ASSUME NEW asked, NEW roots
      PROVE  /\ ListPublicJobs(asked, roots) = WorkList(asked, roots)
             /\ ListPublicJobs(asked, roots) \subseteq ListJobs({TRUE})
  BY DEF ListPublicJobs, WorkList, PublicJobs, Open, WorkAvailable, ListJobs, JobsInv, JobsTypeOK, JobRecord
<1>2. ASSUME NEW u \in Applicants
      PROVE  /\ ListMyApplications(u) = WorkApplications(u)
             /\ \A j \in ListMyApplications(u) : jobs[j].deleted \/ u \in ListJobApplications(j)
  BY DEF ListMyApplications, WorkApplications, HasApplied, ListJobApplications, ListJobs, JobsInv, JobsTypeOK,
         JobRecord
<1> QED BY <1>1, <1>2 DEF JobTalliesAreTrue, JobsInv

(* A row changes in what no tally counts.                                   *)
LEMMA RowKeeps ==
    ASSUME JobsInv, NEW j \in DOMAIN jobs, UNCHANGED <<applications, visits, call>>,
           DOMAIN jobs' = DOMAIN jobs, \A k \in DOMAIN jobs \ {j} : jobs'[k] = jobs[k],
           jobs'[j] \in JobRecord, jobs'[j].clicks = jobs[j].clicks
    PROVE  JobsInv'
  BY DEF JobsInv, JobsTypeOK

LEMMA JobChangeKeeps ==
    ASSUME JobsInv, NEW j \in JobIds, NEW w \in {"before", "open"}, NEW active \in BOOLEAN,
           \/ CreateJob(j, active, w) \/ UpdateJobStatus(j) \/ SoftDeleteJob(j) \/ DatePasses(j)
           \/ UpdateJob(j, "before")
    PROVE  JobsInv'
<1>1. CASE CreateJob(j, active, w)
  <2>1. /\ DOMAIN jobs' = DOMAIN jobs \cup {j} /\ j \notin DOMAIN jobs
        /\ \A k \in DOMAIN jobs : jobs'[k] = jobs[k]
        /\ jobs'[j] \in JobRecord /\ jobs'[j].clicks = 0 /\ UNCHANGED <<applications, visits, call>>
    BY <1>1 DEF CreateJob, JobRecord, serviceVars
  <2> QED BY <2>1 DEF JobsInv, JobsTypeOK
<1>2. ASSUME UpdateJobStatus(j) \/ SoftDeleteJob(j) \/ DatePasses(j) \/ UpdateJob(j, "before")
      PROVE  JobsInv'
  <2>1. j \in DOMAIN jobs /\ UNCHANGED <<applications, visits, call>> /\ jobs[j] \in JobRecord
    BY <1>2 DEF UpdateJobStatus, SoftDeleteJob, DatePasses, UpdateJob, serviceVars, JobsInv, JobsTypeOK
  <2>2. /\ DOMAIN jobs' = DOMAIN jobs /\ \A k \in DOMAIN jobs \ {j} : jobs'[k] = jobs[k]
        /\ jobs'[j] \in JobRecord /\ jobs'[j].clicks = jobs[j].clicks
    <3>1. CASE UpdateJobStatus(j)
      BY <2>1, <3>1 DEF UpdateJobStatus, JobRecord
    <3>2. CASE SoftDeleteJob(j)
      BY <2>1, <3>2 DEF SoftDeleteJob, JobRecord
    <3>3. CASE DatePasses(j)
      BY <2>1, <3>3 DEF DatePasses, JobRecord
    <3>4. CASE UpdateJob(j, "before")
      BY <2>1, <3>4 DEF UpdateJob, JobRecord
    <3> QED BY <1>2, <3>1, <3>2, <3>3, <3>4
  <2> QED BY <2>1, <2>2, RowKeeps
<1> QED BY <1>1, <1>2

LEMMA JobTakesKeeps ==
    ASSUME JobsInv, NEW h \in Handlers, NEW r \in JobsCalls, r # Idle, r.job \in DOMAIN jobs,
           Takes(h, r), UNCHANGED jobVars
    PROVE  JobsInv'
<1>1. call' \in [Handlers -> JobsCalls] /\ \A k \in Handlers : call'[k] = IF k = h THEN r ELSE call[k]
  BY DEF Takes, JobsInv
<1> QED BY <1>1 DEF JobsInv, JobsTypeOK, jobVars

LEMMA VisitKeeps ==
    ASSUME JobsInv, NEW h \in Handlers, VisitCounts(h)
    PROVE  JobsInv'
<1> DEFINE j == call[h].job
<1>1. /\ j \in DOMAIN jobs /\ j \in JobIds /\ call' \in [Handlers -> JobsCalls]
      /\ \A k \in Handlers : call'[k] = IF k = h THEN Idle ELSE call[k]
  BY DEF VisitCounts, Ends, JobsInv, JobsTypeOK, Idle, JobsCalls
<1>2. /\ visits' = [visits EXCEPT ![j] = @ + 1] /\ jobs' = [jobs EXCEPT ![j].clicks = @ + 1]
      /\ UNCHANGED applications
  BY DEF VisitCounts
<1>3. /\ DOMAIN jobs' = DOMAIN jobs /\ \A k \in DOMAIN jobs \ {j} : jobs'[k] = jobs[k]
      /\ jobs'[j] \in JobRecord /\ jobs'[j].clicks = jobs[j].clicks + 1
  BY <1>1, <1>2 DEF JobsInv, JobsTypeOK, JobRecord
<1>4. visits' \in [JobIds -> Nat] /\ \A k \in JobIds : visits'[k] = IF k = j THEN visits[k] + 1 ELSE visits[k]
  BY <1>1, <1>2 DEF JobsInv, JobsTypeOK
<1> QED BY <1>1, <1>2, <1>3, <1>4 DEF JobsInv, JobsTypeOK

LEMMA ApplyKeeps ==
    ASSUME JobsInv, NEW h \in Handlers, ApplyInserts(h)
    PROVE  JobsInv'
<1> DEFINE j == call[h].job
           u == call[h].by
<1>1. /\ j \in JobIds /\ u \in Applicants /\ call' \in [Handlers -> JobsCalls]
      /\ \A k \in Handlers : call'[k] = IF k = h THEN Idle ELSE call[k]
  BY DEF ApplyInserts, Ends, JobsInv, Idle, JobsCalls
<1>2. /\ applications' = IF HasApplied(j, u) THEN applications ELSE [applications EXCEPT ![<<j, u>>] = @ + 1]
      /\ UNCHANGED <<jobs, visits>>
  BY DEF ApplyInserts
<1>3. ~HasApplied(j, u) => applications[<<j, u>>] = 0
  BY <1>1 DEF HasApplied, JobsInv
<1>4. /\ applications' \in [JobIds \X Applicants -> Nat]
      /\ \A k \in JobIds, v \in Applicants : applications'[<<k, v>>] \in {0, 1}
  BY <1>1, <1>2, <1>3 DEF JobsInv, JobsTypeOK
<1> QED BY <1>1, <1>2, <1>4 DEF JobsInv, JobsTypeOK

LEMMA JobsStep ==
    ASSUME JobsInv, [JobsNext]_<<jobVars, serviceVars>>
    PROVE  JobsInv'
<1>1. ASSUME NEW h \in Handlers, NEW j \in JobIds, VisitBegins(h, j) \/ WorkVisitBegins(h, j)
      PROVE  JobsInv'
  <2>1. PICK op \in {"getPublicJobById", "getWorkById"} : Takes(h, [op |-> op, job |-> j])
    BY <1>1 DEF VisitBegins, WorkVisitBegins
  <2>2. j \in DOMAIN jobs /\ UNCHANGED jobVars
    BY <1>1 DEF VisitBegins, WorkVisitBegins, Open, WorkAvailable
  <2> QED BY <2>1, <2>2, JobTakesKeeps DEF JobsCalls, Idle
<1>2. ASSUME NEW h \in Handlers, NEW j \in JobIds, NEW u \in Applicants,
             ApplyBegins(h, u, j) \/ WorkApplyBegins(h, u, j)
      PROVE  JobsInv'
  <2>1. PICK op \in {"apply", "applyToWork"} : Takes(h, [op |-> op, by |-> u, job |-> j])
    BY <1>2 DEF ApplyBegins, WorkApplyBegins
  <2>2. j \in DOMAIN jobs /\ UNCHANGED jobVars
    BY <1>2 DEF ApplyBegins, WorkApplyBegins, Open, WorkAvailable
  <2> QED BY <2>1, <2>2, JobTakesKeeps DEF JobsCalls, Idle
<1>3. CASE UNCHANGED <<jobVars, serviceVars>>
  BY <1>3 DEF JobsInv, JobsTypeOK, jobVars, serviceVars
<1> QED BY <1>1, <1>2, <1>3, JobChangeKeeps, VisitKeeps, ApplyKeeps DEF JobsNext

LEMMA JobsInvariant == JobsSpec => []JobsInv
  BY JobsInitHolds, JobsStep, PTL DEF JobsSpec

(* Every visit that was answered is counted, nobody has two applications    *)
(* for a job, and the two boards, the applicant's page and the admins' list *)
(* agree, however many requests are served at a time (jobs.service,         *)
(* work.service, admin-jobs.service).                                       *)
THEOREM JobTallies == JobsSpec => []JobTalliesAreTrue
  BY JobsInvariant, TalliesFollow, PTL

-----------------------------------------------------------------------------
(* Landings *)

FieldCalls ==
    {Idle} \cup [op : {"addField"}, order : Nat, byHand : BOOLEAN, required : BOOLEAN]
           \cup [op : {"reorderFields"}, list : UNION {[1 .. n -> FieldIds] : n \in Nat}]
           \cup [op : {"submitLanding"}, filled : SUBSET FieldIds]

Listed(h) == {call[h].list[i] : i \in DOMAIN call[h].list}

Reordering == {h \in Handlers : call[h].op = "reorderFields"}

Adding(k) == {h \in Handlers : call[h].op = "addField" /\ call[h].order = k /\ ~call[h].byHand}

(* The fields at place k that none of the reorderings R is going to move;   *)
(* those that an admin put there do not count.                              *)
Places(k, R) ==
    {f \in DOMAIN fields : fields[f].order = k /\ ~fields[f].byHand /\ \A h \in R : f \notin Listed(h)}

(* Whoever is about to put a field at a place shares it with those there,   *)
(* and so does a reordering with those that it does not move: together they *)
(* are no more than the handlers that run side by side.                     *)
RoomAtPlace ==
    \A k \in Nat, R \in SUBSET Reordering :
        Cardinality(Places(k, R)) + Cardinality(Adding(k)) + Cardinality(R) <= Side

LandingsInv ==
    /\ DOMAIN fields \subseteq FieldIds /\ IsFiniteSet(DOMAIN fields)
    /\ \A f \in DOMAIN fields : fields[f] \in FieldRecord
    /\ call \in [Handlers -> FieldCalls]
    /\ BusyOK /\ RoomAtPlace

LEMMA FewPlaces ==
    ASSUME LandingsInv, NEW k, NEW R
    PROVE  /\ IsFiniteSet(Places(k, R)) /\ Cardinality(Places(k, R)) \in Nat
           /\ \A P \in SUBSET Places(k, R) : Cardinality(P) \in Nat /\ Cardinality(P) <= Cardinality(Places(k, R))
<1>1. Places(k, R) \subseteq DOMAIN fields
  BY DEF Places
<1> QED BY <1>1, FS_Subset, FS_CardinalityType DEF LandingsInv

(* Those that add at a place and those that reorder are all busy.           *)
LEMMA AddOrReorder ==
    ASSUME NEW k, NEW R \in SUBSET Reordering
    PROVE  /\ Cardinality(Adding(k)) + Cardinality(R) <= Cardinality(Busy)
           /\ Cardinality(Adding(k)) \in Nat /\ Cardinality(R) \in Nat /\ Cardinality(Busy) \in Nat
           /\ IsFiniteSet(Adding(k)) /\ IsFiniteSet(R)
<1>1. Busy \in SUBSET Handlers /\ Adding(k) \in SUBSET Busy /\ R \in SUBSET Busy /\ Adding(k) \cap R = {}
  BY DEF Busy, Adding, Reordering, Idle
<1> QED BY <1>1, TwoKinds, FewHandlers

LEMMA LandingsInitHolds == LandingsInit /\ ServiceInit => LandingsInv
<1> SUFFICES ASSUME LandingsInit, ServiceInit PROVE LandingsInv
  OBVIOUS
<1>1. DOMAIN fields = {} /\ IsFiniteSet(DOMAIN fields) /\ call \in [Handlers -> FieldCalls] /\ BusyOK
  BY FS_EmptySet, NobodyBusy DEF LandingsInit, ServiceInit, FieldCalls
<1>2. ASSUME NEW k \in Nat, NEW R \in SUBSET Reordering
      PROVE  Cardinality(Places(k, R)) + Cardinality(Adding(k)) + Cardinality(R) <= Side
  <2>1. Places(k, R) = {} /\ Cardinality(Places(k, R)) = 0
    BY <1>1, FS_EmptySet DEF Places
  <2> QED BY <1>1, <2>1, AddOrReorder, SideIsNat DEF BusyOK
<1> QED BY <1>1, <1>2 DEF LandingsInv, RoomAtPlace

(* One more than the last is a place that no field has.                     *)
LEMMA NextOrderIsNew ==
    ASSUME LandingsInv
    PROVE  NextOrder \in Nat /\ \A f \in DOMAIN fields : fields[f].order # NextOrder
<1>1. CASE DOMAIN fields = {}
  BY <1>1 DEF NextOrder
<1>2. CASE DOMAIN fields # {}
  <2> DEFINE S == {fields[f].order : f \in DOMAIN fields}
             g == [f \in DOMAIN fields |-> fields[f].order]
  <2>1. S \subseteq Nat /\ S # {}
    BY <1>2 DEF LandingsInv, FieldRecord
  <2>2. IsFiniteSet(S)
    <3>1. g \in Surjection(DOMAIN fields, S)
      BY DEF Surjection
    <3> QED BY <3>1, FS_Surjection DEF LandingsInv
  <2>3. \E n \in S : \A m \in S : m <= n
    BY <2>1, <2>2, GreatestNumber
  <2>4. \E n \in S : \A f \in DOMAIN fields : fields[f].order <= n
    BY <2>3
  <2>5. PICK n \in S : NextOrder = n + 1 /\ \A f \in DOMAIN fields : fields[f].order <= n
    BY <1>2, <2>4 DEF NextOrder
  <2>6. n \in Nat /\ \A f \in DOMAIN fields : fields[f].order \in Nat
    BY <2>1, <2>5
  <2> QED BY <2>5, <2>6
<1> QED BY <1>1, <1>2

(* What a step has to keep for the room to remain.                          *)
LEMMA FrameKeeps ==
    ASSUME LandingsInv, BusyOK', Side' = Side, call' \in [Handlers -> FieldCalls],
           DOMAIN fields' \subseteq DOMAIN fields,
           \A f \in DOMAIN fields' :
               /\ fields'[f] \in FieldRecord
               /\ fields'[f].byHand \/ (fields'[f].order = fields[f].order /\ ~fields[f].byHand),
           \A h \in Handlers : call'[h] = call[h] \/ call'[h].op \notin {"addField", "reorderFields"}
    PROVE  LandingsInv'
<1>1. IsFiniteSet(DOMAIN fields') /\ DOMAIN fields' \subseteq FieldIds
  BY FS_Subset DEF LandingsInv
<1>2. ASSUME NEW k \in Nat, NEW R \in SUBSET Reordering'
      PROVE  Cardinality(Places(k, R)') + Cardinality(Adding(k)') + Cardinality(R) <= Side
  <2>1. R \in SUBSET Reordering /\ \A h \in R : Listed(h)' = Listed(h)
    BY DEF Reordering, Listed
  <2>2. Places(k, R)' \subseteq Places(k, R)
    BY <2>1 DEF Places
  <2>3. Adding(k)' \in SUBSET Adding(k)
    BY DEF Adding
  <2>4. Cardinality(Places(k, R)') \in Nat /\ Cardinality(Places(k, R)') <= Cardinality(Places(k, R))
    BY <2>2, FewPlaces
  <2>5. Cardinality(Adding(k)') \in Nat /\ Cardinality(Adding(k)') <= Cardinality(Adding(k))
    BY <2>3, FewHandlers DEF Adding
  <2>6. Cardinality(Places(k, R)) + Cardinality(Adding(k)) + Cardinality(R) <= Side
    BY <2>1 DEF LandingsInv, RoomAtPlace
  <2> QED BY <2>1, <2>4, <2>5, <2>6, FewPlaces, AddOrReorder, SideIsNat
<1> QED BY <1>1, <1>2 DEF LandingsInv, RoomAtPlace

LEMMA AddReadsKeeps ==
    ASSUME LandingsInv, NEW h \in Handlers, NEW byHand \in BOOLEAN, NEW order, NEW required \in BOOLEAN,
           AddFieldReads(h, byHand, order, required)
    PROVE  LandingsInv'
<1> DEFINE r == [op |-> "addField", order |-> order, byHand |-> byHand, required |-> required]
<1>1. /\ Takes(h, r) /\ UNCHANGED fields /\ r \in FieldCalls /\ r # Idle
      /\ byHand \/ order = NextOrder
  BY NextOrderIsNew DEF AddFieldReads, landingVars, FieldCalls, Idle
<1>2. BusyOK' /\ Side' = Side
  BY <1>1, TakesBusy DEF LandingsInv
<1>3. /\ call[h] = Idle /\ call' \in [Handlers -> FieldCalls]
      /\ \A k \in Handlers : call'[k] = IF k = h THEN r ELSE call[k]
  BY <1>1 DEF Takes, LandingsInv
<1>4. Reordering' = Reordering /\ \A k \in Reordering : Listed(k)' = Listed(k)
  BY <1>3 DEF Reordering, Listed, Idle
<1>5. ASSUME NEW k \in Nat, NEW R \in SUBSET Reordering'
      PROVE  Cardinality(Places(k, R)') + Cardinality(Adding(k)') + Cardinality(R) <= Side
  <2>1. R \in SUBSET Reordering /\ Places(k, R)' = Places(k, R)
    BY <1>1, <1>4 DEF Places
  <2>2. CASE k = NextOrder /\ ~byHand
    <3>1. Places(k, R) = {} /\ Cardinality(Places(k, R)) = 0
      BY <2>2, NextOrderIsNew, FS_EmptySet DEF Places
    <3>2. Adding(k)' \in SUBSET Busy' /\ R \in SUBSET Busy' /\ Adding(k)' \cap R = {} /\ Busy' \in SUBSET Handlers
      BY <1>5, <1>4 DEF Busy, Adding, Reordering, Idle
    <3>3. Cardinality(Adding(k)') + Cardinality(R) <= Cardinality(Busy') /\ Cardinality(Busy') \in Nat
          /\ Cardinality(Adding(k)') \in Nat /\ Cardinality(R) \in Nat
      BY <3>2, TwoKinds, FewHandlers
    <3> QED BY <2>1, <3>1, <3>3, <1>2, SideIsNat DEF BusyOK
  <2>3. CASE k # NextOrder \/ byHand
    <3>1. Adding(k)' = Adding(k)
      BY <1>1, <1>3, <2>3 DEF Adding, Idle
    <3> QED BY <2>1, <3>1 DEF LandingsInv, RoomAtPlace
  <2> QED BY <2>2, <2>3
<1> QED BY <1>1, <1>2, <1>3, <1>5 DEF LandingsInv, RoomAtPlace

LEMMA AddInsertsKeeps ==
    ASSUME LandingsInv, NEW h \in Handlers, AddFieldInserts(h)
    PROVE  LandingsInv'
<1>1. Ends(h, {"addField"}) /\ call[h].op = "addField"
  BY DEF AddFieldInserts, Ends
<1>2. BusyOK' /\ Side' = Side
  BY <1>1, EndsBusy DEF LandingsInv
<1>3. call[h] \in [op : {"addField"}, order : Nat, byHand : BOOLEAN, required : BOOLEAN]
  BY <1>1 DEF LandingsInv, FieldCalls, Idle
<1>4. /\ call' \in [Handlers -> FieldCalls]
      /\ \A k \in Handlers : call'[k] = IF k = h THEN Idle ELSE call[k]
  BY <1>1 DEF Ends, LandingsInv, FieldCalls
<1>5. PICK f \in FieldIds \ DOMAIN fields :
         fields' = [g \in DOMAIN fields \cup {f} |->
                      IF g = f THEN [order |-> call[h].order, byHand |-> call[h].byHand,
                                     required |-> call[h].required]
                      ELSE fields[g]]
  BY DEF AddFieldInserts, Fresh
<1>6. /\ DOMAIN fields' = DOMAIN fields \cup {f} /\ IsFiniteSet(DOMAIN fields')
      /\ \A g \in DOMAIN fields : fields'[g] = fields[g]
      /\ fields'[f].order = call[h].order /\ fields'[f].byHand = call[h].byHand /\ fields'[f] \in FieldRecord
  BY <1>3, <1>5, FS_AddElement DEF LandingsInv, FieldRecord
<1>7. Reordering' = Reordering /\ \A k \in Reordering : Listed(k)' = Listed(k)
  BY <1>1, <1>4 DEF Reordering, Listed, Idle
<1>8. ASSUME NEW k \in Nat, NEW R \in SUBSET Reordering'
      PROVE  Cardinality(Places(k, R)') + Cardinality(Adding(k)') + Cardinality(R) <= Side
  <2>1. R \in SUBSET Reordering
    BY <1>7
  <2>2. Cardinality(Places(k, R)) + Cardinality(Adding(k)) + Cardinality(R) <= Side
    BY <2>1 DEF LandingsInv, RoomAtPlace
  <2>3. Cardinality(Places(k, R)) \in Nat /\ Cardinality(Adding(k)) \in Nat /\ Cardinality(R) \in Nat
    BY <2>1, FewPlaces, AddOrReorder
  <2>4. CASE k = call[h].order /\ ~call[h].byHand
    <3>1. h \in Adding(k) /\ Adding(k)' = Adding(k) \ {h}
      BY <1>1, <1>4, <2>4 DEF Adding, Idle
    <3>2. Places(k, R)' \subseteq Places(k, R) \cup {f}
      BY <1>6, <1>7, <2>1 DEF Places
    <3>3. /\ Cardinality(Places(k, R) \cup {f}) + Cardinality(Adding(k) \ {h})
                 <= Cardinality(Places(k, R)) + Cardinality(Adding(k))
          /\ IsFiniteSet(Places(k, R) \cup {f}) /\ IsFiniteSet(Adding(k) \ {h})
      <4> DEFINE A == Places(k, R)
                 B == Adding(k)
      <4>1. IsFiniteSet(A) /\ IsFiniteSet(B) /\ h \in B /\ Cardinality(A) + Cardinality(B) \in Nat
        BY <2>1, <2>3, <3>1, FewPlaces, AddOrReorder
      <4> HIDE DEF A, B
      <4>2. IsFiniteSet(A \cup {f}) /\ IsFiniteSet(B \ {h})
        BY <4>1, FS_AddElement, FS_RemoveElement
      <4>3. Cardinality(A \cup {f}) + Cardinality(B \ {h}) <= Cardinality(A) + Cardinality(B)
        <5>1. PICK n \in Nat : n = Cardinality(A) + Cardinality(B)
          BY <4>1
        <5>2. Cardinality(A) + Cardinality(B) <= n
          BY <5>1
        <5>3. Cardinality(A \cup {f}) + Cardinality(B \ {h}) <= n
          BY <4>1, <5>2, HandsOver, Zenon
        <5> QED BY <5>1, <5>3
      <4> QED BY <4>2, <4>3 DEF A, B
    <3>4. /\ Cardinality(Places(k, R)') <= Cardinality(Places(k, R) \cup {f})
          /\ Cardinality(Places(k, R)') \in Nat /\ Cardinality(Places(k, R) \cup {f}) \in Nat
          /\ Cardinality(Adding(k) \ {h}) \in Nat
      BY <3>2, <3>3, FS_Subset, FS_CardinalityType
    <3> QED BY <2>2, <2>3, <3>1, <3>3, <3>4, SideIsNat
  <2>5. CASE k # call[h].order \/ call[h].byHand
    <3>1. Adding(k)' = Adding(k)
      BY <1>4, <2>5 DEF Adding, Idle
    <3>2. Places(k, R)' = Places(k, R)
      BY <1>6, <1>7, <2>1, <2>5 DEF Places
    <3> QED BY <2>2, <3>1, <3>2
  <2> QED BY <2>4, <2>5
<1> QED BY <1>2, <1>4, <1>6, <1>8 DEF LandingsInv, RoomAtPlace

(* A reordering lists every field there is: it leaves no place as it is.    *)
LEMMA ReorderReadsKeeps ==
    ASSUME LandingsInv, NEW h \in Handlers, NEW list \in Orders(DOMAIN fields), ReorderReads(h, list)
    PROVE  LandingsInv'
<1> DEFINE r == [op |-> "reorderFields", list |-> list]
<1>1. Takes(h, r) /\ UNCHANGED fields /\ r # Idle
  BY DEF ReorderReads, landingVars, Idle
<1>2. r \in FieldCalls
  <2>1. Cardinality(DOMAIN fields) \in Nat /\ DOMAIN fields \subseteq FieldIds
    BY FS_CardinalityType DEF LandingsInv
  <2>2. list \in [1 .. Cardinality(DOMAIN fields) -> FieldIds]
    BY <2>1 DEF Orders
  <2> QED BY <2>1, <2>2 DEF FieldCalls
<1>3. BusyOK' /\ Side' = Side
  BY <1>1, TakesBusy DEF LandingsInv
<1>4. /\ call[h] = Idle /\ call' \in [Handlers -> FieldCalls]
      /\ \A k \in Handlers : call'[k] = IF k = h THEN r ELSE call[k]
  BY <1>1, <1>2 DEF Takes, LandingsInv
<1>5. /\ Reordering' = Reordering \cup {h} /\ h \notin Reordering
      /\ \A k \in Reordering : Listed(k)' = Listed(k)
      /\ DOMAIN fields \subseteq Listed(h)'
  <2>1. Reordering' = Reordering \cup {h} /\ h \notin Reordering
    BY <1>4 DEF Reordering, Idle
  <2>2. \A k \in Reordering : call'[k] = call[k]
    BY <1>4, <2>1 DEF Reordering
  <2>3. Listed(h)' = {list[i] : i \in DOMAIN list}
    BY <1>4 DEF Listed
  <2>4. DOMAIN fields \subseteq {list[i] : i \in DOMAIN list}
    BY DEF Orders
  <2> QED BY <2>1, <2>2, <2>3, <2>4 DEF Listed
<1>6. ASSUME NEW k \in Nat, NEW R \in SUBSET Reordering'
      PROVE  Cardinality(Places(k, R)') + Cardinality(Adding(k)') + Cardinality(R) <= Side
  <2>1. Adding(k)' = Adding(k)
    BY <1>4 DEF Adding, Idle
  <2>2. CASE h \in R
    <3>1. Places(k, R)' = {} /\ Cardinality(Places(k, R)') = 0
      BY <1>1, <1>5, <2>2, FS_EmptySet DEF Places
    <3>2. Adding(k)' \in SUBSET Busy' /\ R \in SUBSET Busy' /\ Adding(k)' \cap R = {} /\ Busy' \in SUBSET Handlers
      BY <1>6 DEF Busy, Adding, Reordering, Idle
    <3>3. Cardinality(Adding(k)') + Cardinality(R) <= Cardinality(Busy') /\ Cardinality(Busy') \in Nat
          /\ Cardinality(Adding(k)') \in Nat /\ Cardinality(R) \in Nat
      BY <3>2, TwoKinds, FewHandlers
    <3> QED BY <3>1, <3>3, <1>3, SideIsNat DEF BusyOK
  <2>3. CASE h \notin R
    <3>1. R \in SUBSET Reordering /\ Places(k, R)' = Places(k, R)
      BY <1>1, <1>5, <2>3 DEF Places
    <3> QED BY <2>1, <3>1 DEF LandingsInv, RoomAtPlace
  <2> QED BY <2>2, <2>3
<1> QED BY <1>1, <1>3, <1>4, <1>6 DEF LandingsInv, RoomAtPlace

(* It gives the fields it lists one place each, and is itself no longer     *)
(* there to be counted.                                                     *)
LEMMA ReorderWritesKeeps ==
    ASSUME LandingsInv, NEW h \in Handlers, ReorderWrites(h)
    PROVE  LandingsInv'
<1> DEFINE list == call[h].list
<1>1. Ends(h, {"reorderFields"}) /\ call[h].op = "reorderFields"
  BY DEF ReorderWrites, Ends
<1>2. BusyOK' /\ Side' = Side
  BY <1>1, EndsBusy DEF LandingsInv
<1>3. DOMAIN list \subseteq Nat
  <2>1. call[h] \in [op : {"reorderFields"}, list : UNION {[1 .. n -> FieldIds] : n \in Nat}]
    BY <1>1 DEF LandingsInv, FieldCalls, Idle
  <2> QED BY <2>1
<1>4. /\ call' \in [Handlers -> FieldCalls]
      /\ \A k \in Handlers : call'[k] = IF k = h THEN Idle ELSE call[k]
  BY <1>1 DEF Ends, LandingsInv, FieldCalls
<1>5. /\ Reordering' = Reordering \ {h} /\ h \in Reordering
      /\ \A k \in Reordering \ {h} : Listed(k)' = Listed(k)
      /\ \A k : Adding(k)' = Adding(k)
  BY <1>1, <1>4 DEF Reordering, Listed, Idle, Adding
<1>6. CASE ~ (Listed(h) \subseteq DOMAIN fields)
  <2>1. UNCHANGED fields
    BY <1>6 DEF ReorderWrites, Listed
  <2>2. \A k \in Handlers : call'[k] = call[k] \/ call'[k].op \notin {"addField", "reorderFields"}
    BY <1>4 DEF Idle
  <2> QED BY <1>2, <1>4, <2>1, <2>2, FrameKeeps DEF LandingsInv
<1>7. CASE Listed(h) \subseteq DOMAIN fields
  <2>1. /\ DOMAIN fields' = DOMAIN fields
        /\ \A f \in DOMAIN fields \ Listed(h) : fields'[f] = fields[f]
        /\ \A f \in Listed(h) : /\ fields'[f] \in FieldRecord /\ ~fields'[f].byHand
                                /\ fields'[f].order \in DOMAIN list /\ list[fields'[f].order] = f
    <3>1. fields' = [f \in DOMAIN fields |->
                       IF f \in Listed(h)
                       THEN [fields[f] EXCEPT !.order = CHOOSE i \in DOMAIN list : list[i] = f,
                                              !.byHand = FALSE]
                       ELSE fields[f]]
      BY <1>7 DEF ReorderWrites, Listed
    <3>2. \A f \in Listed(h) : /\ (CHOOSE i \in DOMAIN list : list[i] = f) \in DOMAIN list
                               /\ list[CHOOSE i \in DOMAIN list : list[i] = f] = f
      BY DEF Listed
    <3> QED BY <1>3, <1>7, <3>1, <3>2 DEF LandingsInv, FieldRecord
  <2>2. ASSUME NEW k \in Nat, NEW R \in SUBSET Reordering'
        PROVE  Cardinality(Places(k, R)') + Cardinality(Adding(k)') + Cardinality(R) <= Side
    <3> DEFINE Q == R \cup {h}
    <3>1. Q \in SUBSET Reordering /\ R \in SUBSET Reordering /\ h \notin R
      BY <1>5
    <3>2. Cardinality(Q) = Cardinality(R) + 1 /\ Cardinality(R) \in Nat /\ Cardinality(Adding(k)) \in Nat
      BY <3>1, AddOrReorder, FS_AddElement
    <3>3. Cardinality(Places(k, Q)) + Cardinality(Adding(k)) + Cardinality(Q) <= Side
      BY <3>1 DEF LandingsInv, RoomAtPlace
    <3>4. Places(k, R)' \subseteq Places(k, Q) \cup {list[k]}
      BY <1>5, <2>1, <3>1 DEF Places
    <3>5. Cardinality(Places(k, R)') <= Cardinality(Places(k, Q)) + 1 /\ Cardinality(Places(k, R)') \in Nat
      <4>1. IsFiniteSet(Places(k, Q)) /\ Cardinality(Places(k, Q)) \in Nat
        BY FewPlaces
      <4>2. IsFiniteSet(Places(k, Q) \cup {list[k]})
            /\ Cardinality(Places(k, Q) \cup {list[k]}) <= Cardinality(Places(k, Q)) + 1
        <5> DEFINE P == Places(k, Q)
                   f == list[k]
        <5>1. IsFiniteSet(P) /\ Cardinality(P) \in Nat
          BY <4>1
        <5> HIDE DEF P, f
        <5>2. IsFiniteSet(P \cup {f})
          BY <5>1, FS_AddElement
        <5>3. Cardinality(P \cup {f}) = Cardinality(P) \/ Cardinality(P \cup {f}) = Cardinality(P) + 1
          BY <5>1, FS_AddElement, Zenon
        <5> QED BY <5>1, <5>2, <5>3 DEF P, f
      <4>3. /\ Cardinality(Places(k, R)') <= Cardinality(Places(k, Q) \cup {list[k]})
            /\ Cardinality(Places(k, R)') \in Nat /\ Cardinality(Places(k, Q) \cup {list[k]}) \in Nat
        BY <3>4, <4>2, FS_Subset, FS_CardinalityType
      <4> QED BY <4>1, <4>2, <4>3
    <3>6. Cardinality(Places(k, Q)) \in Nat
      BY FewPlaces
    <3> QED BY <1>5, <3>2, <3>3, <3>5, <3>6, SideIsNat
  <2> QED BY <1>2, <1>4, <2>1, <2>2 DEF LandingsInv, RoomAtPlace
<1> QED BY <1>6, <1>7

LEMMA LandingsStep ==
    ASSUME LandingsInv, [LandingsNext]_<<landingVars, serviceVars>>
    PROVE  LandingsInv'
<1>1. ASSUME UNCHANGED <<fields, serviceVars>> PROVE LandingsInv'
  BY <1>1, FewerBusy, FrameKeeps DEF LandingsInv, serviceVars, Busy
<1>2. ASSUME NEW f \in FieldIds, UpdateField(f) \/ DeleteField(f) PROVE LandingsInv'
  <2>1. UNCHANGED <<scenario, call>> /\ f \in DOMAIN fields
    BY <1>2 DEF UpdateField, DeleteField, serviceVars
  <2>2. /\ DOMAIN fields' \subseteq DOMAIN fields
        /\ \A g \in DOMAIN fields' :
              /\ fields'[g] \in FieldRecord
              /\ fields'[g].byHand \/ (fields'[g].order = fields[g].order /\ ~fields[g].byHand)
    <3>1. CASE UpdateField(f)
      <4>1. PICK r \in FieldRecord : /\ fields' = [fields EXCEPT ![f] = r]
                                     /\ r.byHand \/ (r.order = fields[f].order /\ ~fields[f].byHand)
        <5>1. fields[f] \in FieldRecord
          BY <2>1 DEF LandingsInv
        <5>2. CASE fields' = [fields EXCEPT ![f].required = ~@]
          <6>1. fields' = [fields EXCEPT ![f] = [fields[f] EXCEPT !.required = ~@]]
            BY <5>2
          <6>2. [fields[f] EXCEPT !.required = ~@] \in FieldRecord
            BY <5>1 DEF FieldRecord
          <6>3. /\ [fields[f] EXCEPT !.required = ~@].order = fields[f].order
                /\ [fields[f] EXCEPT !.required = ~@].byHand = fields[f].byHand
            BY <5>1 DEF FieldRecord
          <6>4. fields[f].byHand \in BOOLEAN
            BY <5>1 DEF FieldRecord
          <6> QED BY <6>1, <6>2, <6>3, <6>4
        <5>3. ASSUME NEW order \in 0 .. MaxOrder,
                     fields' = [fields EXCEPT ![f] = [@ EXCEPT !.order = order, !.byHand = TRUE]]
              PROVE  \E r \in FieldRecord : fields' = [fields EXCEPT ![f] = r] /\ r.byHand
          <6>0. order \in Nat
            BY LandingsAssumption
          <6>1. [fields[f] EXCEPT !.order = order, !.byHand = TRUE] \in FieldRecord
            <7>1. [fields[f] EXCEPT !.order = order] \in FieldRecord
              BY <5>1, <6>0 DEF FieldRecord
            <7> QED BY <7>1 DEF FieldRecord
          <6>2. [fields[f] EXCEPT !.order = order, !.byHand = TRUE].byHand
            BY <5>1 DEF FieldRecord
          <6> QED BY <5>3, <6>1, <6>2
        <5> QED BY <3>1, <5>2, <5>3 DEF UpdateField
      <4> QED BY <2>1, <4>1 DEF LandingsInv
    <3>2. CASE DeleteField(f)
      BY <2>1, <3>2 DEF DeleteField, LandingsInv
    <3> QED BY <1>2, <3>1, <3>2
  <2> QED BY <2>1, <2>2, FewerBusy, FrameKeeps DEF LandingsInv, Busy
<1>3. ASSUME NEW h \in Handlers, NEW filled \in SUBSET DOMAIN fields, SubmitReads(h, filled) PROVE LandingsInv'
  <2> DEFINE r == [op |-> "submitLanding", filled |-> filled]
  <2>1. Takes(h, r) /\ UNCHANGED fields /\ r # Idle /\ r \in FieldCalls
    BY <1>3 DEF SubmitReads, landingVars, Idle, FieldCalls, LandingsInv
  <2>2. BusyOK' /\ Side' = Side
    BY <2>1, TakesBusy DEF LandingsInv
  <2>3. /\ call' \in [Handlers -> FieldCalls]
        /\ \A k \in Handlers : call'[k] = call[k] \/ call'[k].op \notin {"addField", "reorderFields"}
    BY <2>1 DEF Takes, LandingsInv
  <2> QED BY <2>1, <2>2, <2>3, FrameKeeps DEF LandingsInv
<1>4. ASSUME NEW h \in Handlers, SubmitInserts(h) PROVE LandingsInv'
  <2>1. Ends(h, {"submitLanding"}) /\ UNCHANGED fields
    BY <1>4 DEF SubmitInserts
  <2>2. BusyOK' /\ Side' = Side
    BY <2>1, EndsBusy DEF LandingsInv
  <2>3. /\ call' \in [Handlers -> FieldCalls]
        /\ \A k \in Handlers : call'[k] = call[k] \/ call'[k].op \notin {"addField", "reorderFields"}
    BY <2>1 DEF Ends, LandingsInv, FieldCalls, Idle
  <2> QED BY <2>1, <2>2, <2>3, FrameKeeps DEF LandingsInv
<1>5. ASSUME NEW h \in Handlers, NEW byHand \in BOOLEAN, NEW required \in BOOLEAN, NEW order \in 0 .. MaxOrder,
             AddFieldReads(h, byHand, order, required)
      PROVE  LandingsInv'
  BY <1>5, AddReadsKeeps
<1>6. ASSUME NEW public, NEW current, NEW i,
             UpdateLanding(public, current) \/ DeleteLanding \/ DeleteSubmission(i)
      PROVE  UNCHANGED <<fields, serviceVars>>
  BY <1>6 DEF UpdateLanding, DeleteLanding, DeleteSubmission
<1>7. CASE UNCHANGED <<landingVars, serviceVars>>
  BY <1>1, <1>7 DEF landingVars
<1> QED BY <1>1, <1>2, <1>3, <1>4, <1>5, <1>6, <1>7, AddInsertsKeeps, ReorderReadsKeeps, ReorderWritesKeeps DEF LandingsNext

LEMMA LandingsInvariant == LandingsSpec => []LandingsInv
  BY LandingsInitHolds, LandingsStep, PTL DEF LandingsSpec

(* What visitors sent names fields by their ids.                            *)
SentOK ==
    /\ landing \in [public : BOOLEAN, deleted : BOOLEAN, current : BOOLEAN]
    /\ submissions \in Seq(SUBSET FieldIds)

LEMMA SentStep ==
    ASSUME LandingsInv, SentOK, [LandingsNext]_<<landingVars, serviceVars>>
    PROVE  SentOK'
<1> USE DEF SentOK
<1>1. ASSUME NEW public \in BOOLEAN, NEW current \in BOOLEAN, UpdateLanding(public, current) \/ DeleteLanding
      PROVE  SentOK'
  BY <1>1 DEF UpdateLanding, DeleteLanding
<1>2. ASSUME NEW h \in Handlers, SubmitInserts(h) PROVE SentOK'
  <2>1. call[h] \in FieldCalls /\ call[h].op = "submitLanding"
    BY <1>2 DEF SubmitInserts, Ends, LandingsInv
  <2>2. call[h].filled \in SUBSET FieldIds
    BY <2>1 DEF FieldCalls, Idle
  <2> QED BY <1>2, <2>2, AppendProperties DEF SubmitInserts
<1>3. ASSUME NEW i, DeleteSubmission(i) PROVE SentOK'
  <2>1. i \in 1 .. Len(submissions) /\ Len(submissions) \in Nat
    BY <1>3, LenProperties DEF DeleteSubmission
  <2>2. /\ SubSeq(submissions, 1, i - 1) \in Seq(SUBSET FieldIds)
        /\ SubSeq(submissions, i + 1, Len(submissions)) \in Seq(SUBSET FieldIds)
    BY <2>1, SubSeqProperties
  <2> QED BY <1>3, <2>2, ConcatProperties DEF DeleteSubmission
<1>4. ASSUME NEW h \in Handlers,
             \/ AddFieldInserts(h) \/ ReorderWrites(h)
             \/ \E byHand, order, required : AddFieldReads(h, byHand, order, required)
             \/ \E list : ReorderReads(h, list)
             \/ \E filled : SubmitReads(h, filled)
      PROVE  UNCHANGED <<landing, submissions>>
  BY <1>4 DEF AddFieldInserts, ReorderWrites, AddFieldReads, ReorderReads, SubmitReads, landingVars
<1>5. ASSUME NEW f, UpdateField(f) \/ DeleteField(f) PROVE UNCHANGED <<landing, submissions>>
  BY <1>5 DEF UpdateField, DeleteField
<1>6. CASE UNCHANGED <<landingVars, serviceVars>>
  BY <1>6 DEF landingVars
<1> QED BY <1>1, <1>2, <1>3, <1>4, <1>5, <1>6 DEF LandingsNext

LEMMA LandingsTypesFollow == LandingsInv /\ SentOK => LandingsTypeOK
<1> SUFFICES ASSUME LandingsInv, SentOK PROVE LandingsTypeOK
  OBVIOUS
<1>1. \A i \in DOMAIN submissions : submissions[i] \subseteq FieldIds
  BY DEF SentOK
<1> QED BY <1>1 DEF LandingsInv, SentOK, LandingsTypeOK

LEMMA LandingsTypes == LandingsSpec => []LandingsTypeOK
<1>1. LandingsInit => SentOK
  BY EmptySeq DEF LandingsInit, SentOK
<1> QED BY <1>1, LandingsTypesFollow, LandingsInvariant, SentStep, PTL DEF LandingsSpec

LEMMA PlacesFollow == LandingsInv => FieldOrdersClashOnlyInRaces
<1> SUFFICES ASSUME LandingsInv, NEW f \in DOMAIN fields
             PROVE  Cardinality({g \in DOMAIN fields : fields[g].order = fields[f].order /\ ~fields[g].byHand}) <= Side
  BY DEF FieldOrdersClashOnlyInRaces
<1> DEFINE k == fields[f].order
<1>1. k \in Nat /\ {} \in SUBSET Reordering
  BY DEF LandingsInv, FieldRecord
<1>2. Places(k, {}) = {g \in DOMAIN fields : fields[g].order = k /\ ~fields[g].byHand}
  BY DEF Places
<1>3. Cardinality(Places(k, {})) + Cardinality(Adding(k)) + Cardinality({}) <= Side
  <2> HIDE DEF k
  <2> QED BY <1>1 DEF LandingsInv, RoomAtPlace
<1>4. Cardinality(Places(k, {})) \in Nat /\ Cardinality(Adding(k)) \in Nat /\ Cardinality({}) \in Nat
  BY <1>1, FewPlaces, AddOrReorder
<1>5. Cardinality(Places(k, {})) <= Side
  <2> HIDE DEF k
  <2> QED BY <1>3, <1>4, SideIsNat
<1> QED BY <1>2, <1>5

(* However fields are added, deleted, given an order by hand and reordered, *)
(* no more of those the code placed share a place than requests were served *)
(* side by side (admin-landings.service resolveNextFieldOrder,              *)
(* reorderFields).                                                          *)
THEOREM FieldPlaces == LandingsSpec => []FieldOrdersClashOnlyInRaces
  BY LandingsInvariant, PlacesFollow, PTL

-----------------------------------------------------------------------------
(* ExternalJobs *)

(* A page covers its positions; one that is not full is the last.           *)
LEMMA RawPageIs ==
    ASSUME NEW s \in Sources, NEW n \in Nat \ {0}, board[s] \in Seq(Postings)
    PROVE  /\ \A j \in DOMAIN board[s] :
                (n - 1) * PerPage < j /\ j <= n * PerPage => board[s][j] \in Range(RawPage(s, n))
           /\ HasMore(s, n) \/ Len(board[s]) <= n * PerPage
<1> DEFINE q == board[s]
           lo == (n - 1) * PerPage
           hi == n * PerPage
           last == IF hi < Len(q) THEN hi ELSE Len(q)
<1>1. /\ q \in Seq(Postings) /\ Len(q) \in Nat /\ DOMAIN q = 1 .. Len(q) /\ \A j \in DOMAIN q : q[j] \in Postings
      /\ PerPage \in Nat \ {0}
  BY ExternalJobsAssumption
<1>2. lo \in Nat /\ hi \in Nat /\ hi = lo + PerPage
  BY <1>1
<1>3. RawPage(s, n) = SubSeq(q, lo + 1, last)
  BY DEF RawPage
<1>4. last \in Nat /\ lo + 1 \in Int /\ \A j \in lo + 1 .. last : q[j] \in Postings
  <2> HIDE DEF q, lo, hi
  <2> QED BY <1>1, <1>2
<1> HIDE DEF q, lo, hi, last
<1>5. /\ SubSeq(q, lo + 1, last) \in Seq(Postings)
      /\ Len(SubSeq(q, lo + 1, last)) = IF lo + 1 <= last THEN last - (lo + 1) + 1 ELSE 0
      /\ \A i \in 1 .. last - (lo + 1) + 1 : SubSeq(q, lo + 1, last)[i] = q[lo + 1 + i - 1]
  BY <1>4, SubSeqProperties
<1>6. ASSUME NEW j \in DOMAIN q, lo < j, j <= hi PROVE q[j] \in Range(SubSeq(q, lo + 1, last))
  <2>1. j \in Nat /\ j - lo \in 1 .. last - lo /\ lo + 1 <= last
    BY <1>1, <1>2, <1>6 DEF last
  <2>2. j - lo \in DOMAIN SubSeq(q, lo + 1, last)
    BY <1>2, <1>4, <1>5, <2>1
  <2>3. SubSeq(q, lo + 1, last)[j - lo] = q[j]
    BY <1>2, <1>4, <1>5, <2>1
  <2> QED BY <2>2, <2>3 DEF Range
<1>7. Len(SubSeq(q, lo + 1, last)) = PerPage \/ Len(q) <= hi
  <2>1. CASE Len(q) <= hi
    BY <2>1
  <2>2. CASE ~ (Len(q) <= hi)
    <3>1. last = hi /\ lo + 1 <= hi /\ hi - (lo + 1) + 1 = PerPage
      BY <1>1, <1>2, <2>2 DEF last
    <3> QED BY <1>5, <3>1
  <2> QED BY <2>1, <2>2
<1> QED BY <1>3, <1>6, <1>7 DEF HasMore, q, lo, hi

SyncCalls ==
    {Idle} \cup [op : {"sync"}, at : {"fetching", "saving"}, todo : SUBSET Sources, source : Sources,
                 page : Nat \ {0}, got : SUBSET Postings, whole : BOOLEAN, found : RowIds \cup {0}]
           \cup [op : {"sync"}, at : {"writing"}, todo : SUBSET Sources, source : Sources,
                 page : Nat \ {0}, got : SUBSET Postings, whole : BOOLEAN, found : RowIds \cup {0},
                 key : Postings]

(* While the list of its source stands still, a run has in hand what the    *)
(* pages it has read list, and later has each of them in hand or a row for  *)
(* it; the row it found is there.                                           *)
Covers(c) ==
    /\ c.at = "fetching" /\ c.whole =>
          \A j \in DOMAIN board[c.source] : j <= (c.page - 1) * PerPage => board[c.source][j] \in c.got \cup Blank
    /\ c.at = "saving" /\ c.whole =>
          \A p \in Range(board[c.source]) \ Blank : p \in c.got \/ Known(c.source, p)
    /\ c.at = "writing" =>
          /\ c.found # 0 => Known(c.source, c.key)
          /\ c.whole => \A p \in Range(board[c.source]) \ Blank : p \in c.got \cup {c.key} \/ Known(c.source, p)

RowsAreRows ==
    /\ DOMAIN postings \subseteq RowIds
    /\ \A i \in DOMAIN postings : postings[i] \in [source : Sources, key : Postings]
    /\ \A i, j \in DOMAIN postings : postings[i] = postings[j] => i = j

SyncInv ==
    /\ board \in [Sources -> Seq(Postings)] /\ call \in [Handlers -> SyncCalls] /\ RowsAreRows
    /\ \A h \in Handlers : call[h] # Idle => Covers(call[h])

LEMMA SyncInitHolds == ExternalJobsInit /\ ServiceInit => SyncInv
<1> SUFFICES ASSUME ExternalJobsInit, ServiceInit PROVE SyncInv
  OBVIOUS
<1>1. Lists \subseteq Seq(Postings) /\ <<>> \in Seq(Postings)
  BY DEF Lists
<1>2. board \in [Sources -> Seq(Postings)]
  BY <1>1 DEF ExternalJobsInit
<1> QED BY <1>2 DEF ExternalJobsInit, ServiceInit, SyncInv, SyncCalls, RowsAreRows

LEMMA SyncCallIs ==
    ASSUME SyncInv, NEW h \in Handlers, call[h].op = "sync"
    PROVE  /\ call[h] # Idle /\ Covers(call[h])
           /\ call[h].todo \in SUBSET Sources /\ call[h].source \in Sources /\ call[h].page \in Nat \ {0}
           /\ call[h].got \in SUBSET Postings /\ call[h].whole \in BOOLEAN /\ call[h].found \in RowIds \cup {0}
           /\ call[h].at # "writing" =>
                call[h] \in [op : {"sync"}, at : {"fetching", "saving"}, todo : SUBSET Sources, source : Sources,
                             page : Nat \ {0}, got : SUBSET Postings, whole : BOOLEAN, found : RowIds \cup {0}]
           /\ call[h].at = "writing" =>
                call[h] \in [op : {"sync"}, at : {"writing"}, todo : SUBSET Sources, source : Sources,
                             page : Nat \ {0}, got : SUBSET Postings, whole : BOOLEAN, found : RowIds \cup {0},
                             key : Postings]
<1>1. call[h] # Idle
  BY DEF Idle
<1>2. call[h] \in SyncCalls
  BY DEF SyncInv
<1> QED BY <1>1, <1>2 DEF SyncInv, SyncCalls

(* A step of one run leaves the others what they have: lists stand still    *)
(* and rows stay.                                                           *)
LEMMA OneRunKeeps ==
    ASSUME SyncInv, UNCHANGED board, RowsAreRows', NEW h \in Handlers, NEW c \in SyncCalls,
           call' = [call EXCEPT ![h] = c],
           \A i \in DOMAIN postings : i \in DOMAIN postings' /\ postings'[i] = postings[i],
           c # Idle => Covers(c)'
    PROVE  SyncInv'
<1>1. /\ call' \in [Handlers -> SyncCalls] /\ call'[h] = c
      /\ \A k \in Handlers \ {h} : call'[k] = call[k]
  BY DEF SyncInv
<1>2. \A s, p : Known(s, p) => Known(s, p)'
  BY DEF Known
<1>3. ASSUME NEW k \in Handlers \ {h}, call[k] # Idle PROVE Covers(call[k])'
  <2>1. Covers(call[k]) /\ call'[k] = call[k]
    BY <1>1, <1>3 DEF SyncInv
  <2> QED BY <1>2, <2>1 DEF Covers
<1>4. ASSUME NEW k \in Handlers, call'[k] # Idle PROVE Covers(call[k])'
  <2>1. CASE k = h
    <3>1. Covers(c)'
      BY <1>1, <1>4, <2>1
    <3> QED BY <1>1, <2>1, <3>1 DEF Covers
  <2>2. CASE k # h
    BY <1>1, <1>3, <1>4, <2>2
  <2> QED BY <2>1, <2>2
<1> QED BY <1>1, <1>4 DEF SyncInv

(* A source that begins has nothing read that could be missing.             *)
LEMMA SyncBegins ==
    ASSUME NEW todo \in SUBSET Sources, NEW s \in Sources, SyncInv
    PROVE  SyncOf(todo, s) \in SyncCalls /\ SyncOf(todo, s) # Idle /\ (UNCHANGED board => Covers(SyncOf(todo, s))')
<1>1. SyncOf(todo, s) \in SyncCalls /\ SyncOf(todo, s) # Idle
  BY DEF SyncOf, SyncCalls, Idle
<1>2. (1 - 1) * PerPage = 0
  BY ExternalJobsAssumption
<1>3. \A j \in DOMAIN board[s] : ~(j <= 0)
  <2>1. board[s] \in Seq(Postings)
    BY DEF SyncInv
  <2> QED BY <2>1
<1> QED BY <1>1, <1>2, <1>3 DEF SyncOf, Covers

LEMMA NextSourceKeeps ==
    ASSUME SyncInv, NEW h \in Handlers, call[h].op = "sync", NextSource(h), UNCHANGED externalVars
    PROVE  SyncInv'
<1>1. UNCHANGED <<board, postings>> /\ RowsAreRows'
  BY DEF externalVars, SyncInv, RowsAreRows
<1>2. CASE call[h].todo = {}
  <2>1. call' = [call EXCEPT ![h] = Idle] /\ Idle \in SyncCalls
    BY <1>2 DEF NextSource, Ends, SyncCalls
  <2> QED BY <1>1, <2>1, OneRunKeeps
<1>3. CASE call[h].todo # {}
  <2>1. PICK s \in call[h].todo : call' = [call EXCEPT ![h] = SyncOf(call[h].todo \ {s}, s)]
    BY <1>3 DEF NextSource, GoesOn
  <2>2. s \in Sources /\ call[h].todo \ {s} \in SUBSET Sources
    BY SyncCallIs
  <2> QED BY <1>1, <2>1, <2>2, SyncBegins, OneRunKeeps
<1> QED BY <1>2, <1>3

LEMMA SyncStartsKeeps ==
    ASSUME SyncInv, NEW h \in Handlers, SyncStarts(h)
    PROVE  SyncInv'
<1>1. UNCHANGED <<board, postings>> /\ RowsAreRows'
  BY DEF SyncStarts, externalVars, SyncInv, RowsAreRows
<1>2. PICK s \in Sources : call' = [call EXCEPT ![h] = SyncOf(Sources \ {s}, s)]
  BY DEF SyncStarts, Takes
<1> QED BY <1>1, <1>2, SyncBegins, OneRunKeeps

LEMMA FetchPageKeeps ==
    ASSUME SyncInv, NEW h \in Handlers, FetchPage(h)
    PROVE  SyncInv'
<1> DEFINE s == call[h].source
           n == call[h].page
           at == IF HasMore(s, n) THEN "fetching" ELSE "saving"
           c == [call[h] EXCEPT !.got = @ \cup KeptOf(s, n), !.page = n + 1, !.at = at]
<1>1. UNCHANGED <<board, postings>> /\ RowsAreRows' /\ call' = [call EXCEPT ![h] = c]
      /\ call[h].op = "sync" /\ call[h].at = "fetching"
  BY DEF FetchPage, GoesOn, externalVars, SyncInv, RowsAreRows
<1>2. /\ s \in Sources /\ n \in Nat \ {0} /\ call[h].got \in SUBSET Postings /\ board[s] \in Seq(Postings)
      /\ call[h] \in [op : {"sync"}, at : {"fetching", "saving"}, todo : SUBSET Sources, source : Sources,
                      page : Nat \ {0}, got : SUBSET Postings, whole : BOOLEAN, found : RowIds \cup {0}]
  BY <1>1, SyncCallIs DEF SyncInv
<1>3. Range(RawPage(s, n)) \subseteq Postings
  <2>1. RawPage(s, n) \in Seq(Postings)
    <3>1. board[s] \in Seq(Postings) /\ PerPage \in Nat /\ n \in Nat
      BY <1>2, ExternalJobsAssumption
    <3> DEFINE q == board[s]
               lo == (n - 1) * PerPage + 1
               last == IF n * PerPage < Len(q) THEN n * PerPage ELSE Len(q)
    <3>2. lo \in Nat \ {0} /\ last \in Nat /\ last <= Len(q) /\ \A j \in 1 .. Len(q) : q[j] \in Postings
      BY <3>1, <1>2
    <3>3. lo \in Int /\ last \in Int /\ \A j \in lo .. last : q[j] \in Postings
      <4> HIDE DEF lo, last, q
      <4> QED BY <3>1, <3>2
    <3>4. SubSeq(q, lo, last) \in Seq(Postings)
      <4> HIDE DEF lo, last, q
      <4> QED BY <3>3, SubSeqProperties
    <3> QED BY <3>4 DEF RawPage
  <2> QED BY <2>1 DEF Range
<1>4. c \in SyncCalls /\ c # Idle
  <2>1. KeptOf(s, n) \in SUBSET Postings /\ n + 1 \in Nat \ {0} /\ at \in {"fetching", "saving"}
    BY <1>2, <1>3 DEF KeptOf
  <2> HIDE DEF at
  <2>2. c \in [op : {"sync"}, at : {"fetching", "saving"}, todo : SUBSET Sources, source : Sources,
               page : Nat \ {0}, got : SUBSET Postings, whole : BOOLEAN, found : RowIds \cup {0}]
    BY <1>2, <2>1
  <2> QED BY <2>2 DEF SyncCalls, Idle
<1>5. /\ c.source = s /\ c.page = n + 1 /\ c.got = call[h].got \cup KeptOf(s, n)
      /\ c.whole = call[h].whole /\ c.at = at
  BY <1>2
<1>6. ASSUME call[h].whole, NEW j \in DOMAIN board[s], j <= n * PerPage PROVE board[s][j] \in c.got \cup Blank
  <2>1. j <= (n - 1) * PerPage => board[s][j] \in call[h].got \cup Blank
    BY <1>1, <1>2, <1>6, SyncCallIs DEF Covers
  <2>2. (n - 1) * PerPage < j => board[s][j] \in Range(RawPage(s, n))
    BY <1>2, <1>6, RawPageIs
  <2>3. j <= (n - 1) * PerPage \/ (n - 1) * PerPage < j
    <3>1. j \in Nat /\ (n - 1) * PerPage \in Nat
      BY <1>2, ExternalJobsAssumption
    <3> QED BY <3>1
  <2> QED BY <1>5, <2>1, <2>2, <2>3 DEF KeptOf
<1>7. ASSUME call[h].whole, ~HasMore(s, n), NEW p \in Range(board[s]) \ Blank PROVE p \in c.got
  <2>1. PICK j \in DOMAIN board[s] : p = board[s][j]
    BY DEF Range
  <2>2. j <= n * PerPage
    <3>1. Len(board[s]) <= n * PerPage
      BY <1>2, <1>7, RawPageIs
    <3>2. j \in Nat /\ j <= Len(board[s]) /\ Len(board[s]) \in Nat /\ n * PerPage \in Nat
      BY <1>2, ExternalJobsAssumption
    <3> QED BY <3>1, <3>2
  <2> QED BY <1>6, <1>7, <2>1, <2>2
<1>8. Covers(c)
  <2>1. c.at = "fetching" /\ c.whole =>
          \A j \in DOMAIN board[c.source] : j <= (c.page - 1) * PerPage => board[c.source][j] \in c.got \cup Blank
    <3>1. c.page - 1 = n
      BY <1>2, <1>5
    <3> HIDE DEF c
    <3> QED BY <1>5, <1>6, <3>1
  <2>2. c.at = "saving" => ~HasMore(s, n)
    BY <1>5
  <2>3. c.at # "writing"
    BY <1>5
  <2> HIDE DEF c
  <2> QED BY <1>5, <1>7, <2>1, <2>2, <2>3 DEF Covers
<1>9. \E d \in SyncCalls : d = c /\ d # Idle /\ Covers(d)
  BY <1>4, <1>8
<1>10. PICK d \in SyncCalls : d = c /\ Covers(d)
  BY <1>9
<1>11. Covers(d)'
  BY <1>1, <1>10 DEF Covers, Known
<1> HIDE DEF c
<1> QED BY <1>1, <1>10, <1>11, OneRunKeeps

LEMMA FindExistingKeeps ==
    ASSUME SyncInv, NEW h \in Handlers, NEW p \in Postings, FindExisting(h, p)
    PROVE  SyncInv'
<1> DEFINE s == call[h].source
<1>1. /\ UNCHANGED <<board, postings>> /\ RowsAreRows'
      /\ call[h].op = "sync" /\ call[h].at = "saving" /\ p \in call[h].got
  BY DEF FindExisting, externalVars, SyncInv, RowsAreRows
<1>2. PICK i \in RowIds \cup {0} :
        /\ IF i = 0 THEN TRUE ELSE i \in DOMAIN postings /\ postings[i] = [source |-> s, key |-> p]
        /\ call' = [call EXCEPT ![h] = Writing(call[h], i, p)]
  BY DEF FindExisting, GoesOn
<1>3. PICK c : c = Writing(call[h], i, p)
  OBVIOUS
<1>4. c \in SyncCalls /\ c # Idle
  BY <1>1, <1>3, SyncCallIs DEF Writing, SyncCalls, Idle
<1>5. /\ c.at = "writing" /\ c.found = i /\ c.source = s /\ c.key = p
      /\ c.whole = call[h].whole /\ c.got = call[h].got \ {p}
  BY <1>3 DEF Writing
<1>6. c.found # 0 => Known(c.source, c.key)
  BY <1>2, <1>5 DEF Known
<1>7. c.whole => \A r \in Range(board[s]) \ Blank : r \in c.got \cup {c.key} \/ Known(s, r)
  BY <1>1, <1>5, SyncCallIs DEF Covers
<1>8. Covers(c)
  BY <1>5, <1>6, <1>7 DEF Covers
<1>9. Covers(c)'
  BY <1>1, <1>8 DEF Covers, Known
<1> QED BY <1>1, <1>2, <1>3, <1>4, <1>9, OneRunKeeps

LEMMA UpsertKeeps ==
    ASSUME SyncInv, NEW h \in Handlers, UpsertWrites(h)
    PROVE  SyncInv'
<1>1. /\ UNCHANGED board /\ call' = [call EXCEPT ![h] = Written(call[h])]
      /\ call[h].op = "sync" /\ call[h].at = "writing"
  BY DEF UpsertWrites, GoesOn
<1>2. PICK s \in Sources, p \in Postings : s = call[h].source /\ p = call[h].key
  BY <1>1, SyncCallIs
<1>3. /\ RowsAreRows' /\ Known(s, p)'
      /\ \A i \in DOMAIN postings : i \in DOMAIN postings' /\ postings'[i] = postings[i]
  <2>1. CASE Known(s, p)
    <3>1. UNCHANGED postings
      BY <1>2, <2>1 DEF UpsertWrites
    <3> QED BY <2>1, <3>1 DEF Known, RowsAreRows, SyncInv
  <2>2. CASE ~Known(s, p)
    <3>1. call[h].found = 0
      BY <1>1, <1>2, <2>2, SyncCallIs DEF Covers
    <3>2. PICK i \in RowIds \ DOMAIN postings :
             postings' = [j \in DOMAIN postings \cup {i} |->
                            IF j = i THEN [source |-> s, key |-> p] ELSE postings[j]]
      BY <1>2, <2>2, <3>1 DEF UpsertWrites, Fresh
    <3>3. /\ DOMAIN postings' = DOMAIN postings \cup {i} /\ postings'[i] = [source |-> s, key |-> p]
          /\ \A j \in DOMAIN postings : postings'[j] = postings[j]
      BY <3>2
    <3>4. \A j \in DOMAIN postings : postings[j] # [source |-> s, key |-> p]
      BY <2>2 DEF Known
    <3>5. Known(s, p)' /\ \A j \in DOMAIN postings : j \in DOMAIN postings' /\ postings'[j] = postings[j]
      BY <3>3 DEF Known
    <3>6. RowsAreRows'
      BY <3>2, <3>3, <3>4 DEF RowsAreRows, SyncInv
    <3> QED BY <3>5, <3>6
  <2> QED BY <2>1, <2>2
<1>4. PICK c : c = Written(call[h])
  OBVIOUS
<1>5. c \in SyncCalls
  BY <1>1, <1>4, SyncCallIs DEF Written, SyncCalls
<1>6. c.at = "saving" /\ c.source = s /\ c.whole = call[h].whole /\ c.got = call[h].got
  BY <1>2, <1>4 DEF Written
<1>7. \A x, q : Known(x, q) => Known(x, q)'
  BY <1>3 DEF Known
<1>8. ASSUME c.whole, NEW q \in Range(board[s]) \ Blank PROVE q \in c.got \/ Known(s, q)'
  <2>1. q \in call[h].got \cup {p} \/ Known(s, q)
    BY <1>1, <1>2, <1>6, <1>8, SyncCallIs DEF Covers
  <2> QED BY <1>3, <1>6, <1>7, <2>1
<1>9. Covers(c)'
  <2>1. \A q \in Range(board'[c.source]) \ Blank : c.whole => q \in c.got \/ Known(s, q)'
    BY <1>1, <1>6, <1>8
  <2> QED BY <1>6, <2>1 DEF Covers, Known
<1> QED BY <1>1, <1>3, <1>4, <1>5, <1>9, OneRunKeeps

(* A run that gives up a posting is no longer held to the list.             *)
LEMMA UpsertFailsKeeps ==
    ASSUME SyncInv, NEW h \in Handlers, UpsertFails(h)
    PROVE  SyncInv'
<1>1. UNCHANGED <<board, postings>> /\ RowsAreRows' /\ call[h].op = "sync"
  BY DEF UpsertFails, externalVars, SyncInv, RowsAreRows
<1>2. PICK c : /\ call' = [call EXCEPT ![h] = c]
               /\ \/ call[h].at = "saving"
                     /\ \E p \in call[h].got : c = [Written(Writing(call[h], 0, p)) EXCEPT !.whole = FALSE]
                  \/ call[h].at = "writing" /\ c = [Written(call[h]) EXCEPT !.whole = FALSE]
  BY DEF UpsertFails, GoesOn
<1>3. c \in SyncCalls /\ c # Idle /\ c.at = "saving" /\ c.whole = FALSE
  <2>1. CASE call[h].at = "saving" /\ \E p \in call[h].got : c = [Written(Writing(call[h], 0, p)) EXCEPT !.whole = FALSE]
    <3>1. PICK p \in call[h].got : c = [Written(Writing(call[h], 0, p)) EXCEPT !.whole = FALSE]
      BY <2>1
    <3>2. PICK w : w = Writing(call[h], 0, p)
      OBVIOUS
    <3>3. /\ w.todo \in SUBSET Sources /\ w.source \in Sources /\ w.page \in Nat \ {0}
          /\ w.got \in SUBSET Postings /\ w.found \in RowIds \cup {0}
      BY <1>1, <3>2, SyncCallIs DEF Writing
    <3>4. c = [Written(w) EXCEPT !.whole = FALSE]
      BY <3>1, <3>2
    <3> QED BY <3>3, <3>4 DEF Written, SyncCalls, Idle
  <2>2. CASE call[h].at = "writing" /\ c = [Written(call[h]) EXCEPT !.whole = FALSE]
    BY <1>1, <2>2, SyncCallIs DEF Written, SyncCalls, Idle
  <2> QED BY <1>2, <2>1, <2>2
<1>4. Covers(c)'
  BY <1>3 DEF Covers
<1> QED BY <1>1, <1>2, <1>3, <1>4, OneRunKeeps

(* Where a list changes, its runs are no longer held to it.                 *)
LEMMA BoardChangesKeeps ==
    ASSUME SyncInv, NEW s \in Sources, BoardChanges(s)
    PROVE  SyncInv'
<1>1. UNCHANGED postings /\ RowsAreRows'
  BY DEF BoardChanges, SyncInv, RowsAreRows
<1>2. board' \in [Sources -> Seq(Postings)] /\ \A x \in Sources \ {s} : board'[x] = board[x]
  <2>1. PICK q : board' = [board EXCEPT ![s] = q] /\ q \in Seq(Postings)
    <3>1. board[s] \in Seq(Postings)
      BY DEF SyncInv
    <3>2. CASE \E p \in Postings : board' = [board EXCEPT ![s] = <<p>> \o @]
      <4>1. PICK p \in Postings : board' = [board EXCEPT ![s] = <<p>> \o @]
        BY <3>2
      <4>2. <<p>> \o board[s] \in Seq(Postings)
        BY <3>1
      <4> QED BY <4>1, <4>2
    <3>3. CASE \E i \in DOMAIN board[s] : board' = [board EXCEPT ![s] = RemoveAt(@, i)]
      <4>1. PICK i \in DOMAIN board[s] : board' = [board EXCEPT ![s] = RemoveAt(@, i)]
        BY <3>3
      <4>2. SubSeq(board[s], 1, i - 1) \in Seq(Postings) /\ SubSeq(board[s], i + 1, Len(board[s])) \in Seq(Postings)
        BY <3>1, <4>1, SubSeqProperties
      <4>3. RemoveAt(board[s], i) \in Seq(Postings)
        BY <4>2, ConcatProperties DEF RemoveAt
      <4> QED BY <4>1, <4>3
    <3> QED BY <3>2, <3>3 DEF BoardChanges
  <2> QED BY <2>1 DEF SyncInv
<1>3. \A h \in Handlers :
         call'[h] = IF call[h].op = "sync" THEN [call[h] EXCEPT !.whole = @ /\ call[h].source # s] ELSE call[h]
  BY DEF BoardChanges
<1>4. ASSUME NEW h \in Handlers
      PROVE  call'[h] \in SyncCalls /\ (call'[h] # Idle => Covers(call[h])')
  <2>1. CASE call[h].op # "sync"
    <3>1. call[h] = Idle /\ call'[h] = Idle
      BY <1>3, <2>1 DEF SyncInv, SyncCalls
    <3> QED BY <3>1 DEF SyncCalls
  <2>2. CASE call[h].op = "sync"
    <3>1. call'[h] = [call[h] EXCEPT !.whole = @ /\ call[h].source # s]
      BY <1>3, <2>2
    <3>2. /\ call'[h].at = call[h].at /\ call'[h].source = call[h].source /\ call'[h].page = call[h].page
          /\ call'[h].got = call[h].got /\ call'[h].found = call[h].found
          /\ call[h].at = "writing" => call'[h].key = call[h].key
          /\ call'[h].whole => call[h].whole /\ call[h].source # s
          /\ call'[h] \in SyncCalls
      <4>1. CASE call[h].at = "writing"
        BY <2>2, <3>1, <4>1, SyncCallIs DEF SyncCalls
      <4>2. CASE call[h].at # "writing"
        BY <2>2, <3>1, <4>2, SyncCallIs DEF SyncCalls
      <4> QED BY <4>1, <4>2
    <3>3. Covers(call[h]) /\ call[h].source \in Sources
      BY <2>2, SyncCallIs
    <3>4. call'[h].whole => board'[call[h].source] = board[call[h].source]
      BY <1>2, <3>2, <3>3
    <3>5. \A x, q : Known(x, q)' <=> Known(x, q)
      BY <1>1 DEF Known
    <3> QED BY <3>2, <3>3, <3>4, <3>5 DEF Covers
  <2> QED BY <2>1, <2>2
<1>5. call' \in [Handlers -> SyncCalls]
  <2>1. call' = [h \in Handlers |-> call'[h]]
    BY DEF BoardChanges
  <2> QED BY <1>4, <2>1
<1> QED BY <1>1, <1>2, <1>4, <1>5 DEF SyncInv

LEMMA SyncStep ==
    ASSUME SyncInv, [ExternalJobsNext]_<<externalVars, serviceVars>>
    PROVE  SyncInv'
<1>1. ASSUME NEW h \in Handlers, FetchFails(h) \/ SourceDone(h) PROVE SyncInv'
  <2>1. NextSource(h) /\ call[h].op = "sync" /\ UNCHANGED externalVars
    BY <1>1 DEF FetchFails, SourceDone
  <2> QED BY <2>1, NextSourceKeeps
<1>2. CASE UNCHANGED <<externalVars, serviceVars>>
  BY <1>2 DEF externalVars, serviceVars, SyncInv, RowsAreRows, Covers, Known
<1> QED BY <1>1, <1>2, SyncStartsKeeps, FetchPageKeeps, FindExistingKeeps, UpsertKeeps, UpsertFailsKeeps, BoardChangesKeeps
        DEF ExternalJobsNext

LEMMA SyncInvariant == ExternalJobsSpec => []SyncInv
  BY SyncInitHolds, SyncStep, PTL DEF ExternalJobsSpec

(* A source lists no more than it may.                                      *)
ListsOK == \A s \in Sources : Len(board[s]) <= BoardSize

LEMMA ListsStep ==
    ASSUME SyncInv, SyncInv', ListsOK, [ExternalJobsNext]_<<externalVars, serviceVars>>
    PROVE  ListsOK'
<1>1. ASSUME NEW s \in Sources, BoardChanges(s) PROVE ListsOK'
  <2>1. board[s] \in Seq(Postings) /\ Len(board[s]) \in Nat /\ BoardSize \in Nat /\ Len(board[s]) <= BoardSize
    BY ExternalJobsAssumption, LenProperties DEF SyncInv, ListsOK
  <2>2. PICK q : board' = [board EXCEPT ![s] = q] /\ Len(q) <= BoardSize
    <3>1. CASE \E p \in Postings : Len(board[s]) < BoardSize /\ board' = [board EXCEPT ![s] = <<p>> \o @]
      <4>1. PICK p \in Postings : Len(board[s]) < BoardSize /\ board' = [board EXCEPT ![s] = <<p>> \o @]
        BY <3>1
      <4>2. PICK q : q = <<p>> \o board[s]
        OBVIOUS
      <4>3. Len(q) = Len(board[s]) + 1
        BY <2>1, <4>2, ConcatProperties
      <4>4. board' = [board EXCEPT ![s] = q] /\ Len(q) <= BoardSize
        BY <2>1, <4>1, <4>2, <4>3
      <4> QED BY <4>4
    <3>2. CASE \E i \in DOMAIN board[s] : board' = [board EXCEPT ![s] = RemoveAt(@, i)]
      <4>1. PICK i \in DOMAIN board[s] : board' = [board EXCEPT ![s] = RemoveAt(@, i)]
        BY <3>2
      <4>2. i \in 1 .. Len(board[s])
        BY <2>1, LenProperties
      <4>3. /\ SubSeq(board[s], 1, i - 1) \in Seq(Postings) /\ Len(SubSeq(board[s], 1, i - 1)) = i - 1
            /\ SubSeq(board[s], i + 1, Len(board[s])) \in Seq(Postings)
            /\ Len(SubSeq(board[s], i + 1, Len(board[s]))) = Len(board[s]) - i
        BY <2>1, <4>2, SubSeqProperties
      <4>4. PICK q : q = RemoveAt(board[s], i)
        OBVIOUS
      <4>5. Len(q) = Len(board[s]) - 1
        BY <2>1, <4>2, <4>3, <4>4, ConcatProperties DEF RemoveAt
      <4>6. board' = [board EXCEPT ![s] = q] /\ Len(q) <= BoardSize
        BY <2>1, <4>1, <4>4, <4>5
      <4> QED BY <4>6
    <3> QED BY <1>1, <3>1, <3>2 DEF BoardChanges
  <2>3. DOMAIN board = Sources
    BY DEF SyncInv
  <2> QED BY <2>2, <2>3 DEF ListsOK
<1>2. ASSUME NEW h \in Handlers,
             \/ SyncStarts(h) \/ FetchPage(h) \/ FetchFails(h) \/ UpsertWrites(h) \/ UpsertFails(h) \/ SourceDone(h)
             \/ \E p : FindExisting(h, p)
      PROVE  UNCHANGED board
  BY <1>2 DEF SyncStarts, FetchPage, FetchFails, UpsertWrites, UpsertFails, SourceDone, FindExisting, externalVars
<1>3. CASE UNCHANGED <<externalVars, serviceVars>>
  BY <1>3 DEF externalVars, ListsOK
<1> QED BY <1>1, <1>2, <1>3 DEF ExternalJobsNext, ListsOK

LEMMA ListsInit == ExternalJobsInit => ListsOK
<1> SUFFICES ASSUME ExternalJobsInit, NEW s \in Sources PROVE Len(board[s]) <= BoardSize
  BY DEF ListsOK
<1>1. CASE board[s] = <<>>
  BY <1>1, ExternalJobsAssumption
<1>2. CASE board[s] \in Lists
  <2>1. PICK n \in 0 .. BoardSize : board[s] \in [1 .. n -> Postings]
    BY <1>2 DEF Lists
  <2>2. Len(board[s]) = n
    BY <2>1, ExternalJobsAssumption
  <2> QED BY <2>1, <2>2, ExternalJobsAssumption
<1> QED BY <1>1, <1>2 DEF ExternalJobsInit

LEMMA ExternalJobsTypesFollow == SyncInv /\ ListsOK => ExternalJobsTypeOK
<1> SUFFICES ASSUME SyncInv, ListsOK PROVE ExternalJobsTypeOK
  OBVIOUS
<1>1. \A s \in Sources : Range(board[s]) \subseteq Postings
  BY DEF SyncInv, Range
<1> QED BY <1>1 DEF SyncInv, RowsAreRows, ListsOK, ExternalJobsTypeOK

LEMMA ExternalJobsTypes == ExternalJobsSpec => []ExternalJobsTypeOK
  BY ExternalJobsTypesFollow, SyncInvariant, SyncStep, SyncInitHolds, ListsInit, ListsStep, PTL DEF ExternalJobsSpec

LEMMA SyncFollows == SyncInv => SyncIsWhole
  BY SyncCallIs DEF SyncInv, RowsAreRows, SyncIsWhole, Covers

(* A run that is through with a source whose list stood still, and that met *)
(* no error on a posting, leaves a row for every posting listed with all    *)
(* its data, and two runs at a time leave one row per posting: for any page *)
(* size, sources and lists, though pages are counted with what is skipped   *)
(* and a posting is looked up before it is written                          *)
(* (get-on-board.strategy fetchJobs, external-job-postings-bulk-writer).    *)
THEOREM WholeSync == ExternalJobsSpec => []SyncIsWhole
  BY SyncInvariant, SyncFollows, PTL
=============================================================================
