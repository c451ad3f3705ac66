---------------------------- MODULE ExternalJobs ----------------------------
(* Job postings taken over from other sites (external-job-postings): a run  *)
(* pages through each source and then writes its postings one by one, while *)
(* the source changes and another run may be under way.                     *)
EXTENDS Service, Sequences, SequencesExt

CONSTANTS
    Sources, Postings,  \* a posting stands for its key: externalId, or the link without one
    Blank,              \* postings without a title, a link or a date: skipped
    PerPage, BoardSize, \* GOB_PER_PAGE; bound on the postings a source has at a time
    RowIds

ASSUME ExternalJobsAssumption ==
    Blank \subseteq Postings /\ PerPage \in Nat \ {0} /\ BoardSize \in Nat /\ RowIds \subseteq Nat \ {0}

VARIABLES
    board,              \* external: what each source lists, newest first
    postings            \* ExternalJobPosting: source and key of each row

externalVars == <<board, postings>>

ExternalJobsTypeOK ==
    /\ \A s \in Sources : Len(board[s]) <= BoardSize /\ Range(board[s]) \subseteq Postings
    /\ DOMAIN postings \subseteq RowIds
    /\ \A i \in DOMAIN postings : postings[i] \in [source : Sources, key : Postings]

Lists == {q \in UNION {[1 .. n -> Postings] : n \in 0 .. BoardSize} : Cardinality(Range(q)) = Len(q)}

ExternalJobsInit ==
    /\ board \in [Sources -> IF Offered("sync") THEN Lists ELSE {<<>>}]
    /\ postings = [i \in {} |-> 0]

(* A source puts a new posting first, or takes one down; runs that page     *)
(* through it are no longer looking at one list.                            *)
BoardChanges(s) ==
    /\ Offered("board")
    /\ \/ \E p \in Postings \ Range(board[s]) :
            Len(board[s]) < BoardSize /\ board' = [board EXCEPT ![s] = <<p>> \o @]
       \/ \E i \in DOMAIN board[s] : board' = [board EXCEPT ![s] = RemoveAt(@, i)]
    /\ call' = [h \in Handlers |->
                  IF call[h].op = "sync" THEN [call[h] EXCEPT !.whole = @ /\ call[h].source # s] ELSE call[h]]
    /\ UNCHANGED <<postings, scenario>>

-----------------------------------------------------------------------------
(* GetOnBoardStrategy.fetchJobs: a page of the source *)
RawPage(s, n) ==
    SubSeq(board[s], (n - 1) * PerPage + 1,
           IF n * PerPage < Len(board[s]) THEN n * PerPage ELSE Len(board[s]))

KeptOf(s, n)  == Range(RawPage(s, n)) \ Blank

(* More pages only while the page was full of postings that are kept *)
HasMoreKept(s, n) == Cardinality(KeptOf(s, n)) = PerPage

(* ... of postings of any kind *)
HasMore(s, n) == Len(RawPage(s, n)) = PerPage

(* handleSync, source by source; "whole" says that the list stood still and *)
(* that no posting was given up                                             *)
SyncOf(todo, s) ==
    [op |-> "sync", at |-> "fetching", todo |-> todo, source |-> s, page |-> 1, got |-> {},
     whole |-> TRUE, found |-> 0]

SyncStarts(h) ==
    /\ \E s \in Sources : Takes(h, SyncOf(Sources \ {s}, s))
    /\ UNCHANGED externalVars

NextSource(h) ==
    IF call[h].todo = {} THEN Ends(h, {"sync"})
    ELSE \E s \in call[h].todo : GoesOn(h, "sync", SyncOf(call[h].todo \ {s}, s))

FetchPage(h) ==
    /\ call[h].op = "sync" /\ call[h].at = "fetching"
    /\ LET s == call[h].source
           n == call[h].page
       IN GoesOn(h, "sync", [call[h] EXCEPT !.got = @ \cup KeptOf(s, n), !.page = n + 1,
                                             !.at = IF HasMore(s, n) THEN "fetching" ELSE "saving"])
    /\ UNCHANGED externalVars

(* Nothing of a source that failed is written; the others go on. *)
FetchFails(h) ==
    /\ Offered("outage") /\ call[h].op = "sync" /\ call[h].at = "fetching"
    /\ NextSource(h)
    /\ UNCHANGED externalVars

(* upsertJobs: findExisting, then an update of that row or an insert *)
Writing(c, i, p) ==
    [op |-> "sync", at |-> "writing", todo |-> c.todo, source |-> c.source, page |-> c.page,
     got |-> c.got \ {p}, whole |-> c.whole, found |-> i, key |-> p]

Written(c) ==
    [op |-> "sync", at |-> "saving", todo |-> c.todo, source |-> c.source, page |-> c.page,
     got |-> c.got, whole |-> c.whole, found |-> c.found]

FindExisting(h, p) ==
    /\ call[h].op = "sync" /\ call[h].at = "saving" /\ p \in call[h].got
    /\ \E i \in RowIds \cup {0} :
         /\ IF i = 0 THEN \A j \in DOMAIN postings : postings[j] # [source |-> call[h].source, key |-> p]
            ELSE i \in DOMAIN postings /\ postings[i] = [source |-> call[h].source, key |-> p]
         /\ GoesOn(h, "sync", Writing(call[h], i, p))
    /\ UNCHANGED externalVars

Known(s, p) == \E i \in DOMAIN postings : postings[i] = [source |-> s, key |-> p]

(* The index on (source, key) refuses a second row: the error is logged. *)
UpsertWrites(h) ==
    /\ call[h].op = "sync" /\ call[h].at = "writing"
    /\ IF call[h].found # 0 \/ Known(call[h].source, call[h].key) THEN UNCHANGED postings
       ELSE \E i \in Fresh(RowIds, DOMAIN postings) :
              postings' = [j \in DOMAIN postings \cup {i} |->
                             IF j = i THEN [source |-> call[h].source, key |-> call[h].key] ELSE postings[j]]
    /\ GoesOn(h, "sync", Written(call[h]))
    /\ UNCHANGED board

(* Whatever the look-up or the write of a posting throws is counted as an   *)
(* error, and the run goes on with the next.                                *)
UpsertFails(h) ==
    /\ Offered("outage") /\ call[h].op = "sync"
    /\ \/ /\ call[h].at = "saving"
          /\ \E p \in call[h].got :
               GoesOn(h, "sync", [Written(Writing(call[h], 0, p)) EXCEPT !.whole = FALSE])
       \/ call[h].at = "writing" /\ GoesOn(h, "sync", [Written(call[h]) EXCEPT !.whole = FALSE])
    /\ UNCHANGED externalVars

SourceDone(h) ==
    /\ call[h].op = "sync" /\ call[h].at = "saving" /\ call[h].got = {}
    /\ NextSource(h)
    /\ UNCHANGED externalVars

ExternalJobsNext ==
    \/ \E s \in Sources : BoardChanges(s)
    \/ \E h \in Handlers :
         \/ SyncStarts(h) \/ FetchPage(h) \/ FetchFails(h) \/ UpsertWrites(h) \/ UpsertFails(h) \/ SourceDone(h)
         \/ \E p \in Postings : FindExisting(h, p)

ExternalJobsSpec == ExternalJobsInit /\ ServiceInit /\ [][ExternalJobsNext]_<<externalVars, serviceVars>>

-----------------------------------------------------------------------------
(* A run that is through with a source whose list stood still, and that met *)
(* no error in between, has a row for every posting the source lists with   *)
(* all its data, whatever is skipped on the way (get-on-board.strategy:     *)
(* hasMore goes by the raw page).  Two runs at a time leave one row per     *)
(* posting all the same.                                                    *)
SyncIsWhole ==
    /\ \A h \in Handlers :
         call[h].op = "sync" /\ call[h].at = "saving" /\ call[h].got = {} /\ call[h].whole =>
            \A p \in Range(board[call[h].source]) \ Blank : Known(call[h].source, p)
    /\ \A i, j \in DOMAIN postings : postings[i] = postings[j] => i = j
=============================================================================
