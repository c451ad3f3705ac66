-------------------------- MODULE CommunityNotices --------------------------
(* What tells users of new posts: the badges (community_last_seen and       *)
(* channel_last_seen), the daily digest by mail, the digest by push and the *)
(* push of a new group post.  A moment in time is the set of the posts that *)
(* had been created by then, so that createdAt > lastSeenAt reads p \notin. *)
EXTENDS CommunityPosts

CONSTANTS
    NoRow,              \* no row in a last_seen table
    Devices, Nobody,    \* push subscriptions and their owner
    Runs,               \* executions of the push digest that may overlap
    MaxStops            \* bound on the stops of the server during a job

ASSUME NoticesAssumption ==
    NoRow \notin [seen : SUBSET PostIds, pushed : SUBSET PostIds, recent : BOOLEAN]

VARIABLES
    lastSeen,           \* the row of a user and a place: seen, pushed, recently notified
    prefs,              \* NotificationPreference; no row is the same as TRUE, TRUE
    owner,              \* PushSubscription, unique by provider and subscription id
    digest,             \* the run of the daily digest
    push,               \* the runs of the push digest
    news,               \* group posts whose immediate push is under way
    stops,
    mailed,             \* history: the posts a digest to the user counted
    settled             \* history: the posts a finished push counted, by user

noticeVars == <<lastSeen, prefs, owner, digest, push, news, stops, mailed, settled>>

Resting == [at |-> "resting", todo |-> {}, for |-> "nobody", counted |-> {}]

NoticesInit ==
    /\ lastSeen = [x \in Users \X Places |-> NoRow]
    /\ prefs = [x \in Users \X Places |-> [email |-> TRUE, push |-> TRUE]]
    /\ owner = [d \in Devices |-> Nobody]
    /\ digest = Resting /\ push = [r \in Runs |-> Resting]
    /\ news = {} /\ stops = 0
    /\ mailed = [u \in Users |-> {}] /\ settled = [u \in Users |-> {}]

PostsOf(place) == {p \in DOMAIN posts : posts[p].place = place}
Row(u, place)  == lastSeen[<<u, place>>]
SeenBy(u, place) == IF Row(u, place) = NoRow THEN {} ELSE Row(u, place).seen

(* getCommunityUnreadCount and getChannelUnreadCount: paused posts count *)
Unread(u, place) == {p \in PostsOf(place) : Kept(p)} \ SeenBy(u, place)

(* The badges of CommunityService.getChannels *)
Badges(u) == [place \in GetAccessibleScopes(u) |-> Cardinality(Unread(u, place))]

(* buildUserChannels of the digest: neither isPaid nor a company's rubro counts *)
DigestPlaces(u) ==
    {General} \cup (IF u \in Professionals THEN {RubroOf[u]} \ {NoRubro} ELSE {})
    \cup {g \in DOMAIN groups : groups[g] /\ u \in members[g]}

(* upsert of a row: "fresh" is the row created when there is none *)
Upsert(u, places, fresh(_), changed(_)) ==
    [x \in Users \X Places |->
        IF x[1] # u \/ x[2] \notin places THEN lastSeen[x]
        ELSE IF lastSeen[x] = NoRow THEN fresh(x[2]) ELSE changed(lastSeen[x])]

(* markCommunitySeen, which checks nothing, and markChannelSeen *)
MarkSeen(u, place) ==
    /\ Offered("markSeen") /\ (IsGroup(place) => MayUseGroup(u, place))
    /\ LET fresh(s) == [seen |-> PostsOf(s), pushed |-> {}, recent |-> FALSE]
           changed(row) == [row EXCEPT !.seen = PostsOf(place)]
       IN lastSeen' = Upsert(u, {place}, fresh, changed)
    /\ UNCHANGED <<prefs, owner, digest, push, news, stops, mailed, settled>>

(* upsertPreference: a field left out of the request is written as TRUE *)
UpsertPreference(u, place, email, ring) ==
    /\ Offered("preferences")
    /\ prefs' = [prefs EXCEPT ![<<u, place>>] = [email |-> email, push |-> ring]]
    /\ UNCHANGED <<lastSeen, owner, digest, push, news, stops, mailed, settled>>

(* registerSubscription: a device goes over to whoever logs in on it *)
RegisterSubscription(u, d) ==
    /\ Offered("subscribe") /\ owner[d] # u
    /\ owner' = [owner EXCEPT ![d] = u]
    /\ UNCHANGED <<lastSeen, prefs, digest, push, news, stops, mailed, settled>>

DeleteSubscription(u, d) ==
    /\ Offered("unsubscribe") /\ owner[d] = u
    /\ owner' = [owner EXCEPT ![d] = Nobody]
    /\ UNCHANGED <<lastSeen, prefs, digest, push, news, stops, mailed, settled>>

-----------------------------------------------------------------------------
(* DailyDigestCronService.handleDailyDigest: the users one by one. *)

DigestStarts ==
    /\ Offered("digest") /\ digest.at = "resting"
    /\ digest' = [Resting EXCEPT !.at = "reading", !.todo = Users]
    /\ UNCHANGED <<lastSeen, prefs, owner, push, news, stops, mailed, settled>>

(* A row that is there counts as a mail sent. *)
WasEverNotified(u, places) == \A place \in places : Row(u, place) # NoRow

WasRecentlyNotified(u, places) ==
    \A place \in places : Row(u, place) # NoRow /\ Row(u, place).recent

(* The unread, published posts of the places that are not opted out of *)
DigestReads(u) ==
    LET fresh(place) == {p \in Unread(u, place) : posts[p].published}
        places == {place \in DigestPlaces(u) : fresh(place) # {} /\ prefs[<<u, place>>].email}
    IN /\ digest.at = "reading" /\ u \in digest.todo
       /\ digest' = IF places = {} \/ WasRecentlyNotified(u, places)
                    THEN [digest EXCEPT !.todo = @ \ {u}]
                    ELSE [at |-> "sending", todo |-> digest.todo \ {u}, for |-> u,
                          counted |-> UNION {fresh(place) : place \in places}]
       /\ UNCHANGED <<lastSeen, prefs, owner, push, news, stops, mailed, settled>>

(* MailService.sendDailyDigest never throws. *)
DigestSends ==
    /\ digest.at = "sending"
    /\ digest' = [digest EXCEPT !.at = "marking"]
    /\ mailed' = [mailed EXCEPT ![digest.for] = @ \cup digest.counted]
    /\ UNCHANGED <<lastSeen, prefs, owner, push, news, stops, settled>>

CountedPlaces(run) == {posts[p].place : p \in run.counted \cap DOMAIN posts}

(* updateLastNotifiedAt: the row it creates has everything seen.  For a     *)
(* group that was deleted meanwhile, with its posts, there can be no row:   *)
(* the job ends there, and the users to come are left out.                  *)
DigestMarks ==
    /\ digest.at = "marking"
    /\ LET fresh(place) == [seen |-> PostsOf(place), pushed |-> {}, recent |-> TRUE]
           changed(row) == [row EXCEPT !.recent = TRUE]
       IN lastSeen' = Upsert(digest.for, CountedPlaces(digest), fresh, changed)
    /\ digest' = IF digest.counted \subseteq DOMAIN posts
                 THEN [Resting EXCEPT !.at = "reading", !.todo = digest.todo] ELSE Resting
    /\ UNCHANGED <<prefs, owner, push, news, stops, mailed, settled>>

DigestEnds ==
    /\ digest.at = "reading" /\ digest.todo = {}
    /\ digest' = Resting
    /\ UNCHANGED <<lastSeen, prefs, owner, push, news, stops, mailed, settled>>

(* DAILY_DIGEST_COOLDOWN_HOURS go by. *)
CooldownPasses ==
    /\ \E x \in Users \X Places : lastSeen[x] # NoRow /\ lastSeen[x].recent
    /\ lastSeen' = [x \in Users \X Places |->
                      IF lastSeen[x] = NoRow THEN NoRow ELSE [lastSeen[x] EXCEPT !.recent = FALSE]]
    /\ UNCHANGED <<prefs, owner, digest, push, news, stops, mailed, settled>>

-----------------------------------------------------------------------------
(* CommunityDigestPushCronService.handleCommunityDigestPush *)

PushStarts(r) ==
    /\ Offered("pushDigest") /\ push[r].at = "resting"
    /\ push' = [push EXCEPT ![r] = [Resting EXCEPT !.at = "reading", !.todo = Professionals]]
    /\ UNCHANGED <<lastSeen, prefs, owner, digest, news, stops, mailed, settled>>

(* News that look at what was read, not at what was pushed *)
NewForUnread(u) ==
    {p \in DOMAIN posts :
        /\ Available(p) /\ posts[p].place \in {General, RubroOf[u]}
        /\ prefs[<<u, posts[p].place>>].push
        /\ p \notin SeenBy(u, posts[p].place)}

(* notifyUser: what is newer than both marks, where push is not silenced *)
NewFor(u) ==
    {p \in DOMAIN posts :
        /\ Available(p) /\ posts[p].place \in {General, RubroOf[u]}
        /\ prefs[<<u, posts[p].place>>].push
        /\ LET row == Row(u, posts[p].place) IN row = NoRow \/ p \notin row.seen \cup row.pushed}

PushReads(r, u) ==
    /\ push[r].at = "reading" /\ u \in push[r].todo
    /\ push' = [push EXCEPT ![r] =
                  IF NewFor(u) = {} \/ \A d \in Devices : owner[d] # u
                  THEN [push[r] EXCEPT !.todo = @ \ {u}]
                  ELSE [at |-> "marking", todo |-> push[r].todo \ {u}, for |-> u, counted |-> NewFor(u)]]
    /\ UNCHANGED <<lastSeen, prefs, owner, digest, news, stops, mailed, settled>>

(* Marks that create the row as the mail digest does, with all seen *)
PushMarksSeen(r) ==
    /\ push[r].at = "marking"
    /\ LET u == push[r].for
       IN /\ lastSeen' = [x \in Users \X Places |->
                            IF x[1] # u \/ x[2] \notin CountedPlaces(push[r]) THEN lastSeen[x]
                            ELSE IF lastSeen[x] = NoRow
                            THEN [seen |-> PostsOf(x[2]), pushed |-> PostsOf(x[2]), recent |-> FALSE]
                            ELSE [lastSeen[x] EXCEPT !.pushed = PostsOf(x[2])]]
          /\ settled' = [settled EXCEPT ![u] = @ \cup push[r].counted]
    /\ push' = [push EXCEPT ![r] = [Resting EXCEPT !.at = "reading", !.todo = push[r].todo]]
    /\ UNCHANGED <<prefs, owner, digest, news, stops, mailed>>

(* markPushNotified, after OneSignal, which never throws; the row it       *)
(* creates has nothing seen.                                                *)
PushMarks(r) ==
    /\ push[r].at = "marking"
    /\ LET u == push[r].for
           places == CountedPlaces(push[r])
       IN /\ lastSeen' = [x \in Users \X Places |->
                            IF x[1] # u \/ x[2] \notin places THEN lastSeen[x]
                            ELSE IF lastSeen[x] = NoRow
                            THEN [seen |-> {}, pushed |-> PostsOf(x[2]), recent |-> FALSE]
                            ELSE [lastSeen[x] EXCEPT !.pushed = PostsOf(x[2])]]
          /\ settled' = [settled EXCEPT ![u] = @ \cup push[r].counted]
    /\ push' = [push EXCEPT ![r] = [Resting EXCEPT !.at = "reading", !.todo = push[r].todo]]
    /\ UNCHANGED <<prefs, owner, digest, news, stops, mailed>>

PushEnds(r) ==
    /\ push[r].at = "reading" /\ push[r].todo = {}
    /\ push' = [push EXCEPT ![r] = Resting]
    /\ UNCHANGED <<lastSeen, prefs, owner, digest, news, stops, mailed, settled>>

(* The server stops: every run is gone, and so is every pending push. *)
ServerStops ==
    /\ Offered("stop") /\ stops < MaxStops
    /\ stops' = stops + 1
    /\ digest' = Resting /\ push' = [r \in Runs |-> Resting] /\ news' = {}
    /\ UNCHANGED <<lastSeen, prefs, owner, mailed, settled>>

(* notifyNewChannelPost: not the author, not who silenced the group *)
Recipients(p) ==
    {u \in members[posts[p].place] \ {posts[p].author} : prefs[<<u, posts[p].place>>].push}

NotifyNewChannelPost(p) ==
    /\ p \in news
    /\ news' = news \ {p}
    /\ settled' = IF p \in DOMAIN posts /\ posts[p].place \in DOMAIN groups /\ groups[posts[p].place]
                  THEN [u \in Users |-> settled[u] \cup
                          (IF u \in Recipients(p) /\ \E d \in Devices : owner[d] = u THEN {p} ELSE {})]
                  ELSE settled
    /\ UNCHANGED <<lastSeen, prefs, owner, digest, push, stops, mailed>>

DigestSteps ==
    \/ DigestStarts \/ DigestSends \/ DigestMarks \/ DigestEnds
    \/ \E u \in Users : DigestReads(u)

PushSteps ==
    \/ \E r \in Runs : PushStarts(r) \/ PushMarks(r) \/ PushEnds(r) \/ \E u \in Professionals : PushReads(r, u)
    \/ \E p \in PostIds : NotifyNewChannelPost(p)

NoticesNext ==
    \/ DigestSteps \/ PushSteps \/ CooldownPasses \/ ServerStops
    \/ \E u \in Users, place \in Places :
         \/ MarkSeen(u, place)
         \/ \E email, ring \in BOOLEAN : UpsertPreference(u, place, email, ring)
    \/ \E u \in Users, d \in Devices : RegisterSubscription(u, d) \/ DeleteSubscription(u, d)
=============================================================================
