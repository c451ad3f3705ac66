--------------------------- MODULE CommunityFeed ---------------------------
(* The feed (CommunityService.getFeed): a reader pages through the posts of *)
(* two tables, newest first, with a cursor on (createdAt, id), while others *)
(* post, pause and delete.  The two reads of a page are one step.           *)
EXTENDS CommunityReads, Sequences, SequencesExt

CONSTANT PageSize       \* limit

ASSUME FeedAssumption == PageSize \in Nat \ {0}

VARIABLE walk           \* one reader's way through the feed

feedVars == <<communityVars, serviceVars, postVars, walk>>

Start == [at |-> MaxClock + 1, id |-> 0]     \* no cursor: everything comes after it

NoWalk == [open |-> FALSE, by |-> "nobody", cursor |-> Start, shown |-> <<>>, there |-> {}]

FeedInit == CommunityDataInit /\ PostsInit /\ walk = NoWalk

(* The feed of u, as a set: published, not deleted, in a place open to u *)
FeedOf(u) == {p \in DOMAIN posts : Available(p) /\ posts[p].place \in GetAccessibleScopes(u)}

Feeds == [u \in Users |-> FeedOf(u)]

(* orderBy createdAt desc, id desc *)
Before(p, q) == \/ posts[p].at > posts[q].at
                \/ posts[p].at = posts[q].at /\ p > q

(* A cursor on createdAt alone *)
AfterDateOnly(cursor, p) == posts[p].at < cursor.at

(* cursorWhere *)
After(cursor, p) == \/ posts[p].at < cursor.at
                    \/ posts[p].at = cursor.at /\ p < cursor.id

(* take: the first n of a table's rows that match *)
Take(found, n) == {p \in found : Cardinality({q \in found : Before(q, p)}) < n}

Sorted(rows) ==
    CHOOSE s \in [1 .. Cardinality(rows) -> rows] : \A i, j \in DOMAIN s : i < j => Before(s[i], s[j])

(* PageSize + 1 rows of each table, merged and sorted *)
Merged(u, cursor) ==
    LET found == {p \in FeedOf(u) : After(cursor, p)}
        inGroups == {p \in found : IsGroup(posts[p].place)}
        rows == Take(found \ inGroups, PageSize + 1) \cup Take(inGroups, PageSize + 1)
    IN Sorted(rows)

(* The cursor of the next page: the last post of this one *)
NextCursor(page) == [at |-> posts[Last(page)].at, id |-> Last(page)]

OpenFeed(u) ==
    /\ Offered("feed") /\ walk = NoWalk
    /\ walk' = [NoWalk EXCEPT !.open = TRUE, !.by = u, !.there = FeedOf(u)]
    /\ UNCHANGED <<communityVars, serviceVars, postVars>>

GetFeed ==
    /\ walk.open
    /\ LET merged == Merged(walk.by, walk.cursor)
           hasMore == Len(merged) > PageSize
           page == SubSeq(merged, 1, IF hasMore THEN PageSize ELSE Len(merged))
       IN walk' = [walk EXCEPT !.shown = @ \o page, !.open = hasMore,
                               !.cursor = IF hasMore THEN NextCursor(page) ELSE @]
    /\ UNCHANGED <<communityVars, serviceVars, postVars>>

(* What others do meanwhile.  "there" keeps the posts that were in the     *)
(* reader's feed all along.                                                 *)
Meanwhile ==
    /\ Tick \/ (\E u \in Users : PlanChanges(u))
    /\ UNCHANGED postVars

Others ==
    /\ PostsNext \/ Meanwhile
    /\ walk' = IF walk.open THEN [walk EXCEPT !.there = @ \cap (Feeds')[walk.by]] ELSE walk

FeedNext == (\E u \in Users : OpenFeed(u)) \/ GetFeed \/ Others

FeedSpec == FeedInit /\ [][FeedNext]_feedVars

-----------------------------------------------------------------------------
(* Type correctness of the community's tables, handlers and feed. *)
FeedTypeOK ==
    /\ CommunityDataTypeOK
    /\ call \in [Handlers -> Requests \cup {Idle}]
    /\ reactions \subseteq [by : Users, target : Targets, kind : Kinds]
    /\ DOMAIN images \subseteq ImageIds
    /\ \A i \in DOMAIN images : images[i] \in [owner : Users, entity : PostIds \cup {0}]
    /\ free \subseteq PostIds /\ walk.there \subseteq PostIds /\ Range(walk.shown) \subseteq PostIds

(* A reader who pages to the end of the feed is shown no post twice, and    *)
(* every post that was in the feed the whole time, whatever is posted,      *)
(* paused, deleted or lost to a lapsed plan between two pages               *)
(* (community.service getFeed: the limit + 1 rows of each of two tables are *)
(* enough for the page, ties of createdAt are broken by id).                *)
FeedWalkIsExact ==
    /\ IsInjective(walk.shown)
    /\ (walk.by \in Users /\ ~walk.open) => walk.there \subseteq Range(walk.shown)

(* The rules written again in each service agree: what a user finds in the  *)
(* feed, the guard or the service lets the same user open with every comment*)
(* that was kept, react to (once) and find in the listing of its place; its *)
(* author and the admins find it in theirs (getAccessibleScopes against     *)
(* checkChannelAccess, ChannelMemberGuard, assertCanAccessTarget, getPost,  *)
(* getPostComments, getMyPosts and the lists of the admin services).  The   *)
(* routes of a group are for professionals and admins.                      *)
FeedIsReadable ==
    \A u \in Users : \A p \in FeedOf(u) :
        LET place == posts[p].place
        IN /\ MayEnter(u, place)
           /\ AssertCanAccessTarget(u, <<"post", p>>)
           /\ Cardinality(MyReactions(u, <<"post", p>>)) <= 1
           /\ p \in GetMyPosts(posts[p].author)
           /\ IF IsGroup(place)
              THEN /\ place \in GetChannels(u) /\ p \in GetGroupPosts(place)
                   /\ u \in Professionals \cup Admins =>
                        GetPost(u, place, p) /\ GetGroupPostComments(u, place, p) = KeptComments(p)
                   /\ p \in ListChannelPosts(place) /\ u \in ListMembers(place)
              ELSE /\ IsPaid(u) => p \in GetChannelPosts(u, place)
                   /\ GetPostById(u, p) /\ GetPostComments(u, p) = KeptComments(p)
                   /\ p \in ListPosts /\ GetAdminPostById(p)

(* Limits that are counted first and inserted later are overrun by at most  *)
(* the handlers that were between their count and their insert: the monthly *)
(* quota of the free plan (CommunityService.createPost) and the images of   *)
(* one post by one user (CommunityImagesService.associate).                 *)
LimitsHoldUpToRaces ==
    /\ \A u \in Users : \A month \in 0 .. MaxClock :
         Cardinality({p \in free \cap DOMAIN posts :
                        Kept(p) /\ posts[p].author = u /\ posts[p].at \div MonthLength = month})
         <= FreePostsPerMonth + Cardinality(Handlers) - 1
    /\ \A u \in Users, p \in PostIds :
         Cardinality({i \in DOMAIN images : images[i] = [owner |-> u, entity |-> p]})
         <= MaxImagesPerEntity * Cardinality(Handlers)
=============================================================================
