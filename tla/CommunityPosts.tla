--------------------------- MODULE CommunityPosts ---------------------------
(* Posts, comments, reactions and images: community.service,               *)
(* community-channels.service, their admin counterparts, reactions.service  *)
(* and community-images.service.  A handler answers its checks from one     *)
(* read (Begin) and writes later (one action per kind of write), so that    *)
(* another handler may come in between.                                     *)
EXTENDS CommunityData

CONSTANTS
    FreePostsPerMonth,  \* FREE_TIER_POSTS_PER_MONTH
    FreeVisiblePosts,   \* FREE_TIER_VISIBLE_POSTS
    MonthLength,        \* ticks of a month
    Professionals,      \* the users whose token carries the role professional
    ImageIds, MaxImagesPerEntity

ASSUME PostsAssumption ==
    /\ FreePostsPerMonth \in Nat /\ FreeVisiblePosts \in Nat /\ MonthLength \in Nat \ {0}
    /\ MaxImagesPerEntity \in Nat /\ Professionals \subseteq Users

VARIABLES
    reactions,          \* Reaction: unique by user and target
    images,             \* CommunityImage: owner and the post it is attached to
    free,               \* history: the posts made under the quota of the free plan
    made                \* the posts and comments made so far: a uuid is not given out again

postVars == <<reactions, images, free, made>>

(* A target is a post or a comment, of either table. *)
Targets == ({"post"} \X PostIds) \cup ({"comment"} \X CommentIds)

PostsInit ==
    /\ reactions = {} /\ free = {} /\ made = {}
    /\ images = [i \in {} |-> 0]

-----------------------------------------------------------------------------
(* ReactionsService.assertCanAccessTarget *)
AssertCanAccessTarget(u, target) ==
    IF target[1] = "post"
    THEN Available(target[2]) /\ MayEnter(u, posts[target[2]].place)
    ELSE /\ target[2] \in DOMAIN comments /\ ~comments[target[2]].deleted
         /\ Available(comments[target[2]].post)
         /\ MayEnter(u, posts[comments[target[2]].post].place)

-----------------------------------------------------------------------------
(* The checks of each handler.  r.by is the caller. *)

(* The routes of a group ask for a role before its guard. *)
MayUseGroup(u, g) == (u \in Professionals \/ IsAdmin(u)) /\ CanActivate(u, g)

ThisMonth(t) == t \div MonthLength = clock \div MonthLength

PostsThisMonth(u) ==
    {p \in DOMAIN posts : Kept(p) /\ posts[p].author = u /\ ~IsGroup(posts[p].place)
                          /\ ThisMonth(posts[p].at)}

(* A quota that admits one post too many *)
MayPostAtLimit(r) ==
    /\ ~IsGroup(r.place) /\ CheckChannelAccess(r.by, r.place)
    /\ r.counted = ~IsPaid(r.by)
    /\ r.counted => Cardinality(PostsThisMonth(r.by)) <= FreePostsPerMonth

(* CommunityService.createPost *)
MayPost(r) ==
    /\ ~IsGroup(r.place) /\ CheckChannelAccess(r.by, r.place)
    /\ r.counted = ~IsPaid(r.by)
    /\ r.counted => Cardinality(PostsThisMonth(r.by)) < FreePostsPerMonth

(* CommunityChannelsService.createPost, behind the guard of the route *)
MayPostInGroup(r) ==
    /\ IsGroup(r.place) /\ MayUseGroup(r.by, r.place)
    /\ r.place \in DOMAIN groups /\ groups[r.place]

(* AdminChannelsService.createChannelPost: in the name of any user, member  *)
(* or not, and the group may be inactive                                    *)
MayPostAsAdmin(r) == r.by \in Users /\ r.place \in DOMAIN groups

(* CommunityService.createComment: a paused post takes comments too *)
MayComment(r) == Kept(r.post) /\ ~IsGroup(posts[r.post].place) /\ CheckChannelAccess(r.by, posts[r.post].place)

(* CommunityChannelsService.createComment: so does an inactive group *)
MayCommentInGroup(r) == Kept(r.post) /\ IsGroup(posts[r.post].place) /\ MayUseGroup(r.by, posts[r.post].place)

(* AdminCommunityService.createComment *)
MayCommentAsAdmin(r) == IsAdmin(r.by) /\ Kept(r.post) /\ ~IsGroup(posts[r.post].place)

(* deletePost and updatePostContent of both services: the author or an     *)
(* admin; a group's routes are behind its guard.                            *)
MayRemovePost(r) ==
    /\ Kept(r.post) /\ (posts[r.post].author = r.by \/ IsAdmin(r.by))
    /\ IsGroup(posts[r.post].place) => MayUseGroup(r.by, posts[r.post].place)

(* AdminChannelsService.deleteChannelPost stamps a deleted post again *)
MayRemoveGroupPost(r) == IsAdmin(r.by) /\ r.post \in DOMAIN posts /\ IsGroup(posts[r.post].place)

(* AdminCommunityService.deletePost: any kept post of the open community;   *)
(* a deleted one is answered as if it were deleted now.                     *)
MayRemovePostAsAdmin(r) == IsAdmin(r.by) /\ Kept(r.post) /\ ~IsGroup(posts[r.post].place)

(* updatePostStatus of both services: the author only *)
MaySetStatus(r) ==
    /\ Kept(r.post) /\ posts[r.post].author = r.by
    /\ IsGroup(posts[r.post].place) => MayUseGroup(r.by, posts[r.post].place)

(* AdminChannelsService.updateChannelPost *)
MaySetStatusAsAdmin(r) == IsAdmin(r.by) /\ Kept(r.post) /\ IsGroup(posts[r.post].place)

(* deleteComment of both services *)
MayRemoveComment(r) ==
    /\ r.comment \in DOMAIN comments /\ ~comments[r.comment].deleted
    /\ comments[r.comment].author = r.by \/ IsAdmin(r.by)
    /\ LET place == posts[comments[r.comment].post].place
       IN IsGroup(place) => MayUseGroup(r.by, place)

(* AdminCommunityService.deleteComment *)
MayRemoveCommentAsAdmin(r) ==
    /\ IsAdmin(r.by) /\ r.comment \in DOMAIN comments /\ ~comments[r.comment].deleted
    /\ ~IsGroup(posts[comments[r.comment].post].place)

(* AdminChannelsService.deleteChannelComment stamps a deleted one again *)
MayRemoveGroupComment(r) ==
    /\ IsAdmin(r.by) /\ r.comment \in DOMAIN comments
    /\ IsGroup(posts[comments[r.comment].post].place)

(* CommunityImagesService.associate: own images, counted against the limit *)
MayAssociate(r) ==
    /\ \A i \in r.images : i \in DOMAIN images /\ images[i].owner = r.by
    /\ LET there == {i \in DOMAIN images : images[i] = [owner |-> r.by, entity |-> r.post]}
       IN Cardinality(there) + Cardinality(r.images \ there) <= MaxImagesPerEntity

Requests ==
    [op : {"createPost"}, by : Users, place : Places, counted : BOOLEAN]
    \cup [op : {"createGroupPost", "createPostAsAdmin"}, by : Users, place : Places]
    \cup [op : {"createComment", "createGroupComment", "createCommentAsAdmin",
                "deletePost", "deleteGroupPostAsAdmin", "pausePost", "publishPost",
                "pausePostAsAdmin"}, by : Users, post : PostIds]
    \cup [op : {"deleteComment"}, by : Users, comment : CommentIds]
    \cup [op : {"setReaction", "removeReaction"}, by : Users, target : Targets, kind : Kinds]
    \cup [op : {"associate"}, by : Users, post : PostIds, images : SUBSET ImageIds \ {{}}]

Accepted(r) ==
    \/ r.op = "createPost" /\ MayPost(r)
    \/ r.op = "createGroupPost" /\ MayPostInGroup(r)
    \/ r.op = "createPostAsAdmin" /\ MayPostAsAdmin(r)
    \/ r.op = "createComment" /\ MayComment(r)
    \/ r.op = "createGroupComment" /\ MayCommentInGroup(r)
    \/ r.op = "createCommentAsAdmin" /\ MayCommentAsAdmin(r)
    \/ r.op = "deletePost" /\ (MayRemovePost(r) \/ MayRemovePostAsAdmin(r))
    \/ r.op = "deleteGroupPostAsAdmin" /\ MayRemoveGroupPost(r)
    \/ r.op \in {"pausePost", "publishPost"} /\ MaySetStatus(r)
    \/ r.op = "pausePostAsAdmin" /\ MaySetStatusAsAdmin(r)
    \/ r.op = "deleteComment" /\ (MayRemoveComment(r) \/ MayRemoveCommentAsAdmin(r) \/ MayRemoveGroupComment(r))
    \/ r.op \in {"setReaction", "removeReaction"} /\ AssertCanAccessTarget(r.by, r.target)
    \/ r.op = "associate" /\ MayAssociate(r)

(* Only a scenario with "admins" serves admins. *)
Begin(h, r) ==
    /\ Takes(h, r) /\ Accepted(r)
    /\ Offered("admins") \/ ~IsAdmin(r.by)
    /\ UNCHANGED <<communityVars, postVars>>

-----------------------------------------------------------------------------
(* The writes.  A row deleted with its group fails the write. *)

InsertPost(h) ==
    /\ Ends(h, {"createPost", "createGroupPost", "createPostAsAdmin"})
    /\ \E p \in {q \in PostIds : <<"post", q>> \notin made} :
         /\ posts' = [q \in DOMAIN posts \cup {p} |->
                        IF q = p THEN [place |-> call[h].place, author |-> call[h].by, at |-> clock,
                                       published |-> TRUE, deleted |-> FALSE]
                        ELSE posts[q]]
         /\ free' = IF call[h].op = "createPost" /\ call[h].counted THEN free \cup {p} ELSE free
         /\ made' = made \cup {<<"post", p>>}
    /\ IsGroup(call[h].place) => call[h].place \in DOMAIN groups
    /\ UNCHANGED <<clock, paid, comments, groups, members, reactions, images>>

InsertComment(h) ==
    /\ Ends(h, {"createComment", "createGroupComment", "createCommentAsAdmin"})
    /\ call[h].post \in DOMAIN posts
    /\ \E c \in {d \in CommentIds : <<"comment", d>> \notin made} :
         /\ comments' = [d \in DOMAIN comments \cup {c} |->
                           IF d = c THEN [post |-> call[h].post, author |-> call[h].by, deleted |-> FALSE]
                           ELSE comments[d]]
         /\ made' = made \cup {<<"comment", c>>}
    /\ UNCHANGED <<clock, paid, posts, groups, members, reactions, images, free>>

RemovePost(h) ==
    /\ Ends(h, {"deletePost", "deleteGroupPostAsAdmin"}) /\ call[h].post \in DOMAIN posts
    /\ posts' = [posts EXCEPT ![call[h].post].deleted = TRUE]
    /\ UNCHANGED <<clock, paid, comments, groups, members, reactions, images, free, made>>

SetStatus(h) ==
    /\ Ends(h, {"pausePost", "publishPost", "pausePostAsAdmin"}) /\ call[h].post \in DOMAIN posts
    /\ posts' = [posts EXCEPT ![call[h].post].published = (call[h].op = "publishPost")]
    /\ UNCHANGED <<clock, paid, comments, groups, members, reactions, images, free, made>>

RemoveComment(h) ==
    /\ Ends(h, {"deleteComment"}) /\ call[h].comment \in DOMAIN comments
    /\ comments' = [comments EXCEPT ![call[h].comment].deleted = TRUE]
    /\ UNCHANGED <<clock, paid, posts, groups, members, reactions, images, free, made>>

(* An upsert by (user, target) and a deleteMany; no foreign key. *)
SetReaction(h) ==
    /\ Ends(h, {"setReaction"})
    /\ reactions' = {r \in reactions : ~(r.by = call[h].by /\ r.target = call[h].target)}
                    \cup {[by |-> call[h].by, target |-> call[h].target, kind |-> call[h].kind]}
    /\ UNCHANGED <<communityVars, images, free, made>>

RemoveReaction(h) ==
    /\ Ends(h, {"removeReaction"})
    /\ reactions' = {r \in reactions : ~(r.by = call[h].by /\ r.target = call[h].target)}
    /\ UNCHANGED <<communityVars, images, free, made>>

AttachImages(h) ==
    /\ Ends(h, {"associate"})
    /\ images' = [i \in DOMAIN images |->
                    IF i \in call[h].images THEN [images[i] EXCEPT !.entity = call[h].post] ELSE images[i]]
    /\ UNCHANGED <<communityVars, reactions, free, made>>

(* CommunityImagesService.createRecord *)
UploadImage(u, i) ==
    /\ Offered("uploadImage") /\ i \notin DOMAIN images
    /\ images' = [j \in DOMAIN images \cup {i} |->
                    IF j = i THEN [owner |-> u, entity |-> 0] ELSE images[j]]
    /\ UNCHANGED <<communityVars, serviceVars, reactions, free, made>>

(* The write found no row to change: the handler answers with an error. *)
WriteFails(h) ==
    /\ \/ call[h].op \in {"deletePost", "deleteGroupPostAsAdmin", "pausePost", "publishPost",
                          "pausePostAsAdmin", "createComment", "createGroupComment",
                          "createCommentAsAdmin"} /\ call[h].post \notin DOMAIN posts
       \/ call[h].op = "deleteComment" /\ call[h].comment \notin DOMAIN comments
       \/ call[h].op \in {"createGroupPost", "createPostAsAdmin"} /\ call[h].place \notin DOMAIN groups
    /\ Ends(h, {call[h].op})
    /\ UNCHANGED <<communityVars, postVars>>

-----------------------------------------------------------------------------
(* Groups: AdminChannelsService *)

SetGroupActive(g) ==
    /\ Offered("updateChannel") /\ g \in DOMAIN groups
    /\ groups' = [groups EXCEPT ![g] = ~groups[g]]
    /\ UNCHANGED <<clock, paid, posts, comments, members, serviceVars, postVars>>

(* A delete without the cascade from the posts to their comments *)
DeleteGroupKeepsComments(g) ==
    /\ Offered("deleteChannel") /\ g \in DOMAIN groups
    /\ groups' = Without(groups, {g})
    /\ members' = [members EXCEPT ![g] = {}]
    /\ posts' = Without(posts, {p \in DOMAIN posts : posts[p].place = g})
    /\ UNCHANGED <<clock, paid, comments, serviceVars, postVars>>

(* A hard delete: members, posts and comments go with the group, and so do  *)
(* its rows of channel_last_seen (Community); the reactions on them stay.   *)
DeleteGroup(g) ==
    LET gone == {p \in DOMAIN posts : posts[p].place = g}
    IN /\ Offered("deleteChannel") /\ g \in DOMAIN groups
       /\ groups' = Without(groups, {g})
       /\ members' = [members EXCEPT ![g] = {}]
       /\ posts' = Without(posts, gone)
       /\ comments' = Without(comments, {c \in DOMAIN comments : comments[c].post \in gone})
       /\ UNCHANGED <<clock, paid, serviceVars, postVars>>

AddMember(g, u) ==
    /\ Offered("addMember") /\ g \in DOMAIN groups /\ u \notin members[g]
    /\ members' = [members EXCEPT ![g] = @ \cup {u}]
    /\ UNCHANGED <<clock, paid, posts, comments, groups, serviceVars, postVars>>

RemoveMember(g, u) ==
    /\ Offered("removeMember") /\ g \in DOMAIN groups /\ u \in members[g]
    /\ members' = [members EXCEPT ![g] = @ \ {u}]
    /\ UNCHANGED <<clock, paid, posts, comments, groups, serviceVars, postVars>>

PostsNext ==
    \/ \E h \in Handlers : \E r \in Requests : Begin(h, r)
    \/ \E h \in Handlers :
         \/ InsertPost(h) \/ InsertComment(h) \/ RemovePost(h) \/ SetStatus(h) \/ RemoveComment(h)
         \/ SetReaction(h) \/ RemoveReaction(h) \/ AttachImages(h) \/ WriteFails(h)
    \/ \E u \in Users, i \in ImageIds : UploadImage(u, i)
    \/ \E g \in Groups : SetGroupActive(g) \/ DeleteGroup(g)
    \/ \E g \in Groups, u \in Users : AddMember(g, u) \/ RemoveMember(g, u)
=============================================================================
