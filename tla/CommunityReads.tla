--------------------------- MODULE CommunityReads ---------------------------
(* What the readers of the community get: the listings and the pages of     *)
(* posts and comments of both tables, for users and for admins.  A listing  *)
(* is a set; its order and its pages are left out (the feed's are in        *)
(* CommunityFeed).                                                          *)
EXTENDS CommunityPosts

(* CommunityService.getChannelPosts: on a rubro a professional also gets   *)
(* general, and a free account no more than the newest of them.             *)
GetChannelPosts(u, place) ==
    LET places == IF u \in Professionals THEN {place, General} ELSE {place}
        found == {p \in DOMAIN posts : Available(p) /\ posts[p].place \in places}
        Newer(p) == {q \in found : posts[q].at > posts[p].at}
    IN IF IsPaid(u) THEN found ELSE {p \in found : Cardinality(Newer(p)) < FreeVisiblePosts}

(* CommunityChannelsService.getChannels: the groups u sees in the menu *)
GetChannels(u) ==
    IF IsPaid(u) THEN {g \in DOMAIN groups : groups[g] /\ u \in members[g]} ELSE {}

(* CommunityChannelsService.getChannelPosts: paused posts included *)
GetGroupPosts(g) == {p \in DOMAIN posts : Kept(p) /\ posts[p].place = g}

(* CommunityService.getMyPosts: of both tables, whether or not the author   *)
(* may still enter the place                                                *)
GetMyPosts(u) == {p \in DOMAIN posts : Kept(p) /\ posts[p].author = u}

(* AdminCommunityService.listPosts *)
ListPosts == {p \in DOMAIN posts : Kept(p) /\ ~IsGroup(posts[p].place)}

(* AdminChannelsService.listChannelPosts: deleted posts included *)
ListChannelPosts(g) == {p \in DOMAIN posts : g \in DOMAIN groups /\ posts[p].place = g}

(* AdminChannelsService.listMembers *)
ListMembers(g) == {u \in members[g] : g \in DOMAIN groups}

-----------------------------------------------------------------------------
(* One post, and its comments *)

(* CommunityService.getPostById: a paused post opens *)
GetPostById(u, p) == Kept(p) /\ ~IsGroup(posts[p].place) /\ CheckChannelAccess(u, posts[p].place)

(* AdminCommunityService.getAdminPostById *)
GetAdminPostById(p) == Kept(p) /\ ~IsGroup(posts[p].place)

(* CommunityChannelsService.getPost, behind the guards of the route *)
GetPost(u, g, p) == MayUseGroup(u, g) /\ Kept(p) /\ posts[p].place = g

KeptComments(p) == {c \in DOMAIN comments : comments[c].post = p /\ ~comments[c].deleted}

(* CommunityService.getPostComments: of a published post only *)
GetPostComments(u, p) ==
    {c \in KeptComments(p) : Available(p) /\ ~IsGroup(posts[p].place) /\ CheckChannelAccess(u, posts[p].place)}

(* CommunityChannelsService.getPostComments: of a deleted post too *)
GetGroupPostComments(u, g, p) ==
    {c \in KeptComments(p) : p \in DOMAIN posts /\ posts[p].place = g /\ MayUseGroup(u, g)}

(* ReactionsQueryService.attach: myReaction *)
MyReactions(u, target) == {r.kind : r \in {s \in reactions : s.by = u /\ s.target = target}}
=============================================================================
