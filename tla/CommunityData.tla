--------------------------- MODULE CommunityData ---------------------------
(* The tables of the community: the open community (the channel "general"   *)
(* and one channel per rubro) and the groups (CommunityChannel), with the   *)
(* rules that say who may read what.  Both tables of posts are one function *)
(* here: a post belongs to a group exactly when its place is a group.       *)
EXTENDS Service

CONSTANTS
    Users, Admins,      \* accounts; those whose token carries the role admin
    Rubros, Groups,     \* rubros have a channel of the open community
    RubroOf,            \* [Users -> Rubros \cup {NoRubro}], the professional's or the company's
    General, NoRubro,
    PostIds, CommentIds,\* bounds: numbers, so that ids are ordered as uuids are
    Kinds,              \* ReactionType
    MaxClock            \* bound on the clock

ASSUME CommunityAssumption ==
    /\ Admins \subseteq Users
    /\ RubroOf \in [Users -> Rubros \cup {NoRubro}]
    /\ PostIds \subseteq Nat \ {0} /\ CommentIds \subseteq Nat
    /\ MaxClock \in Nat \ {0}
    /\ General \notin Rubros \cup Groups /\ Rubros \cap Groups = {}
    /\ NoRubro \notin {General} \cup Rubros \cup Groups

VARIABLES
    clock,              \* the time of day, in ticks; two posts may share one
    paid,               \* the users entitlements.isPaid holds of
    posts,              \* CommunityPost and CommunityChannelPost
    comments,           \* CommunityComment and CommunityChannelComment
    groups,             \* CommunityChannel: isActive of every existing group
    members             \* CommunityChannelMember: accepted members of a group

communityVars == <<clock, paid, posts, comments, groups, members>>

Places == {General} \cup Rubros \cup Groups

PostRecord == [place : Places, author : Users, at : Nat, published : BOOLEAN, deleted : BOOLEAN]
CommentRecord == [post : PostIds, author : Users, deleted : BOOLEAN]

CommunityDataTypeOK ==
    /\ clock \in 0 .. MaxClock
    /\ paid \subseteq Users
    /\ DOMAIN posts \subseteq PostIds /\ \A p \in DOMAIN posts : posts[p] \in PostRecord
    /\ DOMAIN comments \subseteq CommentIds
    /\ \A c \in DOMAIN comments : comments[c] \in CommentRecord /\ comments[c].post \in DOMAIN posts
    /\ DOMAIN groups \subseteq Groups /\ \A g \in DOMAIN groups : groups[g] \in BOOLEAN
    /\ members \in [Groups -> SUBSET Users]

(* Every group of the instance exists and everybody is a member; what the  *)
(* operations remove and add again is up to the scenario.                  *)
CommunityDataInit ==
    /\ clock = 1
    /\ paid = Users
    /\ posts = [p \in {} |-> 0] /\ comments = [c \in {} |-> 0]
    /\ groups = [g \in Groups |-> TRUE]
    /\ members = [g \in Groups |-> Users]
    /\ ServiceInit

IsAdmin(u) == u \in Admins
IsPaid(u)  == u \in paid
IsGroup(place) == place \in Groups

Kept(p)      == p \in DOMAIN posts /\ ~posts[p].deleted
Available(p) == Kept(p) /\ posts[p].published

(* CommunityService.checkChannelAccess: a rubro is for its paying users *)
CheckChannelAccess(u, place) ==
    \/ IsAdmin(u) \/ place = General
    \/ IsPaid(u) /\ RubroOf[u] = place

(* ChannelMemberGuard.canActivate, on every route of a group *)
CanActivate(u, g) == IsAdmin(u) \/ (IsPaid(u) /\ u \in members[g])

MayEnter(u, place) == IF IsGroup(place) THEN CanActivate(u, place) ELSE CheckChannelAccess(u, place)

(* Scopes that forget the plan *)
GetAccessibleScopesUnpaid(u) ==
    {General} \cup ({RubroOf[u]} \ {NoRubro}) \cup {g \in DOMAIN groups : groups[g] /\ u \in members[g]}

(* getAccessibleScopes: the places whose posts go to the feed of u *)
GetAccessibleScopes(u) ==
    {General} \cup (IF IsPaid(u)
                    THEN ({RubroOf[u]} \ {NoRubro})
                         \cup {g \in DOMAIN groups : groups[g] /\ u \in members[g]}
                    ELSE {})

(* Rows of a deleted group go with it (onDelete: Cascade). *)
Without(f, gone) == [x \in DOMAIN f \ gone |-> f[x]]

-----------------------------------------------------------------------------
(* The surroundings: time passes, plans start and lapse. *)

Tick ==
    /\ Offered("tick") /\ clock < MaxClock
    /\ clock' = clock + 1
    /\ UNCHANGED <<paid, posts, comments, groups, members, serviceVars>>

PlanChanges(u) ==
    /\ Offered("planChanges")
    /\ paid' = IF u \in paid THEN paid \ {u} ELSE paid \cup {u}
    /\ UNCHANGED <<clock, posts, comments, groups, members, serviceVars>>
=============================================================================
