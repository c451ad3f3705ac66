----------------------------- MODULE Community -----------------------------
(* The community as a whole: the feed and the handlers beside the jobs that *)
(* tell users of new posts.                                                 *)
EXTENDS CommunityFeed, CommunityNotices

vars == <<feedVars, noticeVars>>

Init == FeedInit /\ NoticesInit

(* A new group post by a member starts its push (createPost of the group). *)
Created == {p \in (DOMAIN posts)' \ DOMAIN posts :
              \E h \in Handlers : call[h].op = "createGroupPost" /\ call'[h] = Idle}

(* ... and the deletion of a group takes the rows of what was seen in it.   *)
SeenInGroupsLeft ==
    [x \in Users \X Places |->
        IF x[2] \in DOMAIN groups \ (DOMAIN groups)' THEN NoRow ELSE lastSeen[x]]

CommunityNext ==
    \/ /\ FeedNext
       /\ lastSeen' = SeenInGroupsLeft
       /\ news' = news \cup {p \in Created : IsGroup((posts')[p].place)}
       /\ UNCHANGED <<prefs, owner, digest, push, stops, mailed, settled>>
    \/ NoticesNext /\ UNCHANGED feedVars

CommunitySpec == Init /\ [][CommunityNext]_vars

(* The runner keeps starting the jobs, and a job that runs goes on. *)
Fairness == WF_vars(DigestSteps /\ UNCHANGED feedVars) /\ WF_vars(CooldownPasses /\ UNCHANGED feedVars)

FairCommunitySpec == CommunitySpec /\ Fairness

-----------------------------------------------------------------------------
(* A post a finished push counted for a user is never counted for the same  *)
(* user by a later reading of the push digest, and a reader is not pushed   *)
(* what he has already opened (markPushNotified against notifyUser).        *)
AnnouncedOnce ==
    [][\A r \in Runs : push'[r].at = "marking" /\ push[r].at = "reading" =>
          /\ push'[r].counted \cap settled[push'[r].for] = {}
          /\ \A p \in push'[r].counted : p \notin SeenBy(push'[r].for, posts[p].place)]_vars

(* A push digest clears no badge: what a user has not opened stays unread   *)
(* when the push is marked as sent (community-digest-push-cron              *)
(* markPushNotified: "NO marcar como leido (no afecta el badge)").           *)
PushKeepsBadges ==
    [][\A r \in Runs : push[r].at = "marking" /\ push'[r].at = "reading" =>
          \A u \in Users : Badges(u)' = Badges(u)]_vars

(* Under a digest job that keeps running, a published post that stays unread*)
(* in a place the user gets the digest of, and has not opted out of, is     *)
(* mailed in the end, though the server stops and the cooldown passes.      *)
DigestReachesReader ==
    \A u \in Users, p \in PostIds :
        LET waiting == /\ Available(p) /\ posts[p].place \in DigestPlaces(u)
                       /\ p \in Unread(u, posts[p].place) /\ prefs[<<u, posts[p].place>>].email
        IN Offered("digest") => []<>(~waiting \/ p \in mailed[u])
=============================================================================
