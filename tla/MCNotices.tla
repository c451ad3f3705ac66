----------------------------- MODULE MCNotices -----------------------------
(* The community seen from its notices: one professional without a rubro,   *)
(* who posts and reads, a group, jobs that overlap and stop.                *)
EXTENDS Community, TLC

MCRubroOf == [u \in Users |-> NoRubro]

MCScenarios == {
    {"createPost", "createGroupPost", "digest", "markSeen", "stop"},
    {"createPost", "createGroupPost", "pushDigest", "subscribe", "unsubscribe", "markSeen"},
    {"createPost", "pausePost", "pushDigest", "digest", "subscribe"},
    {"createPost", "preferences", "pushDigest", "subscribe"},
    {"createPost", "preferences", "digest"},
    {"createPost", "createGroupPost", "digest", "deleteChannel"}}
=============================================================================
