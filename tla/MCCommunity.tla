---------------------------- MODULE MCCommunity ----------------------------
(* The feed and the handlers of posts: a professional of a rubro and an     *)
(* admin, a group, and up to three posts.                                   *)
EXTENDS Community, TLC

MCRubroOf == [u \in Users |-> IF u \in Admins THEN NoRubro ELSE CHOOSE r \in Rubros : TRUE]

MCSymmetry == Permutations(Handlers)

MCScenarios == {
    {"feed", "tick", "createPost", "createGroupPost"},
    {"feed", "createPost", "pausePost", "publishPost"},
    {"feed", "createGroupPost", "planChanges", "updateChannel"},
    {"feed", "createGroupPost", "deletePost", "addMember", "removeMember"},
    {"createPost", "tick", "planChanges", "parallel"},
    {"createPost", "createComment", "createCommentAsAdmin", "pausePost", "admins"},
    {"createPostAsAdmin", "createGroupComment", "deleteComment", "deleteChannel", "admins"},
    {"createPostAsAdmin", "setReaction", "removeReaction", "deleteChannel", "admins"},
    {"createGroupPost", "deleteGroupPostAsAdmin", "pausePostAsAdmin", "admins"},
    {"createPostAsAdmin", "deleteGroupPostAsAdmin", "deleteChannel", "admins", "parallel"},
    {"uploadImage", "associate", "parallel"}}
=============================================================================
