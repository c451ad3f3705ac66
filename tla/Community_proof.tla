-------------------------- MODULE Community_proof --------------------------
(* Theorems about the community: its tables, the feed and its readers, the  *)
(* limits that handlers overrun, and the push digest.                       *)
EXTENDS Community, Service_proof, SequenceTheorems

-----------------------------------------------------------------------------
(* Types.  The tables grow by one row at a time, so that they stay finite,  *)
(* and an id that was given out is remembered.                              *)

Reactions == [by : Users, target : Targets, kind : Kinds]
Images == [owner : Users, entity : PostIds \cup {0}]

TablesOK ==
    /\ CommunityDataTypeOK
    /\ call \in [Handlers -> Requests \cup {Idle}]
    /\ reactions \subseteq Reactions
    /\ DOMAIN images \subseteq ImageIds /\ \A i \in DOMAIN images : images[i] \in Images
    /\ free \subseteq PostIds /\ made \subseteq Targets
    /\ \A p \in DOMAIN posts : <<"post", p>> \in made
    /\ IsFiniteSet(DOMAIN posts)

LEMMA CallOK ==
    ASSUME NEW r \in Requests \cup {Idle}
    PROVE  /\ r.op \in {"createPost", "createGroupPost", "createPostAsAdmin"} => r.by \in Users /\ r.place \in Places
           /\ r.op = "createPost" => r.counted \in BOOLEAN
           /\ r.op \in {"createComment", "createGroupComment", "createCommentAsAdmin", "deletePost",
                        "deleteGroupPostAsAdmin", "pausePost", "publishPost", "pausePostAsAdmin"}
                => r.by \in Users /\ r.post \in PostIds
           /\ r.op = "deleteComment" => r.by \in Users /\ r.comment \in CommentIds
           /\ r.op \in {"setReaction", "removeReaction"} => r.by \in Users /\ r.target \in Targets /\ r.kind \in Kinds
           /\ r.op = "associate" => r.by \in Users /\ r.post \in PostIds /\ r.images \in SUBSET ImageIds
  BY DEF Requests, Idle

LEMMA TablesInit == CommunityDataInit /\ PostsInit => TablesOK
<1> SUFFICES ASSUME CommunityDataInit, PostsInit PROVE TablesOK
  OBVIOUS
<1>1. CommunityDataTypeOK
  BY CommunityAssumption DEF CommunityDataInit, CommunityDataTypeOK
<1> QED BY <1>1, FS_EmptySet DEF TablesOK, CommunityDataInit, PostsInit, ServiceInit, Idle

LEMMA TablesKept ==
    ASSUME TablesOK, UNCHANGED <<communityVars, postVars, serviceVars>>
    PROVE  TablesOK'
  BY DEF TablesOK, CommunityDataTypeOK, communityVars, postVars, serviceVars

(* A handler that begins keeps the tables.                                  *)
LEMMA BeginTables ==
    ASSUME TablesOK, NEW h \in Handlers, NEW r \in Requests, Begin(h, r)
    PROVE  TablesOK'
  BY DEF Begin, Takes, TablesOK, CommunityDataTypeOK, communityVars, postVars

(* What a write leaves behind in call.                                      *)
LEMMA EndsCall ==
    ASSUME TablesOK, NEW h \in Handlers, NEW ops, Ends(h, ops)
    PROVE  call[h] \in Requests \cup {Idle} /\ call' \in [Handlers -> Requests \cup {Idle}]
  BY DEF TablesOK, Ends

LEMMA InsertPostTables ==
    ASSUME TablesOK, NEW h \in Handlers, InsertPost(h)
    PROVE  TablesOK'
<1>1. PICK p \in {q \in PostIds : <<"post", q>> \notin made} :
        /\ posts' = [q \in DOMAIN posts \cup {p} |->
                       IF q = p THEN [place |-> call[h].place, author |-> call[h].by, at |-> clock,
                                      published |-> TRUE, deleted |-> FALSE]
                       ELSE posts[q]]
        /\ free' = IF call[h].op = "createPost" /\ call[h].counted THEN free \cup {p} ELSE free
        /\ made' = made \cup {<<"post", p>>}
  BY DEF InsertPost
<1>2. call[h].by \in Users /\ call[h].place \in Places /\ call' \in [Handlers -> Requests \cup {Idle}]
  BY EndsCall, CallOK DEF InsertPost, Ends
<1>3. \A q \in DOMAIN posts' : posts'[q] \in PostRecord
  BY <1>1, <1>2, CommunityAssumption DEF TablesOK, CommunityDataTypeOK, PostRecord
<1>4. DOMAIN posts' = DOMAIN posts \cup {p} /\ IsFiniteSet(DOMAIN posts') /\ <<"post", p>> \in Targets
  BY <1>1, FS_AddElement DEF TablesOK, Targets
<1>5. CommunityDataTypeOK'
  BY <1>1, <1>3, <1>4 DEF InsertPost, TablesOK, CommunityDataTypeOK
<1> QED BY <1>1, <1>2, <1>4, <1>5 DEF InsertPost, TablesOK

LEMMA InsertCommentTables ==
    ASSUME TablesOK, NEW h \in Handlers, InsertComment(h)
    PROVE  TablesOK'
<1>1. PICK c \in {d \in CommentIds : <<"comment", d>> \notin made} :
        /\ comments' = [d \in DOMAIN comments \cup {c} |->
                           IF d = c THEN [post |-> call[h].post, author |-> call[h].by, deleted |-> FALSE]
                           ELSE comments[d]]
        /\ made' = made \cup {<<"comment", c>>}
  BY DEF InsertComment
<1>2. call[h].by \in Users /\ call[h].post \in PostIds /\ call' \in [Handlers -> Requests \cup {Idle}]
  BY EndsCall, CallOK DEF InsertComment, Ends
<1>3. \A d \in DOMAIN comments' : comments'[d] \in CommentRecord /\ comments'[d].post \in DOMAIN posts'
  BY <1>1, <1>2 DEF InsertComment, TablesOK, CommunityDataTypeOK, CommentRecord
<1>4. DOMAIN comments' \subseteq CommentIds /\ <<"comment", c>> \in Targets
  BY <1>1 DEF TablesOK, CommunityDataTypeOK, Targets
<1>5. CommunityDataTypeOK'
  BY <1>3, <1>4 DEF InsertComment, TablesOK, CommunityDataTypeOK
<1> QED BY <1>1, <1>2, <1>4, <1>5 DEF InsertComment, TablesOK

(* The writes that change a row or a reaction                               *)
LEMMA WritesTables ==
    ASSUME TablesOK, NEW h \in Handlers,
           \/ RemovePost(h) \/ SetStatus(h) \/ RemoveComment(h)
           \/ SetReaction(h) \/ RemoveReaction(h) \/ AttachImages(h) \/ WriteFails(h)
    PROVE  TablesOK'
<1>1. CASE RemovePost(h)
  <2>1. DOMAIN posts' = DOMAIN posts /\ \A q \in DOMAIN posts : posts'[q] \in PostRecord
    BY <1>1 DEF RemovePost, TablesOK, CommunityDataTypeOK, PostRecord
  <2> QED BY <1>1, <2>1, EndsCall DEF RemovePost, TablesOK, CommunityDataTypeOK
<1>2. CASE SetStatus(h)
  <2>1. DOMAIN posts' = DOMAIN posts /\ \A q \in DOMAIN posts : posts'[q] \in PostRecord
    BY <1>2 DEF SetStatus, TablesOK, CommunityDataTypeOK, PostRecord
  <2> QED BY <1>2, <2>1, EndsCall DEF SetStatus, TablesOK, CommunityDataTypeOK
<1>3. CASE RemoveComment(h)
  <2>1. /\ DOMAIN comments' = DOMAIN comments
        /\ \A d \in DOMAIN comments : comments'[d] \in CommentRecord /\ comments'[d].post \in DOMAIN posts
    BY <1>3 DEF RemoveComment, TablesOK, CommunityDataTypeOK, CommentRecord
  <2> QED BY <1>3, <2>1, EndsCall DEF RemoveComment, TablesOK, CommunityDataTypeOK
<1>4. CASE SetReaction(h)
  <2>1. [by |-> call[h].by, target |-> call[h].target, kind |-> call[h].kind] \in Reactions
    BY <1>4, EndsCall, CallOK DEF SetReaction, Ends, Reactions
  <2> QED BY <1>4, <2>1, EndsCall DEF SetReaction, TablesOK, CommunityDataTypeOK, communityVars
<1>5. CASE RemoveReaction(h)
  BY <1>5, EndsCall DEF RemoveReaction, TablesOK, CommunityDataTypeOK, communityVars
<1>6. CASE AttachImages(h)
  <2>1. DOMAIN images' = DOMAIN images /\ \A i \in DOMAIN images : images'[i] \in Images
    BY <1>6, EndsCall, CallOK DEF AttachImages, Ends, Images, TablesOK
  <2> QED BY <1>6, <2>1, EndsCall DEF AttachImages, TablesOK, CommunityDataTypeOK, communityVars
<1>7. CASE WriteFails(h)
  BY <1>7, EndsCall DEF WriteFails, TablesOK, CommunityDataTypeOK, communityVars, postVars
<1> QED BY <1>1, <1>2, <1>3, <1>4, <1>5, <1>6, <1>7

LEMMA GroupTables ==
    ASSUME TablesOK, NEW g \in Groups, SetGroupActive(g) \/ DeleteGroup(g)
    PROVE  TablesOK'
<1>1. CASE SetGroupActive(g)
  BY <1>1 DEF SetGroupActive, TablesOK, CommunityDataTypeOK, serviceVars, postVars
<1>2. CASE DeleteGroup(g)
  <2> DEFINE gone == {p \in DOMAIN posts : posts[p].place = g}
  <2>1. /\ DOMAIN posts' = DOMAIN posts \ gone /\ \A q \in DOMAIN posts' : posts'[q] = posts[q]
        /\ DOMAIN comments' = DOMAIN comments \ {c \in DOMAIN comments : comments[c].post \in gone}
        /\ \A c \in DOMAIN comments' : comments'[c] = comments[c]
        /\ DOMAIN groups' = DOMAIN groups \ {g} /\ \A k \in DOMAIN groups' : groups'[k] = groups[k]
    BY <1>2 DEF DeleteGroup, Without
  <2>2. IsFiniteSet(DOMAIN posts')
    BY <2>1, FS_Subset DEF TablesOK
  <2>3. \A c \in DOMAIN comments' : comments'[c] \in CommentRecord /\ comments'[c].post \in DOMAIN posts'
    BY <2>1 DEF TablesOK, CommunityDataTypeOK
  <2>4. members' \in [Groups -> SUBSET Users]
    BY <1>2 DEF DeleteGroup, TablesOK, CommunityDataTypeOK
  <2>5. CommunityDataTypeOK'
    BY <1>2, <2>1, <2>3, <2>4 DEF DeleteGroup, TablesOK, CommunityDataTypeOK
  <2> QED BY <1>2, <2>1, <2>2, <2>5 DEF DeleteGroup, TablesOK, serviceVars, postVars
<1> QED BY <1>1, <1>2

LEMMA OtherTables ==
    ASSUME TablesOK,
           \/ \E u \in Users, i \in ImageIds : UploadImage(u, i)
           \/ \E g \in Groups, u \in Users : AddMember(g, u) \/ RemoveMember(g, u)
           \/ Meanwhile
    PROVE  TablesOK'
<1>1. CASE \E u \in Users, i \in ImageIds : UploadImage(u, i)
  <2>1. PICK u \in Users, i \in ImageIds : UploadImage(u, i)
    BY <1>1
  <2>2. DOMAIN images' \subseteq ImageIds /\ \A j \in DOMAIN images' : images'[j] \in Images
    BY <2>1 DEF UploadImage, TablesOK, Images
  <2> QED BY <2>1, <2>2 DEF UploadImage, TablesOK, CommunityDataTypeOK, communityVars, serviceVars
<1>2. CASE \E g \in Groups, u \in Users : AddMember(g, u) \/ RemoveMember(g, u)
  BY <1>2 DEF AddMember, RemoveMember, TablesOK, CommunityDataTypeOK, serviceVars, postVars
<1>3. CASE Meanwhile
  <2>1. clock' \in 0 .. MaxClock /\ paid' \subseteq Users
    BY <1>3, CommunityAssumption DEF Meanwhile, Tick, PlanChanges, TablesOK, CommunityDataTypeOK
  <2> QED BY <1>3, <2>1 DEF Meanwhile, Tick, PlanChanges, TablesOK, CommunityDataTypeOK, serviceVars, postVars
<1> QED BY <1>1, <1>2, <1>3

(* Every step of the community keeps the tables.                            *)
LEMMA TablesStep ==
    ASSUME TablesOK, PostsNext \/ Meanwhile
    PROVE  TablesOK'
  BY BeginTables, InsertPostTables, InsertCommentTables, WritesTables, GroupTables, OtherTables DEF PostsNext

-----------------------------------------------------------------------------
(* The quota of the free plan.  A post that counts against it was admitted  *)
(* by a handler that found room in its month, or in an earlier month when   *)
(* the month turned before the insert.                                      *)

Counting(u) == {h \in Handlers : call[h].op = "createPost" /\ call[h].counted /\ call[h].by = u}

OfMonth(u, month) ==
    {p \in free \cap DOMAIN posts :
       Kept(p) /\ posts[p].author = u /\ posts[p].at \div MonthLength = month}

ThePresentMonth == clock \div MonthLength

FreeLimit == FreePostsPerMonth + Cardinality(Handlers) - 1

QuotaOK ==
    /\ \A p \in free : p \in DOMAIN posts /\ ~IsGroup(posts[p].place)
    /\ \A p \in DOMAIN posts : posts[p].at <= clock
    /\ \A h \in Handlers : call[h].op = "createPost" => ~IsGroup(call[h].place)
    /\ \A u \in Users, month \in Nat :
         /\ Cardinality(OfMonth(u, month)) <= FreeLimit
         /\ month >= ThePresentMonth =>
              Cardinality(OfMonth(u, month)) + Cardinality(Counting(u)) <= FreeLimit

LEMMA MonthsGoOn ==
    ASSUME NEW a \in Nat, NEW b \in Nat, a <= b
    PROVE  /\ a \div MonthLength \in Nat /\ b \div MonthLength \in Nat
           /\ a \div MonthLength <= b \div MonthLength
  BY PostsAssumption, Z3

LEMMA CountsAreNumbers ==
    ASSUME TablesOK, NEW u, NEW month
    PROVE  /\ IsFiniteSet(OfMonth(u, month)) /\ Cardinality(OfMonth(u, month)) \in Nat
           /\ Cardinality(Counting(u)) \in Nat /\ Cardinality(Counting(u)) <= Cardinality(Handlers)
           /\ IsFiniteSet(Counting(u)) /\ Cardinality(Handlers) \in Nat /\ Cardinality(Handlers) > 0
           /\ FreeLimit \in Nat /\ FreeLimit = FreePostsPerMonth + Cardinality(Handlers) - 1
<1>1. IsFiniteSet(OfMonth(u, month))
  BY FS_Subset DEF TablesOK, OfMonth
<1>2. Counting(u) \in SUBSET Handlers
  BY DEF Counting
<1>3. Cardinality(Handlers) \in Nat /\ Cardinality(Handlers) # 0
  BY FS_CardinalityType, FS_EmptySet, HandlersAssumption
<1>4. FreeLimit \in Nat
  BY <1>3, PostsAssumption DEF FreeLimit
<1> QED BY <1>1, <1>2, <1>3, <1>4, FS_CardinalityType, FS_Subset, HandlersAssumption DEF FreeLimit

(* Steps that count nobody in: time goes on, posts go, handlers are done.   *)
LEMMA QuotaShrinks ==
    ASSUME TablesOK, TablesOK', QuotaOK, clock <= clock',
           \A u \in Users, month \in Nat : OfMonth(u, month)' \subseteq OfMonth(u, month),
           \A u \in Users : Counting(u)' \subseteq Counting(u),
           \A p \in free' : p \in DOMAIN posts' /\ ~IsGroup(posts'[p].place),
           \A p \in DOMAIN posts' : posts'[p].at <= clock',
           \A h \in Handlers : call'[h].op = "createPost" => ~IsGroup(call'[h].place)
    PROVE  QuotaOK'
<1>1. ThePresentMonth \in Nat /\ ThePresentMonth' \in Nat /\ ThePresentMonth <= ThePresentMonth'
  BY MonthsGoOn DEF ThePresentMonth, TablesOK, CommunityDataTypeOK
<1>2. FreeLimit' = FreeLimit
  BY DEF FreeLimit
<1>3. ASSUME NEW u \in Users, NEW month \in Nat
      PROVE  /\ Cardinality(OfMonth(u, month)') <= FreeLimit
             /\ month >= ThePresentMonth' =>
                  Cardinality(OfMonth(u, month)') + Cardinality(Counting(u)') <= FreeLimit
  <2>1. Cardinality(OfMonth(u, month)') \in Nat /\ Cardinality(OfMonth(u, month)') <= Cardinality(OfMonth(u, month))
    BY CountsAreNumbers, FS_Subset, FS_CardinalityType
  <2>2. Cardinality(Counting(u)') \in Nat /\ Cardinality(Counting(u)') <= Cardinality(Counting(u))
    BY CountsAreNumbers, FS_Subset, FS_CardinalityType
  <2>3. /\ Cardinality(OfMonth(u, month)) <= FreeLimit
        /\ month >= ThePresentMonth => Cardinality(OfMonth(u, month)) + Cardinality(Counting(u)) <= FreeLimit
    BY DEF QuotaOK
  <2>4. FreeLimit \in Nat /\ Cardinality(OfMonth(u, month)) \in Nat /\ Cardinality(Counting(u)) \in Nat
    BY CountsAreNumbers
  <2> QED BY <1>1, <2>1, <2>2, <2>3, <2>4
<1> QED BY <1>2, <1>3 DEF QuotaOK, IsGroup

(* A handler that begins: it counts itself in only below the limit of the  *)
(* present month, and a later month has no posts yet.                       *)
LEMMA BeginQuota ==
    ASSUME TablesOK, TablesOK', QuotaOK, NEW h \in Handlers, NEW r \in Requests, Begin(h, r)
    PROVE  QuotaOK'
<1>1. /\ clock' = clock /\ posts' = posts /\ free' = free /\ call' = [call EXCEPT ![h] = r]
      /\ DOMAIN call = Handlers /\ Accepted(r)
  BY DEF Begin, Takes, communityVars, postVars, TablesOK
<1>2. \A u \in Users, month \in Nat : OfMonth(u, month)' = OfMonth(u, month)
  BY <1>1 DEF OfMonth, Kept
<1>3. r.op = "createPost" => MayPost(r) /\ r.by \in Users /\ r.counted \in BOOLEAN
  <2>1. r.op = "createPost" => MayPost(r)
    BY <1>1 DEF Accepted
  <2> QED BY <2>1, CallOK
<1>4. \A k \in Handlers : call'[k].op = "createPost" => ~IsGroup(call'[k].place)
  BY <1>1, <1>3 DEF QuotaOK, MayPost
<1>5. CASE ~(r.op = "createPost" /\ r.counted)
  <2>1. \A u \in Users : Counting(u)' \subseteq Counting(u)
    BY <1>1, <1>5 DEF Counting
  <2> QED BY <1>1, <1>2, <1>4, <2>1, QuotaShrinks DEF QuotaOK, TablesOK, CommunityDataTypeOK
<1>6. CASE r.op = "createPost" /\ r.counted
  <2>1. Cardinality(PostsThisMonth(r.by)) < FreePostsPerMonth /\ FreePostsPerMonth \in Nat
    BY <1>3, <1>6, PostsAssumption DEF MayPost
  <2>2. IsFiniteSet(PostsThisMonth(r.by)) /\ Cardinality(PostsThisMonth(r.by)) \in Nat
    BY FS_Subset, FS_CardinalityType DEF PostsThisMonth, TablesOK
  <2>3. \A u \in Users : u # r.by => Counting(u)' = Counting(u)
    BY <1>1, <1>6 DEF Counting, Begin, Takes, Idle
  <2>4. ASSUME NEW month \in Nat, month >= ThePresentMonth
        PROVE  Cardinality(OfMonth(r.by, month)) < FreePostsPerMonth
    <3>1. CASE month = ThePresentMonth
      <4>1. OfMonth(r.by, month) \subseteq PostsThisMonth(r.by)
        BY <3>1 DEF OfMonth, PostsThisMonth, ThePresentMonth, ThisMonth, QuotaOK
      <4> QED BY <4>1, <2>1, <2>2, FS_Subset, CountsAreNumbers
    <3>2. CASE month > ThePresentMonth
      <4>1. \A p \in DOMAIN posts : posts[p].at \div MonthLength <= ThePresentMonth /\ posts[p].at \div MonthLength \in Nat
        BY MonthsGoOn DEF ThePresentMonth, QuotaOK, TablesOK, CommunityDataTypeOK, PostRecord
      <4>2. ThePresentMonth \in Nat
        BY MonthsGoOn DEF ThePresentMonth, TablesOK, CommunityDataTypeOK
      <4>3. OfMonth(r.by, month) = {}
        BY <3>2, <4>1, <4>2 DEF OfMonth
      <4> QED BY <4>3, <2>1, <2>2, FS_EmptySet
    <3>3. ThePresentMonth \in Nat
      BY MonthsGoOn DEF ThePresentMonth, TablesOK, CommunityDataTypeOK
    <3> QED BY <2>4, <3>1, <3>2, <3>3
  <2>5. /\ ThePresentMonth' = ThePresentMonth /\ FreeLimit' = FreeLimit
        /\ \A u \in Users, month \in Nat : Cardinality(OfMonth(u, month)') = Cardinality(OfMonth(u, month))
    BY <1>1, <1>2 DEF ThePresentMonth, FreeLimit
  <2>6. ASSUME NEW u \in Users, NEW month \in Nat
        PROVE  /\ Cardinality(OfMonth(u, month)) <= FreeLimit
               /\ month >= ThePresentMonth =>
                    Cardinality(OfMonth(u, month)) + Cardinality(Counting(u)') <= FreeLimit
    <3>1. CASE u # r.by
      BY <3>1, <2>3 DEF QuotaOK
    <3>2. CASE u = r.by
      <4>1. Cardinality(Counting(u)') \in Nat /\ Cardinality(Counting(u)') <= Cardinality(Handlers)
        <5>1. Counting(u)' \in SUBSET Handlers
          BY DEF Counting
        <5> QED BY <5>1, HandlersAssumption, FS_Subset, FS_CardinalityType
      <4>2. month >= ThePresentMonth => Cardinality(OfMonth(u, month)) < FreePostsPerMonth
        BY <3>2, <2>4
      <4>3. /\ Cardinality(Handlers) \in Nat /\ FreeLimit = FreePostsPerMonth + Cardinality(Handlers) - 1
            /\ Cardinality(OfMonth(u, month)) \in Nat
        BY CountsAreNumbers
      <4> QED BY <4>1, <4>2, <4>3, <2>1 DEF QuotaOK
    <3> QED BY <3>1, <3>2
  <2>7. /\ \A p \in free' : p \in DOMAIN posts' /\ ~IsGroup(posts'[p].place)
        /\ \A p \in DOMAIN posts' : posts'[p].at <= clock'
    BY <1>1 DEF QuotaOK
  <2> QED BY <1>4, <2>5, <2>6, <2>7 DEF QuotaOK, IsGroup
<1> QED BY <1>5, <1>6

(* The insert of a counted post: one handler less, one post more.           *)
LEMMA InsertPostQuota ==
    ASSUME TablesOK, TablesOK', QuotaOK, NEW h \in Handlers, InsertPost(h)
    PROVE  QuotaOK'
<1>1. PICK p \in {q \in PostIds : <<"post", q>> \notin made} :
        /\ posts' = [q \in DOMAIN posts \cup {p} |->
                       IF q = p THEN [place |-> call[h].place, author |-> call[h].by, at |-> clock,
                                      published |-> TRUE, deleted |-> FALSE]
                       ELSE posts[q]]
        /\ free' = IF call[h].op = "createPost" /\ call[h].counted THEN free \cup {p} ELSE free
  BY DEF InsertPost
<1>2. PICK r : r = call[h]
  OBVIOUS
<1>3. /\ call' = [call EXCEPT ![h] = Idle] /\ DOMAIN call = Handlers /\ clock' = clock /\ clock \in Nat
      /\ r.op \in {"createPost", "createGroupPost", "createPostAsAdmin"} /\ r.by \in Users
      /\ r.op = "createPost" => r.counted \in BOOLEAN /\ ~IsGroup(r.place)
  BY <1>2, CallOK DEF InsertPost, Ends, TablesOK, CommunityDataTypeOK, QuotaOK
<1>4. p \notin DOMAIN posts /\ p \notin free
  BY <1>1 DEF TablesOK, QuotaOK
<1>5. /\ DOMAIN posts' = DOMAIN posts \cup {p} /\ \A q \in DOMAIN posts : posts'[q] = posts[q]
      /\ posts'[p] = [place |-> r.place, author |-> r.by, at |-> clock, published |-> TRUE, deleted |-> FALSE]
  BY <1>1, <1>2, <1>4
<1>6. /\ \A q \in free' : q \in DOMAIN posts' /\ ~IsGroup(posts'[q].place)
      /\ \A q \in DOMAIN posts' : posts'[q].at <= clock'
      /\ \A k \in Handlers : call'[k].op = "createPost" => ~IsGroup(call'[k].place)
  BY <1>1, <1>2, <1>3, <1>5 DEF QuotaOK, Idle
<1>7. \A u \in Users : Counting(u)' = Counting(u) \ {h}
  BY <1>3 DEF Counting, Idle
<1>8. CASE ~(r.op = "createPost" /\ r.counted)
  <2>1. \A u \in Users, month \in Nat : OfMonth(u, month)' \subseteq OfMonth(u, month)
    BY <1>1, <1>2, <1>4, <1>5, <1>8 DEF OfMonth, Kept
  <2> QED BY <1>3, <1>6, <1>7, <2>1, QuotaShrinks
<1>9. CASE r.op = "createPost" /\ r.counted
  <2>1. h \in Counting(r.by) /\ \A u \in Users : u # r.by => h \notin Counting(u)
    BY <1>2, <1>9 DEF Counting
  <2>2. ASSUME NEW u \in Users, NEW month \in Nat
        PROVE  OfMonth(u, month)' = IF u = r.by /\ month = ThePresentMonth THEN OfMonth(u, month) \cup {p}
                                    ELSE OfMonth(u, month)
    <3>1. free' = free \cup {p}
      BY <1>1, <1>2, <1>9
    <3>2. p \in OfMonth(u, month)' <=> u = r.by /\ month = ThePresentMonth
      BY <3>1, <1>5 DEF OfMonth, Kept, ThePresentMonth
    <3>3. p \notin OfMonth(u, month)
      BY <1>4 DEF OfMonth
    <3>4. \A q : q # p => (q \in OfMonth(u, month)' <=> q \in OfMonth(u, month))
      BY <3>1, <1>5 DEF OfMonth, Kept
    <3> QED BY <3>2, <3>3, <3>4
  <2>3. ThePresentMonth' = ThePresentMonth /\ FreeLimit' = FreeLimit
    BY <1>3 DEF ThePresentMonth, FreeLimit
  <2>4. ASSUME NEW u \in Users, NEW month \in Nat
        PROVE  /\ Cardinality(OfMonth(u, month)') <= FreeLimit
               /\ month >= ThePresentMonth =>
                    Cardinality(OfMonth(u, month)') + Cardinality(Counting(u)') <= FreeLimit
    <3>1. /\ IsFiniteSet(OfMonth(u, month)) /\ Cardinality(OfMonth(u, month)) \in Nat
          /\ IsFiniteSet(Counting(u)) /\ Cardinality(Counting(u)) \in Nat /\ FreeLimit \in Nat
      BY CountsAreNumbers
    <3>2. /\ Cardinality(OfMonth(u, month)) <= FreeLimit
          /\ month >= ThePresentMonth => Cardinality(OfMonth(u, month)) + Cardinality(Counting(u)) <= FreeLimit
      BY DEF QuotaOK
    <3>3. CASE u = r.by
      <4>1. Cardinality(Counting(u)') = Cardinality(Counting(u)) - 1 /\ Cardinality(Counting(u)') \in Nat
        <5>1. h \in Counting(u) /\ Counting(u)' = Counting(u) \ {h}
          BY <1>7, <2>1, <3>3
        <5>2. /\ Cardinality(Counting(u) \ {h}) = Cardinality(Counting(u)) - 1
              /\ IsFiniteSet(Counting(u) \ {h})
          BY <5>1, <3>1, FS_RemoveElement
        <5> QED BY <5>1, <5>2, FS_CardinalityType
      <4>2. /\ Cardinality(OfMonth(u, month)') \in Nat
            /\ Cardinality(OfMonth(u, month)') <= Cardinality(OfMonth(u, month)) + 1
            /\ month # ThePresentMonth => Cardinality(OfMonth(u, month)') = Cardinality(OfMonth(u, month))
        <5>1. CASE month = ThePresentMonth
          <6>1. OfMonth(u, month)' = OfMonth(u, month) \cup {p}
            BY <5>1, <2>2, <3>3
          <6>2. /\ IsFiniteSet(OfMonth(u, month) \cup {p})
                /\ Cardinality(OfMonth(u, month) \cup {p})
                     = IF p \in OfMonth(u, month) THEN Cardinality(OfMonth(u, month))
                       ELSE Cardinality(OfMonth(u, month)) + 1
            BY <3>1, FS_AddElement, Zenon
          <6> QED BY <3>1, <5>1, <6>1, <6>2, FS_CardinalityType
        <5>2. CASE month # ThePresentMonth
          BY <5>2, <2>2, <3>1
        <5> QED BY <5>1, <5>2
      <4>3. ThePresentMonth \in Nat
        BY <1>3, MonthsGoOn DEF ThePresentMonth
      <4> QED BY <3>1, <3>2, <4>1, <4>2, <4>3
    <3>4. CASE u # r.by
      <4>1. OfMonth(u, month)' = OfMonth(u, month) /\ Counting(u)' = Counting(u)
        BY <3>4, <1>7, <2>1, <2>2
      <4> QED BY <4>1, <3>2
    <3> QED BY <3>3, <3>4
  <2> QED BY <1>6, <2>3, <2>4 DEF QuotaOK, IsGroup
<1> QED BY <1>8, <1>9

(* The steps that insert no post                                            *)
LEMMA NoPostQuota ==
    ASSUME TablesOK, TablesOK', QuotaOK, clock <= clock', UNCHANGED free,
           DOMAIN posts' \subseteq DOMAIN posts,
           \A p \in DOMAIN posts \ DOMAIN posts' : IsGroup(posts[p].place),
           \A p \in DOMAIN posts' :
              /\ posts'[p].place = posts[p].place /\ posts'[p].author = posts[p].author
              /\ posts'[p].at = posts[p].at /\ (posts[p].deleted => posts'[p].deleted),
           \A h \in Handlers : call'[h] = call[h] \/ call'[h] = Idle
    PROVE  QuotaOK'
<1>1. ASSUME NEW u \in Users, NEW month \in Nat PROVE OfMonth(u, month)' \subseteq OfMonth(u, month)
  BY DEF OfMonth, Kept, TablesOK, CommunityDataTypeOK, PostRecord
<1>2. \A u \in Users : Counting(u)' \subseteq Counting(u)
  BY DEF Counting, Idle
<1>3. \A p \in free' : p \in DOMAIN posts' /\ ~IsGroup(posts'[p].place)
  BY DEF QuotaOK
<1>4. \A p \in DOMAIN posts' : posts'[p].at <= clock'
  BY DEF QuotaOK, TablesOK, CommunityDataTypeOK, PostRecord
<1>5. \A h \in Handlers : call'[h].op = "createPost" => ~IsGroup(call'[h].place)
  BY DEF QuotaOK, Idle
<1> QED BY <1>1, <1>2, <1>3, <1>4, <1>5, QuotaShrinks

LEMMA QuotaStep ==
    ASSUME TablesOK, TablesOK', QuotaOK, PostsNext \/ Meanwhile
    PROVE  QuotaOK'
<1> USE DEF TablesOK, CommunityDataTypeOK
<1>0. clock \in Nat /\ clock' \in Nat /\ DOMAIN call = Handlers
  OBVIOUS
<1>1. ASSUME NEW h \in Handlers, NEW r \in Requests, Begin(h, r) PROVE QuotaOK'
  BY <1>1, BeginQuota
<1>2. ASSUME NEW h \in Handlers, InsertPost(h) PROVE QuotaOK'
  BY <1>2, InsertPostQuota
<1>3. ASSUME NEW h \in Handlers,
             \/ InsertComment(h) \/ RemoveComment(h)
             \/ SetReaction(h) \/ RemoveReaction(h) \/ AttachImages(h) \/ WriteFails(h)
      PROVE  QuotaOK'
  <2>1. UNCHANGED <<clock, posts, free>> /\ call' = [call EXCEPT ![h] = Idle]
    BY <1>3 DEF InsertComment, RemoveComment, SetReaction, RemoveReaction, AttachImages, WriteFails,
                Ends, communityVars, postVars
  <2> QED BY <1>0, <2>1, NoPostQuota
<1>4. ASSUME NEW h \in Handlers, RemovePost(h) \/ SetStatus(h) PROVE QuotaOK'
  <2>1. /\ UNCHANGED <<clock, free>> /\ call' = [call EXCEPT ![h] = Idle]
        /\ DOMAIN posts' = DOMAIN posts
        /\ \A p \in DOMAIN posts' :
              /\ posts'[p].place = posts[p].place /\ posts'[p].author = posts[p].author
              /\ posts'[p].at = posts[p].at /\ (posts[p].deleted => posts'[p].deleted)
    BY <1>4 DEF RemovePost, SetStatus, Ends, PostRecord
  <2> QED BY <1>0, <2>1, NoPostQuota
<1>5. ASSUME NEW g \in Groups, DeleteGroup(g) PROVE QuotaOK'
  <2>1. /\ UNCHANGED <<clock, free, call>> /\ DOMAIN posts' \subseteq DOMAIN posts
        /\ \A p \in DOMAIN posts \ DOMAIN posts' : IsGroup(posts[p].place)
        /\ \A p \in DOMAIN posts' : posts'[p] = posts[p]
    BY <1>5 DEF DeleteGroup, Without, IsGroup, serviceVars, postVars
  <2> QED BY <1>0, <2>1, NoPostQuota
<1>6. ASSUME \/ \E u \in Users, i \in ImageIds : UploadImage(u, i)
             \/ \E g \in Groups : SetGroupActive(g)
             \/ \E g \in Groups, u \in Users : AddMember(g, u) \/ RemoveMember(g, u)
             \/ Meanwhile
      PROVE  QuotaOK'
  <2>1. UNCHANGED <<posts, free, call>>
    BY <1>6 DEF UploadImage, SetGroupActive, AddMember, RemoveMember, Meanwhile, Tick, PlanChanges,
                communityVars, serviceVars, postVars
  <2>2. clock' = clock \/ clock' = clock + 1
    BY <1>6 DEF UploadImage, SetGroupActive, AddMember, RemoveMember, Meanwhile, Tick, PlanChanges, communityVars
  <2>3. clock <= clock'
    BY <1>0, <2>2
  <2> QED BY <1>0, <2>1, <2>3, NoPostQuota
<1> QED BY <1>1, <1>2, <1>3, <1>4, <1>5, <1>6 DEF PostsNext

LEMMA QuotaInit == TablesOK /\ CommunityDataInit /\ PostsInit => QuotaOK
<1> SUFFICES ASSUME TablesOK, CommunityDataInit, PostsInit PROVE QuotaOK
  OBVIOUS
<1>1. ASSUME NEW u \in Users, NEW month \in Nat
      PROVE  Cardinality(OfMonth(u, month)) = 0 /\ Cardinality(Counting(u)) = 0
  <2>1. OfMonth(u, month) = {} /\ Counting(u) = {}
    BY DEF OfMonth, Counting, PostsInit, CommunityDataInit, ServiceInit, Idle
  <2> QED BY <2>1, FS_EmptySet
<1>2. FreeLimit \in Nat
  BY CountsAreNumbers
<1>3. /\ free = {} /\ DOMAIN posts = {} /\ \A h \in Handlers : call[h] = Idle
  BY DEF PostsInit, CommunityDataInit, ServiceInit
<1> QED BY <1>1, <1>2, <1>3 DEF QuotaOK, Idle

-----------------------------------------------------------------------------
(* The images of a post.  What a user's handlers attach, together with what *)
(* is attached already, is no more than the limit for each handler.         *)

(* The union of the sets of n handlers, each of at most m elements, has at  *)
(* most m * n: the least number of handlers with a larger union has one     *)
(* that can be left out.                                                    *)
LEMMA UnionBound ==
    ASSUME NEW f, NEW m \in Nat, NEW H \in SUBSET Handlers,
           \A h \in H : IsFiniteSet(f[h]) /\ Cardinality(f[h]) <= m
    PROVE  /\ IsFiniteSet(UNION {f[h] : h \in H})
           /\ Cardinality(UNION {f[h] : h \in H}) <= m * Cardinality(H)
<1> DEFINE All(S) == UNION {f[h] : h \in S}
           Small(S) == IsFiniteSet(All(S)) /\ Cardinality(All(S)) <= m * Cardinality(S)
           T == {n \in Nat : \E S \in SUBSET H : ~Small(S) /\ Cardinality(S) = n}
<1>1. SUFFICES ASSUME ~Small(H) PROVE FALSE
  OBVIOUS
<1>2. \A S \in SUBSET H : IsFiniteSet(S) /\ Cardinality(S) \in Nat
  BY FewHandlers
<1>3. T \subseteq Nat /\ T # {}
  <2>1. Cardinality(H) \in T
    BY <1>1, <1>2
  <2> QED BY <2>1
<1>4. PICK n \in T : \A k \in T : n <= k
  <2> HIDE DEF T
  <2> QED BY <1>3, LeastNumber
<1>5. PICK S \in SUBSET H : ~Small(S) /\ Cardinality(S) = n
  BY <1>4
<1>6. PICK h : h \in S
  <2>1. SUFFICES ASSUME S = {} PROVE Small(S)
    BY <1>5
  <2>2. PICK X : X = All(S) /\ X = {}
    BY <2>1
  <2>3. IsFiniteSet(X) /\ Cardinality(X) = 0
    BY <2>2, FS_EmptySet
  <2>4. Cardinality(S) = 0
    BY <2>1, FS_EmptySet
  <2>5. m * 0 = 0
    OBVIOUS
  <2> QED BY <2>2, <2>3, <2>4, <2>5
<1>7. Cardinality(S \ {h}) = n - 1 /\ n - 1 \in Nat /\ n \in Nat
  <2>1. IsFiniteSet(S)
    BY <1>2
  <2>2. Cardinality(S \ {h}) = Cardinality(S) - 1
    BY <1>6, <2>1, FS_RemoveElement
  <2>3. Cardinality(S \ {h}) \in Nat
    BY <1>2
  <2> QED BY <1>4, <1>5, <2>2, <2>3
<1>8. Small(S \ {h})
  <2>1. SUFFICES ASSUME ~Small(S \ {h}) PROVE FALSE
    OBVIOUS
  <2>2. n - 1 \in T
    BY <1>7, <2>1
  <2>3. n <= n - 1
    <3> HIDE DEF T
    <3> QED BY <1>4, <2>2
  <2> QED BY <1>7, <2>3
<1>9. All(S) = All(S \ {h}) \cup f[h]
  BY <1>6
<1> DEFINE A == All(S \ {h})
           B == f[h]
<1>10. /\ IsFiniteSet(A) /\ Cardinality(A) <= m * (n - 1) /\ IsFiniteSet(B) /\ Cardinality(B) <= m
  BY <1>6, <1>7, <1>8
<1>11. /\ IsFiniteSet(A \cup B) /\ Cardinality(A \cup B) <= Cardinality(A) + Cardinality(B)
       /\ Cardinality(A) \in Nat /\ Cardinality(B) \in Nat /\ Cardinality(A \cup B) \in Nat
  <2> HIDE DEF A, B
  <2>1. Cardinality(A \cup B) = Cardinality(A) + Cardinality(B) - Cardinality(A \cap B) /\ IsFiniteSet(A \cup B)
    BY <1>10, FS_Union
  <2>2. Cardinality(A \cap B) \in Nat
    BY <1>10, FS_Intersection, FS_CardinalityType
  <2> QED BY <1>10, <2>1, <2>2, FS_CardinalityType
<1>12. m * (n - 1) = m * n - m /\ m * n \in Nat
  BY <1>7
<1>13. IsFiniteSet(A \cup B) /\ Cardinality(A \cup B) <= m * n
  <2> HIDE DEF A, B
  <2>1. PICK x \in Nat : x = m * n
    BY <1>12
  <2> QED BY <1>10, <1>11, <1>12, <2>1
<1> QED BY <1>5, <1>9, <1>13

Attached(u, p) == {i \in DOMAIN images : images[i] = [owner |-> u, entity |-> p]}

Attaching(u, p) == {h \in Handlers : call[h].op = "associate" /\ call[h].by = u /\ call[h].post = p}

(* The images there and the images on their way                             *)
Gathered(u, p) == Attached(u, p) \cup UNION {call[h].images : h \in Attaching(u, p)}

ImageLimit == MaxImagesPerEntity * Cardinality(Handlers)

ImagesOK ==
    /\ IsFiniteSet(DOMAIN images)
    /\ \A h \in Handlers : call[h].op = "associate" =>
         /\ Cardinality(call[h].images) <= MaxImagesPerEntity
         /\ \A i \in call[h].images : i \in DOMAIN images /\ images[i].owner = call[h].by
    /\ \A u \in Users, p \in PostIds : Cardinality(Gathered(u, p)) <= ImageLimit

LEMMA GatheredIsFinite ==
    ASSUME ImagesOK, NEW u, NEW p
    PROVE  /\ Gathered(u, p) \subseteq DOMAIN images
           /\ IsFiniteSet(Gathered(u, p)) /\ Cardinality(Gathered(u, p)) \in Nat
<1>1. Gathered(u, p) \subseteq DOMAIN images
  BY DEF ImagesOK, Gathered, Attached, Attaching
<1> QED BY <1>1, FS_Subset, FS_CardinalityType DEF ImagesOK

LEMMA ImagesShrink ==
    ASSUME ImagesOK, IsFiniteSet(DOMAIN images'),
           \A h \in Handlers : call'[h].op = "associate" =>
              /\ Cardinality(call'[h].images) <= MaxImagesPerEntity
              /\ \A i \in call'[h].images : i \in DOMAIN images' /\ images'[i].owner = call'[h].by,
           \A u \in Users, p \in PostIds : Gathered(u, p)' \subseteq Gathered(u, p)
    PROVE  ImagesOK'
<1>1. ASSUME NEW u \in Users, NEW p \in PostIds PROVE Cardinality(Gathered(u, p)') <= ImageLimit
  <2>1. IsFiniteSet(Gathered(u, p)) /\ Cardinality(Gathered(u, p)) \in Nat /\ Cardinality(Gathered(u, p)) <= ImageLimit
    BY GatheredIsFinite DEF ImagesOK
  <2>2. IsFiniteSet(Gathered(u, p)') /\ Cardinality(Gathered(u, p)') <= Cardinality(Gathered(u, p))
    BY <2>1, FS_Subset
  <2>3. Cardinality(Gathered(u, p)') \in Nat
    BY <2>2, FS_CardinalityType
  <2>4. ImageLimit \in Nat
    BY PostsAssumption, HandlersAssumption, FS_CardinalityType DEF ImageLimit
  <2> QED BY <2>1, <2>2, <2>3, <2>4
<1>2. ImageLimit' = ImageLimit
  BY DEF ImageLimit
<1> QED BY <1>1, <1>2 DEF ImagesOK

(* A handler that begins to attach images counted those that are there.     *)
LEMMA BeginImages ==
    ASSUME TablesOK, ImagesOK, NEW h \in Handlers, NEW r \in Requests, Begin(h, r)
    PROVE  ImagesOK'
<1>1. /\ images' = images /\ call' = [call EXCEPT ![h] = r] /\ DOMAIN call = Handlers
      /\ call[h] = Idle /\ Accepted(r)
  BY DEF Begin, Takes, postVars, TablesOK
<1>2. \A u, p : Attached(u, p)' = Attached(u, p)
  BY <1>1 DEF Attached
<1>3. CASE r.op # "associate"
  <2>1. \A u, p : Attaching(u, p)' = Attaching(u, p) /\ \A k \in Attaching(u, p) : call'[k] = call[k]
    BY <1>1, <1>3 DEF Attaching, Idle
  <2>2. \A u, p : Gathered(u, p)' = Gathered(u, p)
    BY <1>2, <2>1 DEF Gathered
  <2> QED BY <1>1, <1>3, <2>2, ImagesShrink DEF ImagesOK
<1>4. CASE r.op = "associate"
  <2> DEFINE there == Attached(r.by, r.post)
             others == Attaching(r.by, r.post)
             f == [k \in Handlers |-> call[k].images]
             rest == UNION {f[k] : k \in others}
  <2>1. /\ \A i \in r.images : i \in DOMAIN images /\ images[i].owner = r.by
        /\ Cardinality(there) + Cardinality(r.images \ there) <= MaxImagesPerEntity
        /\ r.by \in Users /\ r.post \in PostIds
    <3>1. MayAssociate(r)
      BY <1>1, <1>4 DEF Accepted
    <3> QED BY <3>1, <1>4, CallOK DEF MayAssociate, Attached
  <2>2. MaxImagesPerEntity \in Nat /\ Cardinality(Handlers) \in Nat
    BY PostsAssumption, HandlersAssumption, FS_CardinalityType
  <2>3. /\ IsFiniteSet(there) /\ IsFiniteSet(r.images) /\ IsFiniteSet(r.images \ there)
        /\ Cardinality(there) \in Nat /\ Cardinality(r.images \ there) \in Nat
    <3>1. there \subseteq DOMAIN images /\ r.images \subseteq DOMAIN images /\ r.images \ there \subseteq DOMAIN images
      BY <2>1 DEF Attached
    <3> HIDE DEF there
    <3> QED BY <3>1, FS_Subset, FS_CardinalityType DEF ImagesOK
  <2>4. /\ IsFiniteSet(there \cup r.images) /\ Cardinality(there \cup r.images) \in Nat
        /\ Cardinality(there \cup r.images) <= MaxImagesPerEntity
    <3> DEFINE new == r.images \ there
    <3>1. there \cup r.images = there \cup new /\ there \cap new = {}
      OBVIOUS
    <3>2. /\ Cardinality(there) + Cardinality(new) <= MaxImagesPerEntity /\ IsFiniteSet(there) /\ IsFiniteSet(new)
          /\ Cardinality(there) \in Nat /\ Cardinality(new) \in Nat
      BY <2>1, <2>3
    <3> HIDE DEF there, new
    <3>3. /\ IsFiniteSet(there \cup new)
          /\ Cardinality(there \cup new) = Cardinality(there) + Cardinality(new) - Cardinality({})
      BY <3>1, <3>2, FS_Union
    <3>4. Cardinality({}) = 0
      BY FS_EmptySet
    <3>5. IsFiniteSet(there \cup new) /\ Cardinality(there \cup new) = Cardinality(there) + Cardinality(new)
      BY <3>2, <3>3, <3>4
    <3>6. Cardinality(there \cup new) \in Nat /\ Cardinality(there \cup new) <= MaxImagesPerEntity
      BY <3>2, <3>5
    <3> QED BY <3>1, <3>5, <3>6
  <2>5. Cardinality(r.images) <= MaxImagesPerEntity
    <3> HIDE DEF there
    <3>1. Cardinality(r.images) <= Cardinality(there \cup r.images) /\ Cardinality(r.images) \in Nat
      BY <2>3, <2>4, FS_Subset, FS_CardinalityType
    <3> QED BY <2>2, <2>4, <3>1
  <2>6. IsFiniteSet(rest) /\ Cardinality(rest) <= MaxImagesPerEntity * Cardinality(others)
    <3>1. others \in SUBSET Handlers
      BY DEF Attaching
    <3>2. \A k \in others : f[k] = call[k].images /\ f[k] \subseteq DOMAIN images /\ Cardinality(f[k]) <= MaxImagesPerEntity
      BY DEF Attaching, ImagesOK
    <3>3. \A k \in others : IsFiniteSet(f[k]) /\ Cardinality(f[k]) <= MaxImagesPerEntity
      BY <3>2, FS_Subset DEF ImagesOK
    <3> HIDE DEF f, others
    <3> QED BY <2>2, <3>1, <3>3, UnionBound
  <2>7. Cardinality(others) \in Nat /\ Cardinality(others) <= Cardinality(Handlers) - 1
    <3>1. others \subseteq Handlers \ {h}
      BY <1>1 DEF Attaching, Idle
    <3>2. IsFiniteSet(Handlers \ {h}) /\ Cardinality(Handlers \ {h}) = Cardinality(Handlers) - 1
      BY HandlersAssumption, FS_RemoveElement
    <3> HIDE DEF others
    <3> QED BY <3>1, <3>2, FS_Subset, FS_CardinalityType
  <2>8. Gathered(r.by, r.post)' = (there \cup r.images) \cup rest
    <3>1. Attaching(r.by, r.post)' = others \cup {h} /\ h \notin others
      BY <1>1, <1>4 DEF Attaching, Idle
    <3>2. /\ \A k \in others : call'[k].images = f[k]
          /\ call'[h].images = r.images
      BY <1>1, <3>1 DEF Attaching
    <3>3. UNION {call'[k].images : k \in Attaching(r.by, r.post)'} = r.images \cup rest
      <4> HIDE DEF f, others
      <4> QED BY <3>1, <3>2
    <3>4. Gathered(r.by, r.post)'
            = Attached(r.by, r.post)' \cup UNION {call'[k].images : k \in Attaching(r.by, r.post)'}
      BY DEF Gathered
    <3> HIDE DEF rest
    <3> QED BY <1>2, <3>3, <3>4
  <2>9. Cardinality(Gathered(r.by, r.post)') <= ImageLimit
    <3> DEFINE A == there \cup r.images
    <3> HIDE DEF there, rest, A
    <3>1. /\ IsFiniteSet(A) /\ Cardinality(A) \in Nat /\ Cardinality(A) <= MaxImagesPerEntity
          /\ IsFiniteSet(rest) /\ Gathered(r.by, r.post)' = A \cup rest
      BY <2>4, <2>6, <2>8 DEF A
    <3>2. /\ Cardinality(A \cup rest) = Cardinality(A) + Cardinality(rest) - Cardinality(A \cap rest)
          /\ Cardinality(A \cap rest) \in Nat /\ Cardinality(rest) \in Nat
      BY <3>1, FS_Union, FS_Intersection, FS_CardinalityType
    <3>3. PICK m \in Nat, c \in Nat, n \in Nat :
            m = MaxImagesPerEntity /\ c = Cardinality(others) /\ n = Cardinality(Handlers)
      BY <2>2, <2>7
    <3>4. c <= n - 1 /\ m * c \in Nat /\ n - 1 \in Nat
      BY <2>7, <3>3
    <3>5. m * c <= m * (n - 1) /\ m * (n - 1) = m * n - m /\ m * n \in Nat
      BY <3>4, Z3
    <3>6. Cardinality(rest) <= m * c /\ ImageLimit = m * n
      BY <2>6, <3>3 DEF ImageLimit
    <3>7. PICK x \in Nat, y \in Nat : x = m * n /\ y = m * c
      BY <3>4, <3>5
    <3> QED BY <3>1, <3>2, <3>3, <3>5, <3>6, <3>7
  <2>10. ASSUME NEW u \in Users, NEW p \in PostIds PROVE Cardinality(Gathered(u, p)') <= ImageLimit
    <3>1. CASE u = r.by /\ p = r.post
      BY <3>1, <2>9
    <3>2. CASE ~(u = r.by /\ p = r.post)
      <4>1. Attaching(u, p)' = Attaching(u, p) /\ \A k \in Attaching(u, p) : call'[k] = call[k]
        BY <1>1, <3>2 DEF Attaching, Idle
      <4>2. Gathered(u, p)' = Gathered(u, p)
        BY <1>2, <4>1 DEF Gathered
      <4> QED BY <4>2 DEF ImagesOK
    <3> QED BY <3>1, <3>2
  <2>11. ImageLimit' = ImageLimit
    BY DEF ImageLimit
  <2>12. \A k \in Handlers : call'[k].op = "associate" =>
           /\ Cardinality(call'[k].images) <= MaxImagesPerEntity
           /\ \A i \in call'[k].images : i \in DOMAIN images' /\ images'[i].owner = call'[k].by
    BY <1>1, <2>1, <2>5 DEF ImagesOK
  <2> QED BY <1>1, <2>10, <2>11, <2>12 DEF ImagesOK
<1> QED BY <1>3, <1>4

LEMMA AttachImagesOK ==
    ASSUME TablesOK, ImagesOK, NEW h \in Handlers, AttachImages(h)
    PROVE  ImagesOK'
<1>1. PICK r : r = call[h]
  OBVIOUS
<1>2. /\ r.op = "associate" /\ call' = [call EXCEPT ![h] = Idle] /\ DOMAIN call = Handlers
      /\ r.by \in Users /\ r.post \in PostIds
      /\ \A i \in r.images : i \in DOMAIN images /\ images[i].owner = r.by
  BY <1>1, CallOK DEF AttachImages, Ends, TablesOK, ImagesOK
<1>3. /\ DOMAIN images' = DOMAIN images
      /\ \A i \in DOMAIN images :
           images'[i] = IF i \in r.images THEN [images[i] EXCEPT !.entity = r.post] ELSE images[i]
  BY <1>1 DEF AttachImages
<1>4. \A i \in DOMAIN images : images[i] \in Images
  BY DEF TablesOK
<1>5. \A i \in DOMAIN images : images'[i].owner = images[i].owner
  BY <1>3, <1>4 DEF Images
<1>6. ASSUME NEW u \in Users, NEW p \in PostIds PROVE Gathered(u, p)' \subseteq Gathered(u, p)
  <2>1. ASSUME NEW i \in Attached(u, p)' PROVE i \in Gathered(u, p)
    <3>1. CASE i \in r.images
      <4>1. u = r.by /\ p = r.post
        BY <3>1, <2>1, <1>2, <1>3, <1>4 DEF Attached, Images
      <4>2. h \in Attaching(u, p)
        BY <4>1, <1>1, <1>2 DEF Attaching
      <4> QED BY <4>2, <3>1, <1>1 DEF Gathered
    <3>2. CASE i \notin r.images
      BY <3>2, <2>1, <1>3 DEF Attached, Gathered
    <3> QED BY <3>1, <3>2
  <2>2. Attaching(u, p)' \subseteq Attaching(u, p) /\ \A k \in Attaching(u, p)' : call'[k] = call[k]
    BY <1>2 DEF Attaching, Idle
  <2>3. UNION {call'[k].images : k \in Attaching(u, p)'} \subseteq Gathered(u, p)
    BY <2>2 DEF Gathered
  <2> QED BY <2>1, <2>3 DEF Gathered
<1>7. \A k \in Handlers : call'[k].op = "associate" =>
        /\ Cardinality(call'[k].images) <= MaxImagesPerEntity
        /\ \A i \in call'[k].images : i \in DOMAIN images' /\ images'[i].owner = call'[k].by
  BY <1>2, <1>3, <1>5 DEF ImagesOK, Idle
<1>8. IsFiniteSet(DOMAIN images')
  BY <1>3 DEF ImagesOK
<1> QED BY <1>6, <1>7, <1>8, ImagesShrink

LEMMA UploadImageOK ==
    ASSUME TablesOK, ImagesOK, NEW u \in Users, NEW i \in ImageIds, UploadImage(u, i)
    PROVE  ImagesOK'
<1>1. /\ i \notin DOMAIN images /\ DOMAIN images' = DOMAIN images \cup {i} /\ call' = call
      /\ \A j \in DOMAIN images : images'[j] = images[j]
      /\ images'[i] = [owner |-> u, entity |-> 0]
  BY DEF UploadImage, serviceVars
<1>2. IsFiniteSet(DOMAIN images')
  BY <1>1, FS_AddElement DEF ImagesOK
<1>3. ASSUME NEW v \in Users, NEW p \in PostIds PROVE Gathered(v, p)' \subseteq Gathered(v, p)
  <2>1. p # 0
    BY CommunityAssumption
  <2>2. Attached(v, p)' = Attached(v, p)
    BY <1>1, <2>1 DEF Attached
  <2> QED BY <1>1, <2>2 DEF Gathered, Attaching
<1> QED BY <1>1, <1>2, <1>3, ImagesShrink DEF ImagesOK

LEMMA ImagesStep ==
    ASSUME TablesOK, ImagesOK, PostsNext \/ Meanwhile
    PROVE  ImagesOK'
<1>1. ASSUME UNCHANGED images, \A h \in Handlers : call'[h] = call[h] \/ call'[h] = Idle PROVE ImagesOK'
  <2>1. ASSUME NEW u \in Users, NEW p \in PostIds PROVE Gathered(u, p)' \subseteq Gathered(u, p)
    <3>1. Attached(u, p)' = Attached(u, p)
      BY <1>1 DEF Attached
    <3>2. Attaching(u, p)' \subseteq Attaching(u, p) /\ \A k \in Attaching(u, p)' : call'[k] = call[k]
      BY <1>1 DEF Attaching, Idle
    <3> QED BY <3>1, <3>2 DEF Gathered
  <2> QED BY <1>1, <2>1, ImagesShrink DEF ImagesOK, Idle
<1>2. DOMAIN call = Handlers
  BY DEF TablesOK
<1>3. ASSUME NEW h \in Handlers,
             \/ InsertPost(h) \/ InsertComment(h) \/ RemovePost(h) \/ SetStatus(h) \/ RemoveComment(h)
             \/ SetReaction(h) \/ RemoveReaction(h) \/ WriteFails(h)
      PROVE  ImagesOK'
  <2>1. UNCHANGED images /\ call' = [call EXCEPT ![h] = Idle]
    BY <1>3 DEF InsertPost, InsertComment, RemovePost, SetStatus, RemoveComment, SetReaction, RemoveReaction,
                WriteFails, Ends, postVars
  <2> QED BY <1>1, <1>2, <2>1
<1>4. ASSUME \/ \E g \in Groups : SetGroupActive(g) \/ DeleteGroup(g)
             \/ \E g \in Groups, u \in Users : AddMember(g, u) \/ RemoveMember(g, u)
             \/ Meanwhile
      PROVE  ImagesOK'
  <2>1. UNCHANGED <<images, call>>
    BY <1>4 DEF SetGroupActive, DeleteGroup, AddMember, RemoveMember, Meanwhile, Tick, PlanChanges, serviceVars, postVars
  <2> QED BY <1>1, <2>1
<1> QED BY <1>3, <1>4, BeginImages, AttachImagesOK, UploadImageOK DEF PostsNext

LEMMA ImagesInit == CommunityDataInit /\ PostsInit => ImagesOK
<1> SUFFICES ASSUME CommunityDataInit, PostsInit PROVE ImagesOK
  OBVIOUS
<1>1. DOMAIN images = {} /\ \A h \in Handlers : call[h] = Idle
  BY DEF PostsInit, CommunityDataInit, ServiceInit
<1>2. \A u, p : Gathered(u, p) = {}
  BY <1>1 DEF Gathered, Attached, Attaching, Idle
<1>3. ImageLimit \in Nat /\ IsFiniteSet(DOMAIN images)
  BY <1>1, PostsAssumption, HandlersAssumption, FS_CardinalityType, FS_EmptySet DEF ImageLimit
<1>4. \A u, p : Cardinality(Gathered(u, p)) = 0
  BY <1>2, FS_EmptySet
<1> QED BY <1>1, <1>3, <1>4 DEF ImagesOK, Idle

-----------------------------------------------------------------------------
(* The steps of the community, as the tables see them.                      *)

TableVars == <<communityVars, postVars, serviceVars>>

LEMMA StepKinds ==
    ASSUME [CommunityNext]_vars
    PROVE  PostsNext \/ Meanwhile \/ UNCHANGED TableVars
<1>1. CASE UNCHANGED vars
  BY <1>1 DEF vars, feedVars, TableVars
<1>2. CASE NoticesNext /\ UNCHANGED feedVars
  BY <1>2 DEF feedVars, TableVars
<1>3. CASE FeedNext
  <2>1. CASE \E u \in Users : OpenFeed(u)
    BY <2>1 DEF OpenFeed, TableVars
  <2>2. CASE GetFeed
    BY <2>2 DEF GetFeed, TableVars
  <2>3. CASE Others
    BY <2>3 DEF Others
  <2> QED BY <1>3, <2>1, <2>2, <2>3 DEF FeedNext
<1> QED BY <1>1, <1>2, <1>3 DEF CommunityNext

LEMMA TablesInvariance == CommunitySpec => []TablesOK
<1>1. Init => TablesOK
  BY TablesInit DEF Init, FeedInit
<1>2. TablesOK /\ [CommunityNext]_vars => TablesOK'
  BY StepKinds, TablesStep, TablesKept DEF TableVars
<1> QED BY <1>1, <1>2, PTL DEF CommunitySpec

LEMMA LimitsInvariance == CommunitySpec => [](QuotaOK /\ ImagesOK)
<1>1. Init => QuotaOK /\ ImagesOK
  BY TablesInit, QuotaInit, ImagesInit DEF Init, FeedInit
<1>2. TablesOK /\ TablesOK' /\ QuotaOK /\ ImagesOK /\ [CommunityNext]_vars => (QuotaOK /\ ImagesOK)'
  <2> SUFFICES ASSUME TablesOK, TablesOK', QuotaOK, ImagesOK, [CommunityNext]_vars PROVE QuotaOK' /\ ImagesOK'
    OBVIOUS
  <2>1. CASE PostsNext \/ Meanwhile
    BY <2>1, QuotaStep, ImagesStep
  <2>2. CASE UNCHANGED TableVars
    <3>1. UNCHANGED <<clock, posts, free, images, call>>
      BY <2>2 DEF TableVars, communityVars, postVars, serviceVars
    <3>2. \A u \in Users, month \in Nat : OfMonth(u, month)' = OfMonth(u, month) /\ Counting(u)' = Counting(u)
      BY <3>1 DEF OfMonth, Counting, Kept
    <3>3. \A u \in Users, p \in PostIds : Gathered(u, p)' = Gathered(u, p)
      BY <3>1 DEF Gathered, Attached, Attaching
    <3>4. QuotaOK'
      BY <3>1, <3>2, QuotaShrinks DEF QuotaOK, TablesOK, CommunityDataTypeOK
    <3>5. ImagesOK'
      BY <3>1, <3>3, ImagesShrink DEF ImagesOK
    <3> QED BY <3>4, <3>5
  <2> QED BY <2>1, <2>2, StepKinds
<1> QED BY <1>1, <1>2, TablesInvariance, PTL DEF CommunitySpec

(* No handler overruns a limit that it counted by more than the handlers    *)
(* beside it can: the monthly quota of the free plan, and the images of a   *)
(* post (CommunityService.createPost, CommunityImagesService.associate).    *)
THEOREM FeedLimits == CommunitySpec => []LimitsHoldUpToRaces
<1>1. TablesOK /\ QuotaOK /\ ImagesOK => LimitsHoldUpToRaces
  <2> SUFFICES ASSUME TablesOK, QuotaOK, ImagesOK PROVE LimitsHoldUpToRaces
    OBVIOUS
  <2>1. \A u \in Users : \A month \in 0 .. MaxClock :
          Cardinality(OfMonth(u, month)) <= FreePostsPerMonth + Cardinality(Handlers) - 1
    BY CommunityAssumption DEF QuotaOK, FreeLimit
  <2>2. ASSUME NEW u \in Users, NEW p \in PostIds
        PROVE  Cardinality(Attached(u, p)) <= MaxImagesPerEntity * Cardinality(Handlers)
    <3>1. Attached(u, p) \subseteq Gathered(u, p)
      BY DEF Gathered
    <3>2. /\ IsFiniteSet(Gathered(u, p)) /\ Cardinality(Gathered(u, p)) \in Nat
          /\ Cardinality(Gathered(u, p)) <= ImageLimit /\ ImageLimit \in Nat
      BY GatheredIsFinite, PostsAssumption, HandlersAssumption, FS_CardinalityType DEF ImagesOK, ImageLimit
    <3>3. Cardinality(Attached(u, p)) <= Cardinality(Gathered(u, p)) /\ Cardinality(Attached(u, p)) \in Nat
      BY <3>1, <3>2, FS_Subset, FS_CardinalityType
    <3> QED BY <3>2, <3>3 DEF ImageLimit
  <2> QED BY <2>1, <2>2 DEF LimitsHoldUpToRaces, OfMonth, Attached
<1> QED BY <1>1, TablesInvariance, LimitsInvariance, PTL

-----------------------------------------------------------------------------
(* What a reader finds.  A post of a group has its group, and a user has    *)
(* one reaction to a target.                                                *)

ReadersOK ==
    /\ \A p \in DOMAIN posts : IsGroup(posts[p].place) => posts[p].place \in DOMAIN groups
    /\ \A r, s \in reactions : r.by = s.by /\ r.target = s.target => r = s

LEMMA ReadersStep ==
    ASSUME TablesOK, ReadersOK, PostsNext \/ Meanwhile
    PROVE  ReadersOK'
<1> USE DEF IsGroup
<1>1. ASSUME NEW h \in Handlers, InsertPost(h) PROVE ReadersOK'
  <2>1. PICK p \in PostIds : posts' = [q \in DOMAIN posts \cup {p} |->
                       IF q = p THEN [place |-> call[h].place, author |-> call[h].by, at |-> clock,
                                      published |-> TRUE, deleted |-> FALSE]
                       ELSE posts[q]]
    BY <1>1 DEF InsertPost
  <2>2. \A q \in DOMAIN posts' : posts'[q].place = IF q = p THEN call[h].place ELSE posts[q].place
    BY <2>1
  <2> QED BY <1>1, <2>1, <2>2 DEF InsertPost, ReadersOK
<1>2. ASSUME NEW h \in Handlers, RemovePost(h) \/ SetStatus(h) PROVE ReadersOK'
  <2>1. /\ DOMAIN posts' = DOMAIN posts /\ \A p \in DOMAIN posts : posts'[p].place = posts[p].place
        /\ UNCHANGED <<groups, reactions>>
    BY <1>2 DEF RemovePost, SetStatus, TablesOK, CommunityDataTypeOK, PostRecord
  <2> QED BY <2>1 DEF ReadersOK
<1>3. ASSUME NEW h \in Handlers, SetReaction(h) \/ RemoveReaction(h) PROVE ReadersOK'
  BY <1>3 DEF SetReaction, RemoveReaction, communityVars, ReadersOK
<1>4. ASSUME NEW g \in Groups, DeleteGroup(g) PROVE ReadersOK'
  <2>1. /\ DOMAIN groups' = DOMAIN groups \ {g} /\ UNCHANGED reactions
        /\ \A p \in DOMAIN posts' : p \in DOMAIN posts /\ posts'[p] = posts[p] /\ posts[p].place # g
    BY <1>4 DEF DeleteGroup, Without, postVars
  <2> QED BY <2>1 DEF ReadersOK
<1>5. ASSUME UNCHANGED <<posts, reactions>>, DOMAIN groups' = DOMAIN groups PROVE ReadersOK'
  BY <1>5 DEF ReadersOK
<1>6. ASSUME NEW h \in Handlers,
             (\E r \in Requests : Begin(h, r)) \/ InsertComment(h) \/ RemoveComment(h) \/ AttachImages(h) \/ WriteFails(h)
      PROVE  ReadersOK'
  <2>1. UNCHANGED <<posts, reactions, groups>>
    BY <1>6 DEF Begin, InsertComment, RemoveComment, AttachImages, WriteFails, communityVars, postVars
  <2> QED BY <2>1, <1>5
<1>7. ASSUME \/ \E u \in Users, i \in ImageIds : UploadImage(u, i)
             \/ \E g \in Groups : SetGroupActive(g)
             \/ \E g \in Groups, u \in Users : AddMember(g, u) \/ RemoveMember(g, u)
             \/ Meanwhile
      PROVE  ReadersOK'
  <2>1. UNCHANGED <<posts, reactions>> /\ DOMAIN groups' = DOMAIN groups
    BY <1>7 DEF UploadImage, SetGroupActive, AddMember, RemoveMember, Meanwhile, Tick, PlanChanges,
                communityVars, postVars
  <2> QED BY <2>1, <1>5
<1> QED BY <1>1, <1>2, <1>3, <1>4, <1>6, <1>7 DEF PostsNext

(* What the rules of the feed let a user find, the rules of every other     *)
(* service let the same user open.                                          *)
LEMMA FindersMayOpen == ASSUME TablesOK, ReadersOK PROVE FeedIsReadable
<1> SUFFICES ASSUME NEW u \in Users, NEW p \in FeedOf(u)
             PROVE  LET place == posts[p].place
                    IN /\ MayEnter(u, place)
                       /\ AssertCanAccessTarget(u, <<"post", p>>)
                       /\ Cardinality(MyReactions(u, <<"post", p>>)) <= 1
                       /\ p \in GetMyPosts(posts[p].author)
                       /\ IF IsGroup(place)
                          THEN /\ place \in GetChannels(u) /\ p \in GetGroupPosts(place)
                               /\ u \in Professionals \cup Admins =>
                                    GetPost(u, place, p) /\ GetGroupPostComments(u, place, p) = KeptComments(p)
                               /\ p \in ListChannelPosts(place) /\ u \in ListMembers(place)
                          ELSE /\ IsPaid(u) => p \in GetChannelPosts(u, place)
                               /\ GetPostById(u, p) /\ GetPostComments(u, p) = KeptComments(p)
                               /\ p \in ListPosts /\ GetAdminPostById(p)
  BY DEF FeedIsReadable
<1> DEFINE place == posts[p].place
<1>1. /\ p \in DOMAIN posts /\ Available(p) /\ Kept(p) /\ place \in GetAccessibleScopes(u)
  BY DEF FeedOf, Available
<1>2. MayEnter(u, place)
  <2>1. CASE IsGroup(place)
    BY <2>1, <1>1, CommunityAssumption DEF GetAccessibleScopes, MayEnter, CanActivate, IsGroup, IsPaid
  <2>2. CASE ~IsGroup(place)
    BY <2>2, <1>1, CommunityAssumption DEF GetAccessibleScopes, MayEnter, CheckChannelAccess, IsGroup, IsPaid,
       TablesOK, CommunityDataTypeOK
  <2> QED BY <2>1, <2>2
<1>3. AssertCanAccessTarget(u, <<"post", p>>)
  BY <1>1, <1>2 DEF AssertCanAccessTarget
<1>4. Cardinality(MyReactions(u, <<"post", p>>)) <= 1
  <2> DEFINE mine == MyReactions(u, <<"post", p>>)
  <2>1. \A a, b \in mine : a = b
    BY DEF MyReactions, ReadersOK
  <2> HIDE DEF mine
  <2>2. mine = {} \/ \E a : mine = {a}
    BY <2>1
  <2>3. Cardinality(mine) = 0 \/ Cardinality(mine) = 1
    <3>1. CASE mine = {}
      BY <3>1, FS_EmptySet, Zenon
    <3>2. CASE mine # {}
      <4>1. PICK a : mine = {a}
        BY <2>2, <3>2
      <4> QED BY <4>1, FS_Singleton, Zenon
    <3> QED BY <3>1, <3>2
  <2>4. Cardinality(mine) <= 1
    BY <2>3
  <2> QED BY <2>4 DEF mine
<1>5. p \in GetMyPosts(posts[p].author)
  BY <1>1 DEF GetMyPosts
<1>6. ASSUME IsGroup(place)
      PROVE  /\ place \in GetChannels(u) /\ p \in GetGroupPosts(place)
             /\ u \in Professionals \cup Admins =>
                  GetPost(u, place, p) /\ GetGroupPostComments(u, place, p) = KeptComments(p)
             /\ p \in ListChannelPosts(place) /\ u \in ListMembers(place)
  <2>1. IsPaid(u) /\ place \in DOMAIN groups /\ groups[place] /\ u \in members[place]
    BY <1>1, <1>6, CommunityAssumption DEF GetAccessibleScopes, IsGroup
  <2>2. u \in Professionals \cup Admins => MayUseGroup(u, place)
    BY <2>1 DEF MayUseGroup, CanActivate, IsAdmin
  <2> QED BY <1>1, <2>1, <2>2 DEF GetChannels, GetGroupPosts, GetPost, GetGroupPostComments, KeptComments,
                                  ListChannelPosts, ListMembers
<1>7. ASSUME ~IsGroup(place)
      PROVE  /\ IsPaid(u) => p \in GetChannelPosts(u, place)
             /\ GetPostById(u, p) /\ GetPostComments(u, p) = KeptComments(p)
             /\ p \in ListPosts /\ GetAdminPostById(p)
  <2>1. CheckChannelAccess(u, place)
    BY <1>2, <1>7 DEF MayEnter
  <2>2. IsPaid(u) => p \in GetChannelPosts(u, place)
    BY <1>1 DEF GetChannelPosts
  <2> QED BY <1>1, <1>7, <2>1, <2>2 DEF GetPostById, GetPostComments, KeptComments, ListPosts, GetAdminPostById
<1> QED BY <1>2, <1>3, <1>4, <1>5, <1>6, <1>7

(* Whatever a user finds in the feed he may open, with its comments, react  *)
(* to once, and find in the listing of its place (getAccessibleScopes       *)
(* against the rules of the other services).                                *)
THEOREM FeedReaders == CommunitySpec => []FeedIsReadable
<1>1. Init => ReadersOK
  BY DEF Init, FeedInit, CommunityDataInit, PostsInit, ReadersOK
<1>2. TablesOK /\ ReadersOK /\ [CommunityNext]_vars => ReadersOK'
  <2> SUFFICES ASSUME TablesOK, ReadersOK, [CommunityNext]_vars PROVE ReadersOK'
    OBVIOUS
  <2>1. CASE UNCHANGED TableVars
    BY <2>1 DEF TableVars, communityVars, postVars, ReadersOK, IsGroup
  <2> QED BY <2>1, StepKinds, ReadersStep
<1> QED BY <1>1, <1>2, TablesInvariance, FindersMayOpen, PTL DEF CommunitySpec

-----------------------------------------------------------------------------
(* The push digest.  A post that a push counted for a user and that anyone  *)
(* may still be told of has a row that says so; a group's post is pushed by *)
(* its own notice and never by the digest.                                  *)

Rows == [seen : SUBSET PostIds, pushed : SUBSET PostIds, recent : BOOLEAN]

Made(p) == <<"post", p>> \in made

PushOK ==
    /\ lastSeen \in [Users \X Places -> Rows \cup {NoRow}]
    /\ settled \in [Users -> SUBSET PostIds]
    /\ DOMAIN push = Runs
    /\ \A r \in Runs :
         /\ push[r].todo \subseteq Professionals
         /\ push[r].at = "marking" =>
              push[r].for \in Users /\ push[r].counted \subseteq PostIds /\ \A p \in push[r].counted : Made(p)

Told(u, p) == Row(u, posts[p].place) # NoRow
              /\ p \in Row(u, posts[p].place).seen \cup Row(u, posts[p].place).pushed

SettledOK ==
    \A u \in Users : \A p \in settled[u] :
        Made(p) /\ (p \in DOMAIN posts /\ ~IsGroup(posts[p].place) => Told(u, p))

LEMMA PostsOfType ==
    ASSUME TablesOK, NEW place
    PROVE  PostsOf(place) \subseteq PostIds /\ \A p \in PostsOf(place) : Made(p)
  BY DEF TablesOK, CommunityDataTypeOK, PostsOf, Made

LEMMA PushInit == NoticesInit => PushOK /\ SettledOK
  BY DEF NoticesInit, PushOK, SettledOK, Resting

(* What the feed and the handlers do to the push: they make and remove      *)
(* posts, and a post that is there stays where it is.                       *)
SamePost(p) == posts'[p].place = posts[p].place /\ posts'[p].at = posts[p].at

LEMMA PlacesKept ==
    ASSUME TablesOK, PostsNext \/ Meanwhile
    PROVE  /\ made \subseteq made'
           /\ \A p \in DOMAIN posts' : IF Made(p) THEN p \in DOMAIN posts /\ SamePost(p) ELSE p \notin DOMAIN posts
<1> USE DEF Made, SamePost
<1>0. \A p \in DOMAIN posts : Made(p)
  BY DEF TablesOK
<1>1. ASSUME NEW h \in Handlers, InsertPost(h)
      PROVE  /\ made \subseteq made'
             /\ \A p \in DOMAIN posts' : IF Made(p) THEN p \in DOMAIN posts /\ SamePost(p) ELSE p \notin DOMAIN posts
  <2>1. PICK p \in {q \in PostIds : <<"post", q>> \notin made} :
          /\ posts' = [q \in DOMAIN posts \cup {p} |->
                         IF q = p THEN [place |-> call[h].place, author |-> call[h].by, at |-> clock,
                                        published |-> TRUE, deleted |-> FALSE]
                         ELSE posts[q]]
          /\ made' = made \cup {<<"post", p>>}
    BY <1>1 DEF InsertPost
  <2> QED BY <1>0, <2>1
<1>2. ASSUME NEW h \in Handlers, RemovePost(h) \/ SetStatus(h)
      PROVE  UNCHANGED made /\ DOMAIN posts' = DOMAIN posts /\ \A p \in DOMAIN posts : SamePost(p)
  BY <1>2 DEF RemovePost, SetStatus, TablesOK, CommunityDataTypeOK, PostRecord
<1>3. ASSUME NEW h \in Handlers,
             \/ \E r \in Requests : Begin(h, r)
             \/ InsertComment(h) \/ RemoveComment(h) \/ SetReaction(h) \/ RemoveReaction(h)
             \/ AttachImages(h) \/ WriteFails(h)
      PROVE  made \subseteq made' /\ UNCHANGED posts
  BY <1>3 DEF Begin, InsertComment, RemoveComment, SetReaction, RemoveReaction, AttachImages, WriteFails,
              communityVars, postVars
<1>4. ASSUME NEW g \in Groups, DeleteGroup(g)
      PROVE  UNCHANGED made /\ DOMAIN posts' \subseteq DOMAIN posts /\ \A p \in DOMAIN posts' : posts'[p] = posts[p]
  BY <1>4 DEF DeleteGroup, Without, postVars
<1>5. ASSUME \/ \E u \in Users, i \in ImageIds : UploadImage(u, i)
             \/ \E g \in Groups : SetGroupActive(g)
             \/ \E g \in Groups, u \in Users : AddMember(g, u) \/ RemoveMember(g, u)
             \/ Meanwhile
      PROVE  UNCHANGED <<made, posts>>
  BY <1>5 DEF UploadImage, SetGroupActive, AddMember, RemoveMember, Meanwhile, Tick, PlanChanges,
              communityVars, postVars
<1>6. CASE UNCHANGED made /\ DOMAIN posts' \subseteq DOMAIN posts /\ \A p \in DOMAIN posts' : SamePost(p)
  BY <1>0, <1>6
<1>7. CASE made \subseteq made' /\ UNCHANGED posts
  BY <1>0, <1>7
<1> QED BY <1>1, <1>2, <1>3, <1>4, <1>5, <1>6, <1>7 DEF PostsNext

LEMMA FeedKeepsPush ==
    ASSUME TablesOK, PushOK, SettledOK, UNCHANGED <<push, settled>>,
           lastSeen' = lastSeen \/ lastSeen' = SeenInGroupsLeft,
           PostsNext \/ Meanwhile \/ UNCHANGED TableVars
    PROVE  PushOK' /\ SettledOK'
<1>0. /\ lastSeen' \in [Users \X Places -> Rows \cup {NoRow}]
      /\ \A u \in Users, place \in Places \ Groups : Row(u, place)' = Row(u, place)
  <2>1. DOMAIN groups \subseteq Groups
    BY DEF TablesOK, CommunityDataTypeOK
  <2>2. CASE lastSeen' = lastSeen
    BY <2>2 DEF PushOK, Row
  <2>3. CASE lastSeen' = SeenInGroupsLeft
    <3>1. ASSUME NEW x \in Users \X Places
          PROVE  lastSeen'[x] \in Rows \cup {NoRow} /\ (x[2] \notin Groups => lastSeen'[x] = lastSeen[x])
      BY <2>1, <2>3 DEF SeenInGroupsLeft, PushOK
    <3>2. lastSeen' \in [Users \X Places -> Rows \cup {NoRow}]
      BY <2>3, <3>1 DEF SeenInGroupsLeft
    <3> QED BY <3>1, <3>2 DEF Row
  <2> QED BY <2>2, <2>3
<1>1. /\ made \subseteq made'
      /\ \A p \in DOMAIN posts' : Made(p) => p \in DOMAIN posts /\ posts'[p].place = posts[p].place
  <2>1. CASE UNCHANGED TableVars
    BY <2>1 DEF TableVars, communityVars, postVars, TablesOK, Made
  <2> QED BY <2>1, PlacesKept DEF SamePost
<1>2. PushOK'
  BY <1>0, <1>1 DEF PushOK, Made
<1>3. ASSUME NEW u \in Users, NEW p \in settled[u] PROVE Made(p)' /\ (p \in DOMAIN posts' /\ ~IsGroup(posts'[p].place) => Told(u, p)')
  <2>1. Made(p) /\ Made(p)'
    BY <1>1 DEF SettledOK, Made
  <2>2. ASSUME p \in DOMAIN posts', ~IsGroup(posts'[p].place) PROVE Told(u, p)'
    <3>1. PICK place \in Places : p \in DOMAIN posts /\ posts[p].place = place /\ posts'[p].place = place
      BY <1>1, <2>1, <2>2 DEF TablesOK, CommunityDataTypeOK, PostRecord
    <3>2. Told(u, p) /\ Row(u, place)' = Row(u, place)
      BY <1>0, <2>2, <3>1 DEF SettledOK, IsGroup
    <3> QED BY <3>1, <3>2 DEF Told, Row
  <2> QED BY <2>1, <2>2
<1>4. SettledOK'
  BY <1>3 DEF SettledOK, IsGroup
<1> QED BY <1>2, <1>4

(* A step of the notices that keeps what the rows say of the posts they     *)
(* hold                                                                     *)
LEMMA RowsKeepTelling ==
    ASSUME TablesOK, PushOK, SettledOK, UNCHANGED <<posts, made>>,
           \A u \in Users, p \in DOMAIN posts : Told(u, p) => Told(u, p)',
           settled' \in [Users -> SUBSET PostIds],
           \A u \in Users : \A p \in settled'[u] \ settled[u] :
              Made(p) /\ (p \in DOMAIN posts /\ ~IsGroup(posts[p].place) => Told(u, p)')
    PROVE  SettledOK'
<1> SUFFICES ASSUME NEW u \in Users, NEW p \in settled'[u]
             PROVE  Made(p)' /\ (p \in DOMAIN posts' /\ ~IsGroup(posts'[p].place) => Told(u, p)')
  BY DEF SettledOK, IsGroup
<1>1. Made(p)' <=> Made(p)
  BY DEF Made
<1>2. CASE p \in settled[u]
  BY <1>1, <1>2 DEF SettledOK
<1>3. CASE p \notin settled[u]
  BY <1>1, <1>3
<1> QED BY <1>2, <1>3

LEMMA MarkSeenPush ==
    ASSUME TablesOK, PushOK, SettledOK, NEW u \in Users, NEW place \in Places, MarkSeen(u, place), UNCHANGED feedVars
    PROVE  PushOK' /\ SettledOK'
<1>1. /\ UNCHANGED <<posts, made, push, settled>>
      /\ lastSeen' = [x \in Users \X Places |->
           IF x[1] # u \/ x[2] \notin {place} THEN lastSeen[x]
           ELSE IF lastSeen[x] = NoRow THEN [seen |-> PostsOf(x[2]), pushed |-> {}, recent |-> FALSE]
                ELSE [lastSeen[x] EXCEPT !.seen = PostsOf(place)]]
  BY DEF MarkSeen, Upsert, feedVars, communityVars, postVars
<1>2. ASSUME NEW x \in Users \X Places
      PROVE  lastSeen'[x] \in Rows \cup {NoRow} /\ lastSeen[x] \in Rows \cup {NoRow}
  <2>1. lastSeen[x] \in Rows \cup {NoRow} /\ PostsOf(x[2]) \subseteq PostIds /\ PostsOf(place) \subseteq PostIds
    BY PostsOfType DEF PushOK
  <2> QED BY <1>1, <2>1 DEF Rows
<1>3. lastSeen' \in [Users \X Places -> Rows \cup {NoRow}]
  BY <1>1, <1>2
<1>4. PushOK'
  BY <1>1, <1>3 DEF PushOK, Made
<1>5. ASSUME NEW v \in Users, NEW p \in DOMAIN posts, Told(v, p) PROVE Told(v, p)'
  <2>1. posts[p].place \in Places /\ posts'[p] = posts[p] /\ p \in PostsOf(posts[p].place)
    BY <1>1 DEF TablesOK, CommunityDataTypeOK, PostRecord, PostsOf
  <2> DEFINE x == <<v, posts[p].place>>
  <2>2. x \in Users \X Places /\ x[1] = v /\ x[2] = posts[p].place
    BY <2>1
  <2>3. lastSeen[x] # NoRow /\ lastSeen[x] \in Rows /\ p \in lastSeen[x].seen \cup lastSeen[x].pushed
    BY <1>2, <1>5, <2>2 DEF Told, Row
  <2>4. lastSeen'[x] = IF v # u \/ posts[p].place # place THEN lastSeen[x]
                       ELSE [lastSeen[x] EXCEPT !.seen = PostsOf(place)]
    BY <1>1, <2>2, <2>3
  <2>5. lastSeen'[x] \in Rows /\ p \in lastSeen'[x].seen \cup lastSeen'[x].pushed
    BY <2>1, <2>3, <2>4, PostsOfType DEF Rows
  <2> QED BY <2>1, <2>5, NoticesAssumption DEF Told, Row, Rows
<1>6. SettledOK'
  BY <1>1, <1>5, RowsKeepTelling DEF PushOK
<1> QED BY <1>4, <1>6

(* What the other jobs do to a row that is there leaves its posts alone.    *)
LEMMA DigestPush ==
    ASSUME TablesOK, PushOK, SettledOK, DigestMarks \/ CooldownPasses, UNCHANGED feedVars
    PROVE  PushOK' /\ SettledOK'
<1>1. UNCHANGED <<posts, made, push, settled>>
  BY DEF DigestMarks, CooldownPasses, feedVars, communityVars, postVars
<1>2. DOMAIN lastSeen' = Users \X Places
  BY DEF DigestMarks, CooldownPasses, Upsert
<1>3. ASSUME NEW x \in Users \X Places
      PROVE  /\ lastSeen'[x] \in Rows \cup {NoRow}
             /\ lastSeen[x] \in Rows =>
                  /\ lastSeen'[x] \in Rows /\ lastSeen'[x].seen = lastSeen[x].seen
                  /\ lastSeen'[x].pushed = lastSeen[x].pushed
  <2>1. lastSeen[x] \in Rows \cup {NoRow} /\ NoRow \notin Rows
    BY NoticesAssumption DEF PushOK, Rows
  <2>2. \/ lastSeen'[x] = lastSeen[x]
        \/ lastSeen[x] = NoRow /\ lastSeen'[x] = [seen |-> PostsOf(x[2]), pushed |-> {}, recent |-> TRUE]
        \/ \E b \in BOOLEAN : lastSeen[x] # NoRow /\ lastSeen'[x] = [lastSeen[x] EXCEPT !.recent = b]
    BY DEF DigestMarks, CooldownPasses, Upsert
  <2>3. [seen |-> PostsOf(x[2]), pushed |-> {}, recent |-> TRUE] \in Rows
    BY PostsOfType DEF Rows
  <2>4. ASSUME NEW b \in BOOLEAN, NEW row \in Rows
        PROVE  LET new == [row EXCEPT !.recent = b]
               IN new \in Rows /\ new.seen = row.seen /\ new.pushed = row.pushed
    BY DEF Rows
  <2>5. CASE lastSeen'[x] = lastSeen[x]
    BY <2>1, <2>5
  <2>6. CASE lastSeen[x] = NoRow /\ lastSeen'[x] = [seen |-> PostsOf(x[2]), pushed |-> {}, recent |-> TRUE]
    BY <2>1, <2>3, <2>6
  <2>7. CASE \E b \in BOOLEAN : lastSeen[x] # NoRow /\ lastSeen'[x] = [lastSeen[x] EXCEPT !.recent = b]
    <3>1. PICK b \in BOOLEAN : lastSeen[x] # NoRow /\ lastSeen'[x] = [lastSeen[x] EXCEPT !.recent = b]
      BY <2>7
    <3>2. PICK row \in Rows : row = lastSeen[x]
      BY <2>1, <3>1
    <3>3. lastSeen'[x] = [row EXCEPT !.recent = b]
      BY <3>1, <3>2
    <3> QED BY <2>4, <3>2, <3>3
  <2> QED BY <2>2, <2>5, <2>6, <2>7
<1>4. lastSeen' \in [Users \X Places -> Rows \cup {NoRow}]
  <2>1. \E f : lastSeen' = [x \in Users \X Places |-> f[x]]
    <3>1. CASE DigestMarks
      <4> DEFINE f == [x \in Users \X Places |->
                         IF x[1] # digest.for \/ x[2] \notin CountedPlaces(digest) THEN lastSeen[x]
                         ELSE IF lastSeen[x] = NoRow THEN [seen |-> PostsOf(x[2]), pushed |-> {}, recent |-> TRUE]
                              ELSE [lastSeen[x] EXCEPT !.recent = TRUE]]
      <4>1. lastSeen' = f
        BY <3>1 DEF DigestMarks, Upsert
      <4>2. f = [x \in Users \X Places |-> f[x]]
        OBVIOUS
      <4> QED BY <4>1, <4>2
    <3>2. CASE CooldownPasses
      <4> DEFINE f == [x \in Users \X Places |->
                         IF lastSeen[x] = NoRow THEN NoRow ELSE [lastSeen[x] EXCEPT !.recent = FALSE]]
      <4>1. lastSeen' = f
        BY <3>2 DEF CooldownPasses
      <4>2. f = [x \in Users \X Places |-> f[x]]
        OBVIOUS
      <4> QED BY <4>1, <4>2
    <3> QED BY <3>1, <3>2
  <2>2. PICK f : lastSeen' = [x \in Users \X Places |-> f[x]]
    BY <2>1
  <2>3. \A x \in Users \X Places : f[x] \in Rows \cup {NoRow}
    BY <1>3, <2>2
  <2> QED BY <2>2, <2>3
<1>5. PushOK'
  BY <1>1, <1>4 DEF PushOK, Made
<1>6. ASSUME NEW v \in Users, NEW p \in DOMAIN posts, Told(v, p) PROVE Told(v, p)'
  <2>1. posts[p].place \in Places /\ posts'[p] = posts[p]
    BY <1>1 DEF TablesOK, CommunityDataTypeOK, PostRecord
  <2> DEFINE x == <<v, posts[p].place>>
  <2>2. x \in Users \X Places
    BY <2>1
  <2>3. lastSeen[x] \in Rows /\ p \in lastSeen[x].seen \cup lastSeen[x].pushed
    BY <1>6, <2>2 DEF Told, Row, PushOK
  <2>4. lastSeen'[x] \in Rows /\ p \in lastSeen'[x].seen \cup lastSeen'[x].pushed
    BY <1>3, <2>2, <2>3
  <2> QED BY <2>1, <2>4, NoticesAssumption DEF Told, Row, Rows
<1>7. SettledOK'
  BY <1>1, <1>6, RowsKeepTelling DEF PushOK
<1> QED BY <1>5, <1>7

(* What markPushNotified writes: the badge is as it was.                    *)
LEMMA PushMarksRow ==
    ASSUME TablesOK, PushOK, NEW r \in Runs, PushMarks(r), UNCHANGED feedVars,
           NEW x \in Users \X Places
    PROVE  /\ lastSeen'[x] \in Rows \cup {NoRow}
           /\ IF x[1] = push[r].for /\ x[2] \in CountedPlaces(push[r])
              THEN lastSeen'[x] \in Rows /\ lastSeen'[x].pushed = PostsOf(x[2])
              ELSE lastSeen'[x] = lastSeen[x]
           /\ lastSeen[x] \in Rows => lastSeen'[x] \in Rows /\ lastSeen'[x].seen = lastSeen[x].seen
           /\ lastSeen[x] = NoRow /\ lastSeen'[x] \in Rows => lastSeen'[x].seen = {}
<1>1. lastSeen[x] \in Rows \cup {NoRow} /\ NoRow \notin Rows /\ PostsOf(x[2]) \subseteq PostIds
  BY NoticesAssumption, PostsOfType DEF PushOK, Rows
<1> DEFINE u == push[r].for
           marked == x[1] = u /\ x[2] \in CountedPlaces(push[r])
<1>2. lastSeen'[x] = IF ~marked THEN lastSeen[x]
                     ELSE IF lastSeen[x] = NoRow
                     THEN [seen |-> {}, pushed |-> PostsOf(x[2]), recent |-> FALSE]
                     ELSE [lastSeen[x] EXCEPT !.pushed = PostsOf(x[2])]
  BY DEF PushMarks
<1> HIDE DEF marked
<1>3. CASE ~marked
  BY <1>1, <1>2, <1>3 DEF marked
<1>4. CASE marked /\ lastSeen[x] = NoRow
  <2>1. [seen |-> {}, pushed |-> PostsOf(x[2]), recent |-> FALSE] \in Rows
    BY <1>1 DEF Rows
  <2> QED BY <1>1, <1>2, <1>4, <2>1 DEF marked
<1>5. CASE marked /\ lastSeen[x] # NoRow
  <2>1. PICK row \in Rows : row = lastSeen[x]
    BY <1>1, <1>5
  <2>2. LET new == [row EXCEPT !.pushed = PostsOf(x[2])]
        IN new \in Rows /\ new.pushed = PostsOf(x[2]) /\ new.seen = row.seen
    BY <1>1 DEF Rows
  <2>3. lastSeen'[x] = [row EXCEPT !.pushed = PostsOf(x[2])]
    BY <1>2, <1>5, <2>1
  <2> QED BY <1>1, <1>5, <2>1, <2>2, <2>3 DEF marked
<1> QED BY <1>3, <1>4, <1>5

LEMMA PushMarksPush ==
    ASSUME TablesOK, PushOK, SettledOK, NEW r \in Runs, PushMarks(r), UNCHANGED feedVars
    PROVE  PushOK' /\ SettledOK'
<1>1. PICK u, counted : u = push[r].for /\ counted = push[r].counted
  OBVIOUS
<1>2. /\ UNCHANGED <<posts, made>> /\ settled' = [settled EXCEPT ![u] = @ \cup counted]
      /\ push' = [push EXCEPT ![r] = [Resting EXCEPT !.at = "reading", !.todo = push[r].todo]]
      /\ DOMAIN lastSeen' = Users \X Places
  BY <1>1 DEF PushMarks, feedVars, communityVars, postVars
<1>3. u \in Users /\ counted \subseteq PostIds /\ \A p \in counted : Made(p)
  BY <1>1 DEF PushMarks, PushOK
<1>4. \A x \in Users \X Places : lastSeen'[x] \in Rows \cup {NoRow}
  BY PushMarksRow
<1>5. lastSeen' \in [Users \X Places -> Rows \cup {NoRow}]
  <2>1. \E f : lastSeen' = [x \in Users \X Places |-> f[x]]
    <3> DEFINE f == [x \in Users \X Places |->
                       IF x[1] # push[r].for \/ x[2] \notin CountedPlaces(push[r]) THEN lastSeen[x]
                       ELSE IF lastSeen[x] = NoRow
                       THEN [seen |-> {}, pushed |-> PostsOf(x[2]), recent |-> FALSE]
                       ELSE [lastSeen[x] EXCEPT !.pushed = PostsOf(x[2])]]
    <3>1. lastSeen' = f
      BY DEF PushMarks
    <3>2. f = [x \in Users \X Places |-> f[x]]
      OBVIOUS
    <3> QED BY <3>1, <3>2
  <2>2. PICK f : lastSeen' = [x \in Users \X Places |-> f[x]]
    BY <2>1
  <2>3. \A x \in Users \X Places : f[x] \in Rows \cup {NoRow}
    BY <1>4, <2>2
  <2> QED BY <2>2, <2>3
<1>6. settled' \in [Users -> SUBSET PostIds]
  BY <1>2, <1>3 DEF PushOK
<1>7. PushOK'
  BY <1>2, <1>5, <1>6 DEF PushOK, Resting, Made
<1>8. \A p \in DOMAIN posts : posts[p].place \in Places /\ posts'[p] = posts[p] /\ p \in PostsOf(posts[p].place)
  BY <1>2 DEF TablesOK, CommunityDataTypeOK, PostRecord, PostsOf
<1>9. ASSUME NEW v \in Users, NEW p \in DOMAIN posts, Told(v, p) PROVE Told(v, p)'
  <2> DEFINE x == <<v, posts[p].place>>
  <2>1. x \in Users \X Places /\ x[1] = v /\ x[2] = posts[p].place
    BY <1>8
  <2>2. lastSeen[x] \in Rows /\ p \in lastSeen[x].seen \cup lastSeen[x].pushed
    BY <1>9, <2>1 DEF Told, Row, PushOK
  <2> HIDE DEF x
  <2>3. lastSeen'[x] \in Rows /\ p \in lastSeen'[x].seen \cup lastSeen'[x].pushed
    BY <1>8, <2>1, <2>2, PushMarksRow
  <2> QED BY <1>8, <2>3, NoticesAssumption DEF Told, Row, Rows, x
<1>10. ASSUME NEW v \in Users, NEW p \in settled'[v] \ settled[v]
       PROVE  Made(p) /\ (p \in DOMAIN posts => Told(v, p)')
  <2>1. v = u /\ p \in counted
    BY <1>2, <1>3 DEF PushOK
  <2>2. ASSUME p \in DOMAIN posts PROVE Told(v, p)'
    <3> DEFINE x == <<v, posts[p].place>>
    <3>1. x \in Users \X Places /\ x[1] = v /\ x[2] = posts[p].place
      BY <1>8, <2>2
    <3>2. x[2] \in CountedPlaces(push[r])
      BY <1>1, <2>1, <2>2, <3>1 DEF CountedPlaces
    <3> HIDE DEF x
    <3>3. lastSeen'[x] \in Rows /\ p \in lastSeen'[x].pushed
      BY <1>1, <1>8, <2>1, <2>2, <3>1, <3>2, PushMarksRow
    <3> QED BY <1>8, <2>2, <3>3, NoticesAssumption DEF Told, Row, Rows, x
  <2> QED BY <1>3, <2>1, <2>2
<1>11. SettledOK'
  BY <1>2, <1>6, <1>9, <1>10, RowsKeepTelling
<1> QED BY <1>7, <1>11

(* What notifyUser reads has not been counted for the user, and he has not  *)
(* opened it.                                                               *)
LEMMA NewForIsNew ==
    ASSUME TablesOK, PushOK, SettledOK, NEW u \in Users
    PROVE  /\ NewFor(u) \subseteq PostIds /\ \A p \in NewFor(u) : Made(p)
           /\ NewFor(u) \cap settled[u] = {}
           /\ \A p \in NewFor(u) : p \notin SeenBy(u, posts[p].place)
<1>1. ASSUME NEW p \in NewFor(u)
      PROVE  /\ p \in DOMAIN posts /\ p \in PostIds /\ Made(p) /\ ~IsGroup(posts[p].place)
             /\ Row(u, posts[p].place) = NoRow
                 \/ p \notin Row(u, posts[p].place).seen \cup Row(u, posts[p].place).pushed
  <2>1. p \in DOMAIN posts /\ posts[p].place \in Places /\ posts[p].place \in {General, RubroOf[u]}
    BY DEF NewFor, TablesOK, CommunityDataTypeOK, PostRecord
  <2>2. p \in PostIds /\ Made(p)
    BY <2>1 DEF TablesOK, CommunityDataTypeOK, Made
  <2>3. ~IsGroup(posts[p].place)
    BY <2>1, CommunityAssumption DEF IsGroup, Places
  <2> QED BY <2>1, <2>2, <2>3 DEF NewFor
<1>2. \A p \in NewFor(u) : p \notin settled[u]
  BY <1>1 DEF SettledOK, Told
<1> QED BY <1>1, <1>2 DEF SeenBy

LEMMA PushReadsPush ==
    ASSUME TablesOK, PushOK, SettledOK, NEW r \in Runs, NEW u \in Professionals, PushReads(r, u), UNCHANGED feedVars
    PROVE  /\ PushOK' /\ SettledOK' /\ \A k \in Runs \ {r} : push'[k] = push[k]
           /\ push'[r].at = "marking" => push'[r].for = u /\ push'[r].counted = NewFor(u)
<1>1. PICK run : run = push[r]
  OBVIOUS
<1>2. PICK counted : counted = NewFor(u)
  OBVIOUS
<1>3. /\ UNCHANGED <<posts, made, lastSeen, settled>> /\ run.at = "reading" /\ u \in run.todo
      /\ \/ push' = [push EXCEPT ![r] = [run EXCEPT !.todo = @ \ {u}]]
         \/ push' = [push EXCEPT ![r] = [at |-> "marking", todo |-> run.todo \ {u}, for |-> u, counted |-> counted]]
  BY <1>1, <1>2 DEF PushReads, feedVars, communityVars, postVars
<1>4. u \in Users /\ counted \subseteq PostIds /\ \A p \in counted : Made(p)
  BY <1>2, NewForIsNew, PostsAssumption
<1>5. /\ DOMAIN push' = Runs /\ \A k \in Runs \ {r} : push'[k] = push[k]
      /\ \/ push'[r].at = run.at /\ push'[r].todo = run.todo \ {u}
         \/ push'[r] = [at |-> "marking", todo |-> run.todo \ {u}, for |-> u, counted |-> counted]
  <2>1. CASE push' = [push EXCEPT ![r] = [run EXCEPT !.todo = @ \ {u}]]
    <3>1. [run EXCEPT !.todo = @ \ {u}].at = run.at /\ [run EXCEPT !.todo = @ \ {u}].todo = run.todo \ {u}
      BY <1>3
    <3> QED BY <2>1, <3>1 DEF PushOK
  <2>2. CASE push' = [push EXCEPT ![r] = [at |-> "marking", todo |-> run.todo \ {u}, for |-> u, counted |-> counted]]
    BY <2>2 DEF PushOK
  <2> QED BY <1>3, <2>1, <2>2
<1>6. PushOK'
  BY <1>1, <1>3, <1>4, <1>5 DEF PushOK, Made
<1>7. SettledOK'
  BY <1>3 DEF SettledOK, Made, Told, Row, IsGroup
<1> QED BY <1>2, <1>3, <1>5, <1>6, <1>7

LEMMA NotifyPush ==
    ASSUME TablesOK, PushOK, SettledOK, NEW p \in PostIds, NotifyNewChannelPost(p), UNCHANGED feedVars
    PROVE  PushOK' /\ SettledOK'
<1>1. UNCHANGED <<posts, made, lastSeen, push>>
  BY DEF NotifyNewChannelPost, feedVars, communityVars, postVars
<1>2. /\ settled' \in [Users -> SUBSET PostIds]
      /\ \A u \in Users : \A q \in settled'[u] \ settled[u] :
           q = p /\ p \in DOMAIN posts /\ posts[p].place \in DOMAIN groups
  <2>1. CASE p \in DOMAIN posts /\ posts[p].place \in DOMAIN groups /\ groups[posts[p].place]
    <3>1. settled' = [u \in Users |-> settled[u] \cup
                        (IF u \in Recipients(p) /\ \E d \in Devices : owner[d] = u THEN {p} ELSE {})]
      BY <2>1 DEF NotifyNewChannelPost
    <3> QED BY <2>1, <3>1 DEF PushOK
  <2>2. CASE ~(p \in DOMAIN posts /\ posts[p].place \in DOMAIN groups /\ groups[posts[p].place])
    BY <2>2 DEF NotifyNewChannelPost, PushOK
  <2> QED BY <2>1, <2>2
<1>3. \A q \in DOMAIN posts : Made(q) /\ (posts[q].place \in DOMAIN groups => IsGroup(posts[q].place))
  BY DEF TablesOK, CommunityDataTypeOK, Made, IsGroup
<1>4. PushOK'
  BY <1>1, <1>2 DEF PushOK, Made
<1>5. \A u \in Users, q \in DOMAIN posts : Told(u, q) => Told(u, q)'
  BY <1>1 DEF Told, Row
<1>6. SettledOK'
  BY <1>1, <1>2, <1>3, <1>5, RowsKeepTelling
<1> QED BY <1>4, <1>6

LEMMA NoticesPush ==
    ASSUME TablesOK, PushOK, SettledOK, NoticesNext, UNCHANGED feedVars
    PROVE  PushOK' /\ SettledOK'
<1>1. UNCHANGED <<posts, made>>
  BY DEF feedVars, communityVars, postVars
<1>2. ASSUME UNCHANGED <<lastSeen, settled>>, DOMAIN push' = Runs,
             \A r \in Runs : push'[r] = push[r] \/ (push'[r].at # "marking" /\ push'[r].todo \subseteq Professionals)
      PROVE  PushOK' /\ SettledOK'
  <2>1. PushOK'
    BY <1>1, <1>2 DEF PushOK, Made
  <2>2. SettledOK'
    BY <1>1, <1>2 DEF SettledOK, Made, Told, Row, IsGroup
  <2> QED BY <2>1, <2>2
<1>3. DOMAIN push = Runs /\ \A r \in Runs : push[r].todo \subseteq Professionals
  BY DEF PushOK
<1>4. CASE DigestStarts \/ DigestSends \/ DigestEnds \/ \E u \in Users : DigestReads(u)
  <2>1. UNCHANGED <<lastSeen, settled, push>>
    BY <1>4 DEF DigestStarts, DigestSends, DigestEnds, DigestReads
  <2> QED BY <1>2, <1>3, <2>1
<1>5. ASSUME NEW r \in Runs, PushStarts(r) \/ PushEnds(r) PROVE PushOK' /\ SettledOK'
  <2>1. /\ UNCHANGED <<lastSeen, settled>> /\ DOMAIN push' = Runs
        /\ \A k \in Runs : push'[k] = push[k] \/ (push'[k].at # "marking" /\ push'[k].todo \subseteq Professionals)
    <3>1. \E run : /\ push' = [push EXCEPT ![r] = run] /\ run.at # "marking" /\ run.todo \subseteq Professionals
                  /\ UNCHANGED <<lastSeen, settled>>
      <4>1. CASE PushStarts(r)
        <5> DEFINE run == [Resting EXCEPT !.at = "reading", !.todo = Professionals]
        <5>1. push' = [push EXCEPT ![r] = run] /\ UNCHANGED <<lastSeen, settled>>
          BY <4>1 DEF PushStarts
        <5>2. run.at # "marking" /\ run.todo \subseteq Professionals
          BY DEF Resting
        <5> QED BY <5>1, <5>2
      <4>2. CASE PushEnds(r)
        <5>1. push' = [push EXCEPT ![r] = Resting] /\ UNCHANGED <<lastSeen, settled>>
          BY <4>2 DEF PushEnds
        <5>2. Resting.at # "marking" /\ Resting.todo \subseteq Professionals
          BY DEF Resting
        <5> QED BY <5>1, <5>2
      <4> QED BY <1>5, <4>1, <4>2
    <3> QED BY <1>3, <3>1
  <2> QED BY <1>2, <2>1
<1>6. CASE ServerStops
  <2>1. UNCHANGED <<lastSeen, settled>> /\ push' = [r \in Runs |-> Resting]
    BY <1>6 DEF ServerStops
  <2> QED BY <1>2, <2>1 DEF Resting
<1>7. CASE \/ \E u \in Users, place \in Places, email, ring \in BOOLEAN : UpsertPreference(u, place, email, ring)
           \/ \E u \in Users, d \in Devices : RegisterSubscription(u, d) \/ DeleteSubscription(u, d)
  <2>1. UNCHANGED <<lastSeen, settled, push>>
    BY <1>7 DEF UpsertPreference, RegisterSubscription, DeleteSubscription
  <2> QED BY <1>2, <1>3, <2>1
<1> QED BY <1>4, <1>5, <1>6, <1>7, MarkSeenPush, DigestPush, PushMarksPush, PushReadsPush, NotifyPush
        DEF NoticesNext, DigestSteps, PushSteps

(* A step of the community is one of the feed, which takes no rows but those*)
(* of a deleted group, or one of the notices.                               *)
LEMMA FeedOrNotices ==
    ASSUME [CommunityNext]_vars
    PROVE  \/ /\ UNCHANGED <<push, settled>> /\ (lastSeen' = lastSeen \/ lastSeen' = SeenInGroupsLeft)
              /\ PostsNext \/ Meanwhile \/ UNCHANGED TableVars
           \/ NoticesNext /\ UNCHANGED feedVars
  BY StepKinds DEF CommunityNext, vars, noticeVars

LEMMA PushInvariance == CommunitySpec => [](PushOK /\ SettledOK)
<1>1. Init => PushOK /\ SettledOK
  BY PushInit DEF Init
<1>2. TablesOK /\ PushOK /\ SettledOK /\ [CommunityNext]_vars => (PushOK /\ SettledOK)'
  BY FeedOrNotices, FeedKeepsPush, NoticesPush
<1> QED BY <1>1, <1>2, TablesInvariance, PTL DEF CommunitySpec

(* The push digest announces nothing twice, though its runs overlap, other  *)
(* jobs write the same rows and the server stops (markPushNotified against  *)
(* notifyUser).                                                             *)
THEOREM PushAnnouncesOnce == CommunitySpec => AnnouncedOnce
<1> DEFINE Step == \A r \in Runs : push'[r].at = "marking" /\ push[r].at = "reading" =>
                      /\ push'[r].counted \cap settled[push'[r].for] = {}
                      /\ \A p \in push'[r].counted : p \notin SeenBy(push'[r].for, posts[p].place)
<1>1. TablesOK /\ PushOK /\ SettledOK /\ [CommunityNext]_vars => Step
  <2> SUFFICES ASSUME TablesOK, PushOK, SettledOK, [CommunityNext]_vars, NEW r \in Runs,
                      push'[r].at = "marking", push[r].at = "reading"
               PROVE  /\ push'[r].counted \cap settled[push'[r].for] = {}
                      /\ \A p \in push'[r].counted : p \notin SeenBy(push'[r].for, posts[p].place)
    OBVIOUS
  <2>1. push'[r] # push[r]
    OBVIOUS
  <2>2. NoticesNext /\ UNCHANGED feedVars
    BY <2>1, FeedOrNotices
  <2>3. ASSUME NEW k \in Runs, PushStarts(k) \/ PushEnds(k) \/ PushMarks(k) \/ \E u \in Professionals : PushReads(k, u)
        PROVE  \E u \in Professionals : PushReads(r, u)
    <3>1. DOMAIN push = Runs
      BY DEF PushOK
    <3>2. \A j \in Runs \ {k} : push'[j] = push[j]
      BY <2>2, <2>3, <3>1, PushReadsPush DEF PushStarts, PushEnds, PushMarks
    <3>3. ~(PushStarts(r) \/ PushEnds(r) \/ PushMarks(r))
      BY <3>1 DEF PushStarts, PushEnds, PushMarks, Resting
    <3> QED BY <2>1, <2>3, <3>2, <3>3
  <2>4. ~ServerStops
    BY DEF ServerStops, Resting
  <2>5. \E u \in Professionals : PushReads(r, u)
    BY <2>1, <2>2, <2>3, <2>4 DEF NoticesNext, DigestSteps, PushSteps, DigestStarts, DigestSends, DigestMarks, DigestEnds,
       DigestReads, CooldownPasses, MarkSeen, UpsertPreference, RegisterSubscription, DeleteSubscription,
       NotifyNewChannelPost
  <2>6. PICK u \in Professionals : PushReads(r, u)
    BY <2>5
  <2>7. push'[r].for = u /\ push'[r].counted = NewFor(u) /\ u \in Users
    BY <2>2, <2>6, PushReadsPush, PostsAssumption
  <2>8. PICK counted : counted = NewFor(u)
    OBVIOUS
  <2> QED BY <2>7, NewForIsNew
<1> QED BY <1>1, TablesInvariance, PushInvariance, PTL DEF CommunitySpec, AnnouncedOnce

(* A push digest clears no badge: the row that markPushNotified makes has   *)
(* nothing seen, and one that is there keeps what was seen.                 *)
THEOREM PushLeavesBadges == CommunitySpec => PushKeepsBadges
<1> DEFINE Step == \A r \in Runs : push[r].at = "marking" /\ push'[r].at = "reading" =>
                      \A u \in Users : Badges(u)' = Badges(u)
<1>1. TablesOK /\ PushOK /\ SettledOK /\ [CommunityNext]_vars => Step
  <2> SUFFICES ASSUME TablesOK, PushOK, SettledOK, [CommunityNext]_vars, NEW r \in Runs,
                      push[r].at = "marking", push'[r].at = "reading", NEW u \in Users
               PROVE  Badges(u)' = Badges(u)
    OBVIOUS
  <2>1. push'[r] # push[r]
    OBVIOUS
  <2>2. NoticesNext /\ UNCHANGED feedVars
    BY <2>1, FeedOrNotices
  <2>3. ASSUME NEW k \in Runs, PushStarts(k) \/ PushEnds(k) \/ PushMarks(k) \/ \E v \in Professionals : PushReads(k, v)
        PROVE  PushMarks(r)
    <3>1. DOMAIN push = Runs
      BY DEF PushOK
    <3>2. \A j \in Runs \ {k} : push'[j] = push[j]
      BY <2>2, <2>3, <3>1, PushReadsPush DEF PushStarts, PushEnds, PushMarks
    <3>3. ~(PushStarts(r) \/ PushEnds(r) \/ \E v \in Professionals : PushReads(r, v))
      BY <3>1 DEF PushStarts, PushEnds, PushReads
    <3> QED BY <2>1, <2>3, <3>2, <3>3
  <2>4. ~ServerStops
    BY DEF ServerStops, Resting
  <2>5. PushMarks(r)
    BY <2>1, <2>2, <2>3, <2>4 DEF NoticesNext, DigestSteps, PushSteps, DigestStarts, DigestSends, DigestMarks, DigestEnds,
       DigestReads, CooldownPasses, MarkSeen, UpsertPreference, RegisterSubscription, DeleteSubscription,
       NotifyNewChannelPost
  <2>6. UNCHANGED <<posts, paid, groups, members>>
    BY <2>2 DEF feedVars, communityVars
  <2>7. GetAccessibleScopes(u)' = GetAccessibleScopes(u)
    BY <2>6 DEF GetAccessibleScopes, IsPaid
  <2>8. ASSUME NEW place \in GetAccessibleScopes(u) PROVE Unread(u, place)' = Unread(u, place)
    <3>1. place \in Places
      BY CommunityAssumption DEF GetAccessibleScopes, Places, TablesOK, CommunityDataTypeOK
    <3> DEFINE x == <<u, place>>
    <3>2. x \in Users \X Places
      BY <3>1
    <3>3. /\ lastSeen[x] \in Rows \cup {NoRow} /\ lastSeen'[x] \in Rows \cup {NoRow} /\ NoRow \notin Rows
          /\ lastSeen[x] \in Rows => lastSeen'[x] \in Rows /\ lastSeen'[x].seen = lastSeen[x].seen
          /\ lastSeen[x] = NoRow /\ lastSeen'[x] \in Rows => lastSeen'[x].seen = {}
      BY <2>2, <2>5, <3>2, PushMarksRow, NoticesAssumption DEF PushOK, Rows
    <3>4. SeenBy(u, place)' = SeenBy(u, place)
      BY <3>3 DEF SeenBy, Row
    <3>5. {p \in PostsOf(place) : Kept(p)}' = {p \in PostsOf(place) : Kept(p)}
      BY <2>6 DEF PostsOf, Kept
    <3> QED BY <3>4, <3>5 DEF Unread
  <2> QED BY <2>7, <2>8 DEF Badges
<1> QED BY <1>1, TablesInvariance, PushInvariance, PTL DEF CommunitySpec, PushKeepsBadges

-----------------------------------------------------------------------------
(* The order of the feed: createdAt and then id, both descending.           *)

LEMMA BeforeIsOrder ==
    ASSUME TablesOK, NEW p \in DOMAIN posts, NEW q \in DOMAIN posts
    PROVE  /\ ~Before(p, p) /\ (p # q => Before(p, q) \/ Before(q, p))
           /\ \A r \in DOMAIN posts : Before(p, q) /\ Before(q, r) => Before(p, r)
<1>1. \A x \in DOMAIN posts : posts[x].at \in Nat /\ x \in Nat
  BY CommunityAssumption DEF TablesOK, CommunityDataTypeOK, PostRecord
<1> QED BY <1>1 DEF Before

Earlier(S, p) == {q \in S : Before(q, p)}

LEMMA EarlierGrows ==
    ASSUME TablesOK, NEW S \in SUBSET DOMAIN posts, NEW p \in S
    PROVE  /\ IsFiniteSet(S) /\ Cardinality(S) \in Nat
           /\ IsFiniteSet(Earlier(S, p)) /\ Cardinality(Earlier(S, p)) \in Nat
           /\ Cardinality(Earlier(S, p)) < Cardinality(S)
           /\ \A q \in S : Before(p, q) => Cardinality(Earlier(S, p)) < Cardinality(Earlier(S, q))
<1>1. IsFiniteSet(S) /\ Cardinality(S) \in Nat
  BY FS_Subset, FS_CardinalityType DEF TablesOK
<1>2. \A q \in S : Earlier(S, q) \subseteq S /\ q \notin Earlier(S, q)
  BY BeforeIsOrder DEF Earlier
<1>3. \A q \in S : IsFiniteSet(Earlier(S, q)) /\ Cardinality(Earlier(S, q)) \in Nat
  BY <1>1, <1>2, FS_Subset, FS_CardinalityType
<1>4. ASSUME NEW T, IsFiniteSet(T), Earlier(S, p) \cup {p} \subseteq T
      PROVE  Cardinality(Earlier(S, p)) < Cardinality(T)
  <2>1. IsFiniteSet(Earlier(S, p)) /\ p \notin Earlier(S, p) /\ Cardinality(Earlier(S, p)) \in Nat
    BY <1>2, <1>3
  <2>2. /\ Cardinality(Earlier(S, p) \cup {p}) = Cardinality(Earlier(S, p)) + 1
        /\ IsFiniteSet(Earlier(S, p) \cup {p})
    BY <2>1, FS_AddElement
  <2>3. Cardinality(Earlier(S, p) \cup {p}) <= Cardinality(T) /\ Cardinality(T) \in Nat
    BY <1>4, FS_Subset, FS_CardinalityType
  <2> QED BY <2>1, <2>2, <2>3
<1>5. ASSUME NEW q \in S, Before(p, q) PROVE Earlier(S, p) \cup {p} \subseteq Earlier(S, q)
  BY <1>5, BeforeIsOrder DEF Earlier
<1>6. Cardinality(Earlier(S, p)) < Cardinality(S)
  BY <1>1, <1>2, <1>4
<1> QED BY <1>1, <1>3, <1>4, <1>5, <1>6

(* Of any posts one is first.                                               *)
LEMMA OneIsFirst ==
    ASSUME TablesOK, NEW S \in SUBSET DOMAIN posts, S # {}
    PROVE  \E p \in S : \A q \in S : ~Before(q, p)
<1> DEFINE T == {n \in Nat : \E p \in S : Cardinality(Earlier(S, p)) = n}
<1>1. T \subseteq Nat /\ T # {}
  <2>1. PICK p \in S : TRUE
    OBVIOUS
  <2>2. Cardinality(Earlier(S, p)) \in T
    BY EarlierGrows
  <2> QED BY <2>2
<1>2. PICK n \in T : \A m \in T : n <= m
  <2> HIDE DEF T
  <2> QED BY <1>1, LeastNumber
<1>3. PICK p \in S : Cardinality(Earlier(S, p)) = n
  OBVIOUS
<1>4. ASSUME NEW q \in S, Before(q, p) PROVE FALSE
  <2>1. Cardinality(Earlier(S, q)) < n /\ Cardinality(Earlier(S, q)) \in Nat
    BY <1>3, <1>4, EarlierGrows
  <2>2. Cardinality(Earlier(S, q)) \in T
    BY <2>1
  <2>3. n <= Cardinality(Earlier(S, q))
    <3> HIDE DEF T
    <3> QED BY <1>2, <2>2
  <2>4. n \in Nat
    OBVIOUS
  <2> QED BY <2>1, <2>3, <2>4
<1> QED BY <1>4

(* The sort of a page: every row once, in the order of the feed.            *)
LEMMA SortedIsSorted ==
    ASSUME TablesOK, NEW rows \in SUBSET DOMAIN posts
    PROVE  LET s == Sorted(rows)
           IN /\ Cardinality(rows) \in Nat /\ IsFiniteSet(rows)
              /\ s \in [1 .. Cardinality(rows) -> rows]
              /\ \A i, j \in 1 .. Cardinality(rows) : i < j => Before(s[i], s[j])
              /\ \A i, j \in 1 .. Cardinality(rows) : s[i] = s[j] => i = j
              /\ \A p \in rows : \E i \in 1 .. Cardinality(rows) : s[i] = p
<1>1. IsFiniteSet(rows) /\ Cardinality(rows) \in Nat
  BY FS_Subset, FS_CardinalityType DEF TablesOK
<1>2. PICK n \in Nat : n = Cardinality(rows)
  BY <1>1
<1>3. Cardinality(1 .. n) = n /\ IsFiniteSet(1 .. n)
  <2>1. 1 \in Int /\ n \in Int
    OBVIOUS
  <2>2. IsFiniteSet(1 .. n) /\ Cardinality(1 .. n) = IF 1 > n THEN 0 ELSE n - 1 + 1
    BY <2>1, FS_Interval
  <2> QED BY <2>2
<1> DEFINE rank == [p \in rows |-> Cardinality(Earlier(rows, p)) + 1]
<1>4. rank \in [rows -> 1 .. n] /\ \A p, q \in rows : Before(p, q) => rank[p] < rank[q]
  <2>1. \A p \in rows : Cardinality(Earlier(rows, p)) \in Nat /\ Cardinality(Earlier(rows, p)) < n
    BY <1>2, EarlierGrows
  <2>2. \A p, q \in rows : Before(p, q) => Cardinality(Earlier(rows, p)) < Cardinality(Earlier(rows, q))
    BY EarlierGrows
  <2> QED BY <2>1, <2>2
<1> HIDE DEF rank
<1>5. \A p, q \in rows : rank[p] \in Nat /\ (p # q => rank[p] < rank[q] \/ rank[q] < rank[p])
  BY <1>4, BeforeIsOrder
<1>6. rank \in Injection(rows, 1 .. n)
  BY <1>4, <1>5 DEF Injection, IsInjective
<1>7. rank \in Surjection(rows, 1 .. n)
  BY <1>2, <1>3, <1>6, FS_Injection
<1>8. \A i \in 1 .. n : \E p \in rows : rank[p] = i
  BY <1>7 DEF Surjection
<1> DEFINE t == [i \in 1 .. n |-> CHOOSE p \in rows : rank[p] = i]
<1>9. t \in [1 .. n -> rows] /\ \A i \in 1 .. n : rank[t[i]] = i
  BY <1>8
<1> HIDE DEF t
<1>10. ASSUME NEW i \in 1 .. n, NEW j \in 1 .. n, i < j PROVE Before(t[i], t[j])
  <2>1. t[i] \in rows /\ t[j] \in rows /\ rank[t[i]] < rank[t[j]]
    BY <1>9, <1>10
  <2>2. ~Before(t[j], t[i]) /\ t[i] # t[j]
    BY <1>4, <1>5, <2>1
  <2> QED BY <2>1, <2>2, BeforeIsOrder
<1>11. \E s \in [1 .. n -> rows] : \A i, j \in DOMAIN s : i < j => Before(s[i], s[j])
  BY <1>9, <1>10
<1> DEFINE s == Sorted(rows)
<1>12. s \in [1 .. n -> rows] /\ \A i, j \in DOMAIN s : i < j => Before(s[i], s[j])
  BY <1>2, <1>11 DEF Sorted
<1> HIDE DEF s
<1>13. \A i, j \in 1 .. n : i < j => Before(s[i], s[j])
  BY <1>12
<1>14. \A i, j \in 1 .. n : s[i] = s[j] => i = j
  <2>1. ASSUME NEW i \in 1 .. n, NEW j \in 1 .. n, i < j PROVE s[i] # s[j]
    BY <1>12, <1>13, <2>1, BeforeIsOrder
  <2> QED BY <2>1
<1>15. s \in Surjection(1 .. n, rows)
  <2>1. s \in Injection(1 .. n, rows)
    BY <1>12, <1>14 DEF Injection, IsInjective
  <2> QED BY <1>1, <1>2, <1>3, <2>1, FS_Injection
<1>16. \A p \in rows : \E i \in 1 .. n : s[i] = p
  BY <1>15 DEF Surjection
<1> QED BY <1>1, <1>2, <1>12, <1>13, <1>14, <1>16 DEF s

(* The first n + 1 rows of a table are enough for a page of n: what is left *)
(* out comes after a row that was read and did not fit on the page.         *)
LEMMA TakeIsEnough ==
    ASSUME TablesOK, NEW found \in SUBSET DOMAIN posts, NEW n \in Nat,
           NEW page, IsFiniteSet(page), Cardinality(page) <= n,
           NEW q \in found, q \notin Take(found, n + 1)
    PROVE  \E p \in Take(found, n + 1) : p \notin page /\ Before(p, q)
<1>1. Cardinality(Earlier(found, q)) >= n + 1 /\ IsFiniteSet(Earlier(found, q)) /\ Cardinality(page) \in Nat
  <2>1. Cardinality(Earlier(found, q)) \in Nat /\ IsFiniteSet(Earlier(found, q))
    BY EarlierGrows
  <2>2. ~(Cardinality(Earlier(found, q)) < n + 1)
    BY DEF Take, Earlier
  <2> QED BY <2>1, <2>2, FS_CardinalityType
<1> DEFINE E == Earlier(found, q) \ page
<1>2. E # {}
  <2>1. SUFFICES ASSUME Earlier(found, q) \subseteq page PROVE FALSE
    OBVIOUS
  <2>2. Cardinality(Earlier(found, q)) <= Cardinality(page) /\ Cardinality(Earlier(found, q)) \in Nat
    BY <1>1, <2>1, FS_Subset, FS_CardinalityType
  <2> QED BY <1>1, <2>2
<1>3. E \in SUBSET DOMAIN posts /\ E \subseteq found
  BY DEF Earlier
<1>4. PICK p \in E : \A r \in E : ~Before(r, p)
  <2> HIDE DEF E
  <2> QED BY <1>2, <1>3, OneIsFirst
<1>5. p \in found /\ Before(p, q) /\ p \notin page
  BY DEF Earlier
<1>6. Earlier(found, p) \subseteq page
  BY <1>4, <1>5, BeforeIsOrder DEF Earlier
<1>7. Cardinality(Earlier(found, p)) < n + 1
  <2>1. Cardinality(Earlier(found, p)) <= Cardinality(page) /\ Cardinality(Earlier(found, p)) \in Nat
    BY <1>6, FS_Subset, FS_CardinalityType
  <2> QED BY <1>1, <2>1
<1> QED BY <1>5, <1>7 DEF Take, Earlier

HasMore(merged) == Len(merged) > PageSize
PageOf(merged) == SubSeq(merged, 1, IF HasMore(merged) THEN PageSize ELSE Len(merged))

Found(u, cursor) == {p \in FeedOf(u) : After(cursor, p)}

(* A page of getFeed: no post twice, none that the cursor excludes, and     *)
(* everything that is found before the page's last post; without a next     *)
(* page, everything that is found.                                          *)
LEMMA PageIsExact ==
    ASSUME TablesOK, NEW u, NEW cursor
    PROVE  LET merged == Merged(u, cursor)
               page == PageOf(merged)
               found == Found(u, cursor)
           IN /\ page \in Seq(PostIds) /\ IsInjective(page) /\ Range(page) \subseteq found
              /\ found \subseteq DOMAIN posts /\ HasMore(merged) \in BOOLEAN
              /\ ~HasMore(merged) => found \subseteq Range(page)
              /\ HasMore(merged) =>
                   /\ Last(page) \in Range(page)
                   /\ \A p \in Range(page) : p = Last(page) \/ Before(p, Last(page))
                   /\ \A q \in found \ Range(page) : Before(Last(page), q)
<1> DEFINE found == Found(u, cursor)
           inGroups == {p \in found : IsGroup(posts[p].place)}
           rows == Take(found \ inGroups, PageSize + 1) \cup Take(inGroups, PageSize + 1)
           merged == Sorted(rows)
           page == PageOf(merged)
<1>1. found \in SUBSET DOMAIN posts /\ inGroups \in SUBSET found /\ DOMAIN posts \subseteq PostIds
  BY DEF Found, FeedOf, TablesOK, CommunityDataTypeOK
<1>2. rows \in SUBSET found
  BY <1>1 DEF Take
<1>3. Merged(u, cursor) = merged
  BY DEF Merged, Found
<1>4. PICK n \in Nat : n = Cardinality(rows)
  <2> HIDE DEF rows, found
  <2> QED BY <1>1, <1>2, SortedIsSorted
<1>5. /\ merged \in [1 .. n -> rows] /\ IsFiniteSet(rows)
      /\ \A i, j \in 1 .. n : i < j => Before(merged[i], merged[j])
      /\ \A i, j \in 1 .. n : merged[i] = merged[j] => i = j
      /\ \A p \in rows : \E i \in 1 .. n : merged[i] = p
  <2> HIDE DEF rows, found
  <2> QED BY <1>1, <1>2, <1>4, SortedIsSorted
<1> HIDE DEF merged
<1>6. Len(merged) = n /\ PageSize \in Nat \ {0}
  BY <1>5, FeedAssumption
<1> DEFINE m == IF n > PageSize THEN PageSize ELSE n
<1>7. m \in Nat /\ m <= n /\ m <= PageSize /\ (HasMore(merged) <=> n > PageSize) /\ (n > PageSize => m = PageSize /\ m < n)
  BY <1>6 DEF HasMore
<1>8. page = SubSeq(merged, 1, m)
  BY <1>6, <1>7 DEF PageOf
<1> HIDE DEF m, page, rows
<1>9. /\ page \in Seq(PostIds) /\ Len(page) = m /\ DOMAIN page = 1 .. m
      /\ \A i \in 1 .. m : page[i] = merged[i] /\ i \in 1 .. n /\ merged[i] \in rows
  <2>1. \A i \in 1 .. m : merged[i] \in PostIds /\ i \in 1 .. n /\ merged[i] \in rows
    BY <1>1, <1>2, <1>5, <1>7
  <2>2. 1 \in Int /\ m \in Int
    BY <1>7
  <2>3. /\ SubSeq(merged, 1, m) \in Seq(PostIds)
        /\ Len(SubSeq(merged, 1, m)) = IF 1 <= m THEN m - 1 + 1 ELSE 0
        /\ \A i \in 1 .. m - 1 + 1 : SubSeq(merged, 1, m)[i] = merged[1 + i - 1]
    BY <2>1, <2>2, SubSeqProperties
  <2>4. Len(page) = m
    BY <1>7, <1>8, <2>3
  <2>5. \A i \in 1 .. m : page[i] = merged[i]
    BY <1>7, <1>8, <2>3
  <2> QED BY <1>8, <2>1, <2>3, <2>4, <2>5, LenProperties
<1>10. IsInjective(page)
  BY <1>5, <1>9 DEF IsInjective
<1>11. Range(page) = {merged[i] : i \in 1 .. m} /\ Range(page) \subseteq rows
  BY <1>9 DEF Range
<1>12. IsFiniteSet(Range(page)) /\ Cardinality(Range(page)) <= PageSize
  <2> DEFINE f == [i \in 1 .. m |-> merged[i]]
  <2>1. f \in Surjection(1 .. m, Range(page))
    BY <1>11 DEF Surjection
  <2>2. IsFiniteSet(1 .. m) /\ Cardinality(1 .. m) = m
    <3>1. 1 \in Int /\ m \in Int
      BY <1>7
    <3>2. IsFiniteSet(1 .. m) /\ Cardinality(1 .. m) = IF 1 > m THEN 0 ELSE m - 1 + 1
      BY <3>1, FS_Interval
    <3> QED BY <1>7, <3>2
  <2> HIDE DEF f
  <2>3. IsFiniteSet(Range(page)) /\ Cardinality(Range(page)) <= Cardinality(1 .. m)
    BY <2>1, <2>2, FS_Surjection
  <2>4. Cardinality(Range(page)) \in Nat
    BY <2>3, FS_CardinalityType
  <2> QED BY <1>6, <1>7, <2>2, <2>3, <2>4
<1>13. \A q \in found : q \notin rows => \E p \in rows : p \notin Range(page) /\ Before(p, q)
  <2> SUFFICES ASSUME NEW q \in found, q \notin rows PROVE \E p \in rows : p \notin Range(page) /\ Before(p, q)
    OBVIOUS
  <2>1. PICK table \in {found \ inGroups, inGroups} : q \in table
    OBVIOUS
  <2>2. Take(table, PageSize + 1) \subseteq rows /\ table \in SUBSET DOMAIN posts
    BY <1>1, <2>1 DEF rows
  <2>3. q \notin Take(table, PageSize + 1)
    BY <2>2
  <2> HIDE DEF found, inGroups
  <2>4. \E p \in Take(table, PageSize + 1) : p \notin Range(page) /\ Before(p, q)
    BY <1>6, <1>12, <2>1, <2>2, <2>3, TakeIsEnough
  <2> QED BY <2>2, <2>4
<1> HIDE DEF found, inGroups
<1>14. ASSUME ~HasMore(merged) PROVE found \subseteq Range(page)
  <2>1. rows \subseteq Range(page)
    <3>1. m = n
      BY <1>7, <1>14 DEF m
    <3> QED BY <1>5, <1>11, <3>1
  <2> QED BY <1>13, <2>1
<1>15. ASSUME HasMore(merged)
       PROVE  /\ Last(page) \in Range(page)
              /\ \A p \in Range(page) : p = Last(page) \/ Before(p, Last(page))
              /\ \A q \in found \ Range(page) : Before(Last(page), q)
  <2>1. m \in 1 .. n /\ m \in 1 .. m /\ m < n
    BY <1>6, <1>7, <1>15
  <2>2. Last(page) = merged[m] /\ merged[m] \in rows
    BY <1>9, <2>1 DEF Last
  <2>3. \A p \in Range(page) : p = merged[m] \/ Before(p, merged[m])
    <3> SUFFICES ASSUME NEW i \in 1 .. m PROVE merged[i] = merged[m] \/ Before(merged[i], merged[m])
      BY <1>11
    <3>1. i \in 1 .. n /\ (i = m \/ i < m)
      BY <2>1
    <3> QED BY <1>5, <2>1, <3>1
  <2>4. \A p \in rows \ Range(page) : Before(merged[m], p)
    <3> SUFFICES ASSUME NEW p \in rows \ Range(page) PROVE Before(merged[m], p)
      OBVIOUS
    <3>1. PICK i \in 1 .. n : merged[i] = p
      BY <1>5
    <3>2. i \notin 1 .. m
      BY <1>11, <3>1
    <3>3. m < i
      BY <2>1, <3>2
    <3> QED BY <1>5, <2>1, <3>1, <3>3
  <2>5. ASSUME NEW q \in found \ Range(page) PROVE Before(merged[m], q)
    <3>1. CASE q \in rows
      BY <2>4, <3>1
    <3>2. CASE q \notin rows
      <4>1. PICK p \in rows : p \notin Range(page) /\ Before(p, q)
        BY <1>13, <3>2
      <4>2. Before(merged[m], p)
        BY <2>4, <4>1
      <4>3. merged[m] \in DOMAIN posts /\ p \in DOMAIN posts /\ q \in DOMAIN posts
        BY <1>1, <1>2, <2>2
      <4> QED BY <4>1, <4>2, <4>3, BeforeIsOrder
    <3> QED BY <3>1, <3>2
  <2> QED BY <1>11, <2>1, <2>2, <2>3, <2>5
<1>16. HasMore(merged) \in BOOLEAN
  BY DEF HasMore
<1>17. page \in Seq(PostIds) /\ IsInjective(page) /\ Range(page) \subseteq found /\ found \subseteq DOMAIN posts
  BY <1>1, <1>2, <1>9, <1>10, <1>11
<1> HIDE DEF found, inGroups
<1> QED BY <1>3, <1>14, <1>15, <1>16, <1>17 DEF page, found

-----------------------------------------------------------------------------
(* A reader's way through the feed.  What was shown is at or before the     *)
(* cursor, or gone; what was in the feed all along was shown, or comes      *)
(* after the cursor.                                                        *)

Walks == [open : BOOLEAN, by : Users \cup {"nobody"}, cursor : [at : Nat, id : Nat],
          shown : Seq(PostIds), there : SUBSET PostIds]

ShownOK == \A p \in Range(walk.shown) : Made(p) /\ (p \in DOMAIN posts => ~After(walk.cursor, p))

ThereOK == /\ walk.there \subseteq FeedOf(walk.by)
           /\ \A p \in walk.there : p \in Range(walk.shown) \/ After(walk.cursor, p)

WalkOK ==
    /\ walk \in Walks /\ IsInjective(walk.shown)
    /\ walk.open => walk.by \in Users /\ ShownOK /\ ThereOK
    /\ walk.by \in Users /\ ~walk.open => walk.there \subseteq Range(walk.shown)

LEMMA NoWalkOK == NoWalk \in Walks /\ IsInjective(NoWalk.shown) /\ NoWalk.there = {} /\ ~NoWalk.open /\ Range(NoWalk.shown) = {}
<1>1. Start \in [at : Nat, id : Nat]
  BY CommunityAssumption DEF Start
<1>2. <<>> \in Seq(PostIds) /\ {} \in SUBSET PostIds /\ IsInjective(<<>>) /\ Range(<<>>) = {}
  BY EmptySeq DEF IsInjective, Range
<1> QED BY <1>1, <1>2 DEF NoWalk, Walks

LEMMA OpenFeedWalk ==
    ASSUME TablesOK, QuotaOK, WalkOK, NEW u \in Users, OpenFeed(u)
    PROVE  WalkOK'
<1>1. walk' = [NoWalk EXCEPT !.open = TRUE, !.by = u, !.there = FeedOf(u)] /\ UNCHANGED <<communityVars, postVars>>
  BY DEF OpenFeed
<1>2. FeedOf(u) \in SUBSET DOMAIN posts /\ DOMAIN posts \subseteq PostIds /\ FeedOf(u)' = FeedOf(u)
  BY <1>1 DEF FeedOf, TablesOK, CommunityDataTypeOK, communityVars, GetAccessibleScopes, Available, Kept, IsPaid
<1>3. /\ walk' \in Walks /\ walk'.open /\ walk'.by = u /\ walk'.there = FeedOf(u) /\ walk'.cursor = Start
      /\ walk'.shown = <<>>
  <2>1. NoWalk \in Walks
    BY NoWalkOK
  <2>2. NoWalk.cursor = Start /\ NoWalk.shown = <<>>
    BY DEF NoWalk
  <2> QED BY <1>1, <1>2, <2>1, <2>2 DEF Walks
<1>4. IsInjective(<<>>) /\ Range(<<>>) = {}
  BY DEF IsInjective, Range
<1>5. \A p \in DOMAIN posts : After(Start, p)
  BY CommunityAssumption DEF After, Start, QuotaOK, TablesOK, CommunityDataTypeOK, PostRecord
<1>6. UNCHANGED <<posts, paid, groups, members>>
  BY <1>1 DEF communityVars
<1>7. ShownOK'
  BY <1>3, <1>4 DEF ShownOK
<1>8. ThereOK'
  <2>1. walk'.there \subseteq FeedOf(walk.by)'
    BY <1>3, <1>6 DEF FeedOf, GetAccessibleScopes, Available, Kept, IsPaid
  <2>2. \A p \in walk'.there : After(walk.cursor, p)'
    BY <1>2, <1>3, <1>5, <1>6 DEF After
  <2> QED BY <2>1, <2>2 DEF ThereOK
<1> QED BY <1>3, <1>4, <1>7, <1>8 DEF WalkOK

(* The next cursor is the last post of the page.                            *)
LEMMA NextCursorIsLast ==
    ASSUME TablesOK, NEW page, Last(page) \in DOMAIN posts
    PROVE  /\ NextCursor(page) \in [at : Nat, id : Nat]
           /\ \A p \in DOMAIN posts : After(NextCursor(page), p) <=> Before(Last(page), p)
<1>1. \A p \in DOMAIN posts : p \in Nat /\ posts[p].at \in Nat
  BY CommunityAssumption DEF TablesOK, CommunityDataTypeOK, PostRecord
<1> QED BY <1>1 DEF NextCursor, After, Before

(* The posts of a page come after those that were shown.                    *)
LEMMA GetFeedWalk ==
    ASSUME TablesOK, WalkOK, GetFeed
    PROVE  WalkOK'
<1> DEFINE u == walk.by
           cursor == walk.cursor
           merged == Merged(u, cursor)
           page == PageOf(merged)
           found == Found(u, cursor)
<1>1. PICK w : w = walk
  OBVIOUS
<1>2. /\ w.open /\ UNCHANGED <<communityVars, postVars>>
      /\ walk' = [w EXCEPT !.shown = @ \o page, !.open = HasMore(merged),
                           !.cursor = IF HasMore(merged) THEN NextCursor(page) ELSE @]
  BY <1>1 DEF GetFeed, HasMore, PageOf
<1>3. /\ w \in Walks /\ IsInjective(w.shown) /\ w.by \in Users /\ w.there \subseteq FeedOf(u)
      /\ \A p \in Range(w.shown) : Made(p) /\ (p \in DOMAIN posts => ~After(cursor, p))
      /\ \A p \in w.there : p \in Range(w.shown) \/ After(cursor, p)
  BY <1>1, <1>2 DEF WalkOK, ShownOK, ThereOK
<1>4. /\ page \in Seq(PostIds) /\ IsInjective(page) /\ Range(page) \subseteq found
      /\ found \subseteq DOMAIN posts /\ HasMore(merged) \in BOOLEAN
      /\ ~HasMore(merged) => found \subseteq Range(page)
      /\ HasMore(merged) =>
           /\ Last(page) \in Range(page)
           /\ \A p \in Range(page) : p = Last(page) \/ Before(p, Last(page))
           /\ \A q \in found \ Range(page) : Before(Last(page), q)
  BY PageIsExact
<1>5. found = {p \in FeedOf(u) : After(cursor, p)} /\ \A p \in DOMAIN posts : Made(p)
  BY DEF Found, TablesOK, Made
<1> HIDE DEF page, merged, found, u, cursor
<1>6. PICK next : /\ HasMore(merged) => next = NextCursor(page)
                  /\ ~HasMore(merged) => next = w.cursor
  OBVIOUS
<1>7. HasMore(merged) =>
        /\ Last(page) \in DOMAIN posts /\ next \in [at : Nat, id : Nat]
        /\ \A p \in DOMAIN posts : After(next, p) <=> Before(Last(page), p)
  BY <1>4, <1>6, NextCursorIsLast
<1>8. /\ walk'.shown = w.shown \o page /\ walk'.open = HasMore(merged) /\ walk'.cursor = next
      /\ walk'.by = w.by /\ walk'.there = w.there
  BY <1>2, <1>3, <1>6 DEF Walks
<1>9. w.shown \in Seq(PostIds) /\ w.shown \o page \in Seq(PostIds)
  BY <1>3, <1>4, ConcatProperties DEF Walks
<1>10. walk' \in Walks
  <2>1. next \in [at : Nat, id : Nat]
    BY <1>3, <1>4, <1>6, <1>7 DEF Walks
  <2>2. walk' = [w EXCEPT !.shown = w.shown \o page, !.open = HasMore(merged), !.cursor = next]
    BY <1>2, <1>3, <1>6 DEF Walks
  <2> QED BY <1>3, <1>4, <1>9, <2>1, <2>2 DEF Walks
<1>11. Range(w.shown \o page) = Range(w.shown) \cup Range(page) /\ IsInjective(w.shown \o page)
  <2> DEFINE a == w.shown
             s == a \o page
  <2> HIDE DEF a
  <2>1. a \in Seq(PostIds) /\ page \in Seq(PostIds) /\ IsInjective(a) /\ IsInjective(page)
    BY <1>3, <1>4, <1>9 DEF a
  <2>2. /\ Len(a) \in Nat /\ Len(page) \in Nat /\ DOMAIN a = 1 .. Len(a) /\ DOMAIN page = 1 .. Len(page)
        /\ DOMAIN s = 1 .. Len(a) + Len(page)
        /\ \A i \in 1 .. Len(a) + Len(page) : s[i] = IF i <= Len(a) THEN a[i] ELSE page[i - Len(a)]
    BY <2>1, ConcatProperties, LenProperties
  <2>3. \A p \in Range(a) : p \notin Range(page)
    BY <1>3, <1>4, <1>5 DEF a
  <2> HIDE DEF s
  <2>4. \A i \in 1 .. Len(a) + Len(page) :
          IF i <= Len(a) THEN i \in DOMAIN a /\ s[i] = a[i]
          ELSE i - Len(a) \in DOMAIN page /\ s[i] = page[i - Len(a)]
    BY <2>2
  <2>5. Range(s) \subseteq Range(a) \cup Range(page)
    BY <2>2, <2>4 DEF Range
  <2>6. Range(a) \subseteq Range(s)
    <3>1. \A i \in DOMAIN a : i \in DOMAIN s /\ s[i] = a[i]
      BY <2>2
    <3> QED BY <3>1 DEF Range
  <2>7. Range(page) \subseteq Range(s)
    <3>1. \A i \in DOMAIN page : i + Len(a) \in DOMAIN s /\ s[i + Len(a)] = page[i]
      BY <2>2
    <3> QED BY <3>1 DEF Range
  <2>8. IsInjective(s)
    <3> SUFFICES ASSUME NEW i \in DOMAIN s, NEW j \in DOMAIN s, s[i] = s[j] PROVE i = j
      BY DEF IsInjective
    <3>1. CASE i <= Len(a) /\ j <= Len(a)
      BY <2>1, <2>2, <2>4, <3>1 DEF IsInjective
    <3>2. CASE ~(i <= Len(a)) /\ ~(j <= Len(a))
      <4>1. i - Len(a) \in DOMAIN page /\ j - Len(a) \in DOMAIN page /\ page[i - Len(a)] = page[j - Len(a)]
        BY <2>2, <2>4, <3>2
      <4>2. i - Len(a) = j - Len(a)
        BY <2>1, <4>1 DEF IsInjective
      <4> QED BY <2>2, <4>2
    <3>3. CASE i <= Len(a) /\ ~(j <= Len(a))
      <4>1. s[i] \in Range(a) /\ s[j] \in Range(page)
        BY <2>2, <2>4, <3>3 DEF Range
      <4> QED BY <2>3, <4>1
    <3>4. CASE ~(i <= Len(a)) /\ j <= Len(a)
      <4>1. s[j] \in Range(a) /\ s[i] \in Range(page)
        BY <2>2, <2>4, <3>4 DEF Range
      <4> QED BY <2>3, <4>1
    <3> QED BY <3>1, <3>2, <3>3, <3>4
  <2> QED BY <2>5, <2>6, <2>7, <2>8 DEF a, s
<1>12. ASSUME HasMore(merged)
       PROVE  /\ \A p \in Range(w.shown) \cup Range(page) : Made(p) /\ (p \in DOMAIN posts => ~After(next, p))
              /\ \A p \in w.there : p \in Range(w.shown) \cup Range(page) \/ After(next, p)
  <2>1. Last(page) \in DOMAIN posts /\ After(cursor, Last(page))
    BY <1>4, <1>5, <1>12
  <2>2. ASSUME NEW p \in Range(page) PROVE Made(p) /\ ~After(next, p)
    <3>1. p \in DOMAIN posts /\ (p = Last(page) \/ Before(p, Last(page)))
      BY <1>4, <1>12
    <3>2. ~Before(Last(page), p)
      BY <2>1, <3>1, BeforeIsOrder
    <3> QED BY <1>5, <1>7, <1>12, <3>1, <3>2
  <2>3. ASSUME NEW p \in Range(w.shown) PROVE Made(p) /\ (p \in DOMAIN posts => ~After(next, p))
    <3>1. ASSUME p \in DOMAIN posts, Before(Last(page), p) PROVE After(cursor, p)
      <4>1. /\ posts[p].at \in Nat /\ posts[Last(page)].at \in Nat /\ p \in Nat /\ Last(page) \in Nat
            /\ cursor.at \in Nat /\ cursor.id \in Nat
        BY <1>1, <1>3, <2>1, <3>1, CommunityAssumption DEF TablesOK, CommunityDataTypeOK, PostRecord, Walks, cursor
      <4> QED BY <2>1, <3>1, <4>1 DEF After, Before
    <3> QED BY <1>3, <1>7, <1>12, <3>1
  <2>4. ASSUME NEW p \in w.there PROVE p \in Range(w.shown) \cup Range(page) \/ After(next, p)
    <3>1. p \in Range(w.shown) \/ p \in found
      BY <1>3, <1>5
    <3> QED BY <1>4, <1>7, <1>12, <3>1
  <2> QED BY <2>2, <2>3, <2>4
<1>13. ASSUME ~HasMore(merged) PROVE w.there \subseteq Range(w.shown) \cup Range(page)
  BY <1>3, <1>4, <1>5, <1>13
<1>14. UNCHANGED <<posts, paid, groups, members, made>>
  BY <1>2 DEF communityVars, postVars
<1>15. HasMore(merged) => ShownOK'
  BY <1>8, <1>11, <1>12, <1>14 DEF ShownOK, Made, After
<1>16. HasMore(merged) => ThereOK'
  <2> SUFFICES ASSUME HasMore(merged) PROVE ThereOK'
    OBVIOUS
  <2>1. walk'.there \subseteq FeedOf(walk.by)'
    BY <1>1, <1>3, <1>8, <1>14 DEF FeedOf, GetAccessibleScopes, Available, Kept, IsPaid, u
  <2>2. \A p \in walk'.there : p \in Range(walk'.shown) \/ After(walk.cursor, p)'
    BY <1>8, <1>11, <1>12, <1>14 DEF After
  <2> QED BY <2>1, <2>2 DEF ThereOK
<1> QED BY <1>3, <1>4, <1>8, <1>10, <1>11, <1>13, <1>15, <1>16 DEF WalkOK

(* What the others do takes posts out of the feed, and the reader no longer *)
(* counts on those.                                                         *)
LEMMA OthersWalk ==
    ASSUME TablesOK, WalkOK, Others
    PROVE  WalkOK'
<1>1. PICK w : w = walk
  OBVIOUS
<1>2. /\ made \subseteq made'
      /\ \A p \in DOMAIN posts' : Made(p) => p \in DOMAIN posts /\ SamePost(p)
  BY PlacesKept DEF Others
<1>3. /\ w \in Walks /\ IsInjective(w.shown)
      /\ w.open => w.by \in Users /\ ShownOK /\ ThereOK
      /\ w.by \in Users /\ ~w.open => w.there \subseteq Range(w.shown)
  BY <1>1 DEF WalkOK
<1>4. CASE ~w.open
  <2>1. walk' = w
    BY <1>1, <1>4 DEF Others
  <2> QED BY <1>3, <1>4, <2>1 DEF WalkOK
<1>5. CASE w.open
  <2>1. PICK kept : kept = w.there \cap (Feeds')[w.by]
    OBVIOUS
  <2>2. walk' = [w EXCEPT !.there = kept]
    BY <1>1, <1>5, <2>1 DEF Others
  <2>3. /\ walk'.open = w.open /\ walk'.by = w.by /\ walk'.cursor = w.cursor /\ walk'.shown = w.shown
        /\ walk'.there = kept
    BY <1>3, <2>2 DEF Walks
  <2>4. kept \subseteq w.there /\ walk' \in Walks
    BY <1>3, <2>1, <2>2 DEF Walks
  <2>5. kept \subseteq FeedOf(walk.by)'
    BY <1>3, <1>5, <2>1, <2>3 DEF Feeds, FeedOf, GetAccessibleScopes, Available, Kept, IsPaid
  <2>6. ShownOK'
    <3>1. \A p \in Range(w.shown) : Made(p) /\ (p \in DOMAIN posts => ~After(w.cursor, p))
      BY <1>1, <1>3, <1>5 DEF ShownOK
    <3> QED BY <1>2, <2>3, <3>1 DEF ShownOK, Made, SamePost, After
  <2>7. ThereOK'
    <3>1. ASSUME NEW p \in kept PROVE p \in Range(w.shown) \/ After(walk.cursor, p)'
      <4>1. p \in DOMAIN posts /\ p \in DOMAIN posts' /\ (p \in Range(w.shown) \/ After(w.cursor, p))
        BY <1>1, <1>3, <1>5, <2>4, <2>5 DEF ThereOK, FeedOf, Available, Kept
      <4>2. SamePost(p)
        BY <1>2, <4>1 DEF TablesOK, Made
      <4> QED BY <2>3, <4>1, <4>2 DEF After, SamePost
    <3> QED BY <2>3, <2>5, <3>1 DEF ThereOK
  <2> QED BY <1>3, <1>5, <2>3, <2>4, <2>6, <2>7 DEF WalkOK
<1> QED BY <1>4, <1>5

LEMMA StillWalk ==
    ASSUME WalkOK, UNCHANGED feedVars
    PROVE  WalkOK'
<1>1. UNCHANGED <<posts, paid, groups, members, made, walk>>
  BY DEF feedVars, communityVars, postVars
<1>2. walk.open => ShownOK'
  BY <1>1 DEF WalkOK, ShownOK, Made, After
<1>3. walk.open => ThereOK'
  BY <1>1 DEF WalkOK, ThereOK, FeedOf, GetAccessibleScopes, Available, Kept, IsPaid, After
<1> QED BY <1>1, <1>2, <1>3 DEF WalkOK

LEMMA WalkInvariance == CommunitySpec => []WalkOK
<1>1. Init => WalkOK
  BY NoWalkOK DEF Init, FeedInit, WalkOK
<1>2. TablesOK /\ QuotaOK /\ WalkOK /\ [CommunityNext]_vars => WalkOK'
  <2> SUFFICES ASSUME TablesOK, QuotaOK, WalkOK, [CommunityNext]_vars PROVE WalkOK'
    OBVIOUS
  <2>1. CASE UNCHANGED feedVars
    BY <2>1, StillWalk
  <2>2. CASE FeedNext
    BY <2>2, OpenFeedWalk, GetFeedWalk, OthersWalk DEF FeedNext
  <2> QED BY <2>1, <2>2 DEF CommunityNext, vars
<1> QED BY <1>1, <1>2, TablesInvariance, LimitsInvariance, PTL DEF CommunitySpec

(* A reader who pages to the end of the feed is shown no post twice, and    *)
(* every post that was in the feed all along, whatever others post, pause   *)
(* or delete between two pages (CommunityService.getFeed).                  *)
THEOREM FeedWalk == CommunitySpec => []FeedWalkIsExact
<1>1. WalkOK => FeedWalkIsExact
  BY DEF WalkOK, FeedWalkIsExact
<1> QED BY <1>1, WalkInvariance, PTL

(* Type correctness of the community: its tables, the handlers that run and *)
(* the reader's walk through the feed.                                      *)
THEOREM FeedTypes == CommunitySpec => []FeedTypeOK
<1>1. TablesOK /\ WalkOK => FeedTypeOK
  <2> SUFFICES ASSUME TablesOK, WalkOK PROVE FeedTypeOK
    OBVIOUS
  <2>1. walk.there \subseteq PostIds /\ Range(walk.shown) \subseteq PostIds
    BY DEF WalkOK, Walks, Range
  <2> QED BY <2>1 DEF FeedTypeOK, TablesOK, Reactions, Images
<1> QED BY <1>1, TablesInvariance, WalkInvariance, PTL
=============================================================================
