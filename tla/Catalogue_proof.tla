-------------------------- MODULE Catalogue_proof --------------------------
(* Proofs about Taxonomy and Discounts, for any rows, handlers, scenarios.  *)
(*                                                                          *)
(* Taxonomy: a row is inserted or moved on what was checked earlier.  The   *)
(* checks last because categories are neither removed nor given another     *)
(* level (Lasts); what does not last, that a parent is active or a category *)
(* childless, is only claimed where one request is served at a time and     *)
(* nothing is updated by hand.                                              *)
(*                                                                          *)
(* Discounts: what the two jobs know of the rows of their snapshots         *)
(* (PriceInv), and a count of the periods that rows take and handlers in    *)
(* flight claim (PeriodsOK): a handler turns its claim into a row.          *)
EXTENDS Taxonomy, Discounts, Service_proof

Parents == CategoryIds \cup {NoParent}

TaxonomyCalls ==
    {Idle} \cup [op : {"createCategory"}, level : 1 .. 3, parent : Parents, slug : Slugs]
           \cup [op : {"updateCategory"}, id : CategoryIds, given : SUBSET CategoryFields, slug : Slugs,
              parent : Parents, active : BOOLEAN]
           \cup [op : {"deactivateCategory"}, id : CategoryIds]

(* A handler was offered what it does, and runs alone unless in parallel.   *)
TaxonomyHandlersOK ==
    /\ call \in [Handlers -> TaxonomyCalls]
    /\ \A h \in Handlers : call[h] = Idle \/ Offered(call[h].op)
    /\ \A h, k \in Handlers : call[h] = Idle \/ call[k] = Idle \/ h = k \/ Offered("parallel")

(* A category of this level may hang from this parent.                      *)
Hangs(level, parent) ==
    IF level = 1 THEN parent = NoParent
    ELSE parent \in DOMAIN categories /\ categories[parent].level = level - 1

LevelsOK == \A c \in DOMAIN categories : Hangs(categories[c].level, categories[c].parent)

SlugsOK == \A c, d \in DOMAIN categories : categories[c].slug = categories[d].slug => c = d

(* What a handler in flight still knows of the rows it checked.             *)
ChecksLast ==
    \A h \in Handlers :
        /\ call[h].op = "createCategory" => Hangs(call[h].level, call[h].parent)
        /\ call[h].op = "updateCategory" =>
               call[h].id \in DOMAIN categories /\ Hangs(categories[call[h].id].level, call[h].parent)
        /\ call[h].op = "deactivateCategory" => call[h].id \in DOMAIN categories

Calm == ~Offered("updateCategory") /\ ~Offered("parallel")

CalmTree ==
    \A c \in DOMAIN categories : Active(c) /\ categories[c].level > 1 => Active(categories[c].parent)

(* ... and, where it runs alone, of what may change.                        *)
CalmChecks ==
    \A h \in Handlers :
        /\ call[h].op = "createCategory" /\ call[h].level > 1 => Active(call[h].parent)
        /\ call[h].op = "deactivateCategory" => \A d \in ChildrenOf(call[h].id) : ~Active(d)

TaxonomyInv ==
    /\ TaxonomyTypeOK /\ TaxonomyHandlersOK /\ LevelsOK /\ SlugsOK /\ ChecksLast
    /\ Calm => CalmTree /\ CalmChecks

-----------------------------------------------------------------------------
(* The named parts are what TreeIsSound says: the two remaining conjuncts,  *)
(* on the trees that are shown, follow from the levels.                     *)
LEMMA TreeFollows == TaxonomyInv => TreeIsSound
<1> SUFFICES ASSUME TaxonomyInv PROVE TreeIsSound
  OBVIOUS
<1>1. \A c \in DOMAIN categories :
         /\ categories[c].level \in 1 .. 3
         /\ IF categories[c].level = 1 THEN categories[c].parent = NoParent
            ELSE /\ categories[c].parent \in DOMAIN categories
                 /\ categories[categories[c].parent].level = categories[c].level - 1
  BY DEF TaxonomyInv, TaxonomyTypeOK, CategoryRecord, LevelsOK, Hangs
<1>2. ASSUME NEW r \in DOMAIN categories PROVE FindProfessionsByRubro(r) \subseteq PublicTree
  <2> SUFFICES ASSUME NEW p \in FindProfessionsByRubro(r) PROVE p \in PublicTree
    OBVIOUS
  <2>1. /\ categories[r].level = 1 /\ Active(r) /\ p \in DOMAIN categories /\ Active(p)
        /\ \E s \in ChildrenOf(r) : Active(s) /\ p \in ChildrenOf(s)
    BY DEF FindProfessionsByRubro
  <2>2. PICK s \in ChildrenOf(r) : Active(s) /\ p \in ChildrenOf(s)
    BY <2>1
  <2> DEFINE rubros == {c \in DOMAIN categories : categories[c].level = 1 /\ Active(c)}
             below(S) == {d \in UNION {ChildrenOf(c) : c \in S} : Active(d)}
  <2>3. r \in rubros
    BY <2>1
  <2>4. s \in below(rubros)
    BY <2>2, <2>3
  <2>5. p \in below(below(rubros))
    <3> HIDE DEF rubros
    <3> QED BY <2>1, <2>2, <2>4
  <2> QED BY <2>5 DEF PublicTree
<1>3. ASSUME NEW c \in DOMAIN categories
      PROVE  \/ c \in FindRubros \/ ~Active(c)
             \/ LET parent == categories[c].parent
                IN c \in AdminFindSubrubros(parent) \cup AdminFindProfesiones(parent) \/ ~Active(parent)
  <2> DEFINE parent == categories[c].parent
  <2>1. CASE categories[c].level = 1
    BY <2>1 DEF FindRubros
  <2>2. CASE categories[c].level # 1
    <3>1. /\ parent \in DOMAIN categories /\ parent # NoParent /\ c \in ChildrenOf(parent)
          /\ categories[parent].level = categories[c].level - 1 /\ categories[c].level \in {2, 3}
      BY <1>1, <2>2, TaxonomyAssumption DEF TaxonomyInv, TaxonomyTypeOK, ChildrenOf
    <3>2. CASE Active(parent)
      BY <3>1, <3>2 DEF AdminFindSubrubros, AdminFindProfesiones, EnsureCategoryExists
    <3> QED BY <3>2
  <2> QED BY <2>1, <2>2
<1>4. Offered("updateCategory") \/ Offered("parallel") \/ CalmTree
  BY DEF TaxonomyInv, Calm
<1>5. SlugsOK
  BY DEF TaxonomyInv
<1> HIDE DEF TaxonomyInv
<1> QED BY <1>1, <1>2, <1>3, <1>4, <1>5 DEF TreeIsSound, SlugsOK, CalmTree

LEMMA TaxonomyInitHolds == TaxonomyInit /\ ServiceInit => TaxonomyInv
<1> SUFFICES ASSUME TaxonomyInit, ServiceInit PROVE TaxonomyInv
  OBVIOUS
<1>1. DOMAIN categories = {}
  BY DEF TaxonomyInit
<1>2. TaxonomyHandlersOK /\ ChecksLast /\ CalmChecks
  BY DEF ServiceInit, TaxonomyHandlersOK, TaxonomyCalls, ChecksLast, CalmChecks, Idle
<1> QED BY <1>1, <1>2 DEF TaxonomyInv, TaxonomyTypeOK, LevelsOK, SlugsOK, CalmTree

-----------------------------------------------------------------------------
(* What every step keeps.                                                   *)
Lasts == \A c \in DOMAIN categories : c \in DOMAIN categories' /\ categories'[c].level = categories[c].level

(* A handler takes a request and touches no row: it owes what it has        *)
(* checked.                                                                 *)
LEMMA TaxonomyTakes ==
    ASSUME TaxonomyInv, NEW h \in Handlers, NEW r \in TaxonomyCalls, r # Idle, Takes(h, r), UNCHANGED categories,
           r.op = "createCategory" =>
               Hangs(r.level, r.parent) /\ (Calm /\ r.level > 1 => Active(r.parent)),
           r.op = "updateCategory" => r.id \in DOMAIN categories /\ Hangs(categories[r.id].level, r.parent),
           r.op = "deactivateCategory" =>
               r.id \in DOMAIN categories /\ (Calm => \A d \in ChildrenOf(r.id) : ~Active(d))
    PROVE  TaxonomyInv'
<1>1. /\ call' = [call EXCEPT ![h] = r] /\ UNCHANGED scenario /\ Offered(r.op)
      /\ Offered("parallel") \/ \A k \in Handlers : call[k] = Idle
  BY DEF Takes
<1>2. TaxonomyHandlersOK'
  BY <1>1 DEF TaxonomyInv, TaxonomyHandlersOK, Offered
<1>3. \A k \in Handlers : call'[k] = IF k = h THEN r ELSE call[k]
  BY <1>1 DEF TaxonomyInv, TaxonomyHandlersOK
<1>4. ChecksLast'
  BY <1>3 DEF TaxonomyInv, ChecksLast, Hangs
<1>5. (Calm => CalmTree /\ CalmChecks)'
  BY <1>1, <1>3 DEF TaxonomyInv, Calm, CalmTree, CalmChecks, Active, ChildrenOf, Offered
<1> QED BY <1>2, <1>4, <1>5 DEF TaxonomyInv, TaxonomyTypeOK, LevelsOK, Hangs, SlugsOK

(* A handler writes and is done: the others still know what they checked,   *)
(* and where one runs at a time there are no others.                        *)
LEMMA TaxonomyEnds ==
    ASSUME TaxonomyInv, NEW h \in Handlers, NEW ops, Ends(h, ops), "idle" \notin ops, Lasts,
           TaxonomyTypeOK', LevelsOK', SlugsOK', Calm => CalmTree'
    PROVE  TaxonomyInv'
<1>1. /\ call' = [call EXCEPT ![h] = Idle] /\ UNCHANGED scenario /\ call[h].op \in ops /\ call[h] # Idle
  BY DEF Ends, Idle
<1>2. TaxonomyHandlersOK'
  BY <1>1 DEF TaxonomyInv, TaxonomyHandlersOK, TaxonomyCalls, Offered
<1>3. \A k \in Handlers : call'[k] = IF k = h THEN Idle ELSE call[k]
  BY <1>1 DEF TaxonomyInv, TaxonomyHandlersOK
<1>4. ChecksLast'
  BY <1>3 DEF TaxonomyInv, ChecksLast, Hangs, Lasts, Idle
<1>5. Calm => \A k \in Handlers : call'[k] = Idle
  BY <1>1, <1>3 DEF TaxonomyInv, TaxonomyHandlersOK, Calm
<1>6. (Calm => CalmTree /\ CalmChecks)'
  BY <1>1, <1>5 DEF Calm, CalmChecks, Offered, Idle
<1> QED BY <1>2, <1>4, <1>6 DEF TaxonomyInv

LEMMA InsertKeeps ==
    ASSUME TaxonomyInv, NEW h \in Handlers, CategoryInserts(h)
    PROVE  TaxonomyInv'
<1>1. Ends(h, {"createCategory"}) /\ call[h].op = "createCategory"
  BY DEF CategoryInserts, Ends
<1>2. /\ call[h].level \in 1 .. 3 /\ call[h].parent \in Parents /\ call[h].slug \in Slugs
      /\ Hangs(call[h].level, call[h].parent)
      /\ Calm /\ call[h].level > 1 => Active(call[h].parent)
  BY <1>1 DEF TaxonomyInv, TaxonomyHandlersOK, TaxonomyCalls, Idle, ChecksLast, CalmChecks
<1>3. CASE UNCHANGED categories
  BY <1>1, <1>3, TaxonomyEnds
     DEF TaxonomyInv, Lasts, TaxonomyTypeOK, LevelsOK, Hangs, SlugsOK, CalmTree, Active
<1>4. CASE ResolveSlug(call[h].slug, {}) /\ ~UNCHANGED categories
  <2>1. PICK c \in CategoryIds \ DOMAIN categories, active \in BOOLEAN :
          categories' = [d \in DOMAIN categories \cup {c} |->
                           IF d = c THEN [level |-> call[h].level, parent |-> call[h].parent,
                                          slug |-> call[h].slug, active |-> active]
                           ELSE categories[d]]
    BY <1>4 DEF CategoryInserts, Fresh
  <2>2. /\ DOMAIN categories' = DOMAIN categories \cup {c} /\ c \notin DOMAIN categories
        /\ \A d \in DOMAIN categories : categories'[d] = categories[d]
        /\ categories'[c].level = call[h].level /\ categories'[c].parent = call[h].parent
        /\ categories'[c].slug = call[h].slug /\ categories'[c].active = active
        /\ categories'[c] \in CategoryRecord
    BY <1>2, <2>1 DEF CategoryRecord, Parents
  <2>3. Lasts /\ TaxonomyTypeOK'
    BY <2>2 DEF Lasts, TaxonomyInv, TaxonomyTypeOK
  <2>4. LevelsOK'
    BY <1>2, <2>2 DEF TaxonomyInv, LevelsOK, Hangs
  <2>5. SlugsOK'
    BY <1>4, <2>2 DEF TaxonomyInv, SlugsOK, ResolveSlug
  <2>6. Calm => CalmTree'
    <3> SUFFICES ASSUME Calm, NEW d \in DOMAIN categories', Active(d)', categories'[d].level > 1
                 PROVE  Active(categories[d].parent)'
      BY DEF CalmTree
    <3>1. CASE d = c
      <4>1. call[h].parent \in DOMAIN categories /\ Active(call[h].parent)
        BY <1>2, <2>2, <3>1 DEF Hangs
      <4> QED BY <2>2, <3>1, <4>1 DEF Active
    <3>2. CASE d # c
      <4>1. categories[d].parent \in DOMAIN categories /\ Active(categories[d].parent)
        BY <2>2, <3>2 DEF TaxonomyInv, CalmTree, LevelsOK, Hangs, Active
      <4> QED BY <2>2, <3>2, <4>1 DEF Active
    <3> QED BY <3>1, <3>2
  <2> QED BY <1>1, <2>3, <2>4, <2>5, <2>6, TaxonomyEnds
<1> QED BY <1>3, <1>4 DEF CategoryInserts

LEMMA WriteKeeps ==
    ASSUME TaxonomyInv, NEW h \in Handlers, CategoryWrites(h)
    PROVE  TaxonomyInv'
<1>1. Ends(h, {"updateCategory"}) /\ call[h].op = "updateCategory"
  BY DEF CategoryWrites, Ends
<1> DEFINE c == call[h].id
<1>2. /\ c \in DOMAIN categories /\ call[h].slug \in Slugs /\ call[h].parent \in Parents
      /\ call[h].active \in BOOLEAN /\ Hangs(categories[c].level, call[h].parent)
  BY <1>1 DEF TaxonomyInv, TaxonomyHandlersOK, TaxonomyCalls, Idle, ChecksLast
<1>3. ~Calm
  BY <1>1 DEF TaxonomyInv, TaxonomyHandlersOK, Calm, Idle
<1>4. CASE UNCHANGED categories
  BY <1>1, <1>3, <1>4, TaxonomyEnds
     DEF TaxonomyInv, Lasts, TaxonomyTypeOK, LevelsOK, Hangs, SlugsOK
<1>5. CASE ("slug" \in call[h].given => ResolveSlug(call[h].slug, {c})) /\ ~UNCHANGED categories
  <2> DEFINE slug == IF "slug" \in call[h].given THEN call[h].slug ELSE categories[c].slug
             parent == IF "parent" \in call[h].given THEN call[h].parent ELSE categories[c].parent
             active == IF "active" \in call[h].given THEN call[h].active ELSE categories[c].active
  <2>0. /\ categories[c] \in CategoryRecord /\ slug \in Slugs /\ parent \in Parents /\ active \in BOOLEAN
        /\ Hangs(categories[c].level, parent) /\ ResolveSlug(slug, {c})
    BY <1>2, <1>5
       DEF TaxonomyInv, TaxonomyTypeOK, CategoryRecord, Parents, LevelsOK, SlugsOK, ResolveSlug
  <2>1. categories' = [categories EXCEPT ![c].slug = slug, ![c].parent = parent, ![c].active = active]
    BY <1>5 DEF CategoryWrites
  <2> HIDE DEF slug, parent, active
  <2>2. /\ DOMAIN categories' = DOMAIN categories
        /\ \A d \in DOMAIN categories \ {c} : categories'[d] = categories[d]
        /\ categories'[c].level = categories[c].level /\ categories'[c].parent = parent
        /\ categories'[c].slug = slug /\ categories'[c] \in CategoryRecord
    BY <1>2, <2>0, <2>1 DEF CategoryRecord, Parents
  <2>3. Lasts /\ TaxonomyTypeOK'
    BY <1>2, <2>2 DEF Lasts, TaxonomyInv, TaxonomyTypeOK
  <2>4. LevelsOK'
    BY <1>2, <2>0, <2>2, <2>3 DEF TaxonomyInv, LevelsOK, Hangs, Lasts
  <2>5. SlugsOK'
    BY <1>2, <2>0, <2>2 DEF TaxonomyInv, SlugsOK, ResolveSlug
  <2> QED BY <1>1, <1>3, <2>3, <2>4, <2>5, TaxonomyEnds
<1> QED BY <1>4, <1>5 DEF CategoryWrites

LEMMA DeactivateKeeps ==
    ASSUME TaxonomyInv, NEW h \in Handlers, DeactivateWrites(h)
    PROVE  TaxonomyInv'
<1>1. Ends(h, {"deactivateCategory"}) /\ call[h].op = "deactivateCategory"
  BY DEF DeactivateWrites, Ends
<1> DEFINE c == call[h].id
<1>2. c \in DOMAIN categories /\ (Calm => \A d \in ChildrenOf(c) : ~Active(d))
  BY <1>1 DEF TaxonomyInv, ChecksLast, CalmChecks
<1>3. /\ DOMAIN categories' = DOMAIN categories
      /\ \A d \in DOMAIN categories \ {c} : categories'[d] = categories[d]
      /\ categories'[c].level = categories[c].level /\ categories'[c].parent = categories[c].parent
      /\ categories'[c].slug = categories[c].slug /\ categories'[c].active = FALSE
      /\ categories'[c] \in CategoryRecord
  BY <1>2 DEF DeactivateWrites, TaxonomyInv, TaxonomyTypeOK, CategoryRecord
<1>4. Lasts /\ TaxonomyTypeOK'
  BY <1>2, <1>3 DEF Lasts, TaxonomyInv, TaxonomyTypeOK
<1>5. LevelsOK'
  BY <1>2, <1>3, <1>4 DEF TaxonomyInv, LevelsOK, Hangs, Lasts
<1>6. SlugsOK'
  BY <1>2, <1>3 DEF TaxonomyInv, SlugsOK
<1>7. Calm => CalmTree'
  <2> SUFFICES ASSUME Calm, NEW d \in DOMAIN categories', Active(d)', categories'[d].level > 1
               PROVE  Active(categories[d].parent)'
    BY DEF CalmTree
  <2>1. d # c /\ categories'[d] = categories[d] /\ Active(d)
    BY <1>3 DEF Active
  <2>2. categories[d].parent \in DOMAIN categories /\ Active(categories[d].parent)
    BY <1>3, <2>1 DEF TaxonomyInv, CalmTree, LevelsOK, Hangs
  <2>3. categories[d].parent # c
    BY <1>2, <1>3, <2>1 DEF ChildrenOf
  <2> QED BY <1>3, <2>1, <2>2, <2>3 DEF Active
<1> QED BY <1>1, <1>4, <1>5, <1>6, <1>7, TaxonomyEnds

LEMMA CheckKeeps ==
    ASSUME TaxonomyInv, NEW h \in Handlers, NEW slug \in Slugs,
           \/ AdminCreateRubro(h, slug)
           \/ \E c \in DOMAIN categories : AdminCreateSubrubro(h, c, slug) \/ AdminCreateProfesion(h, c, slug)
    PROVE  TaxonomyInv'
<1>1. CASE AdminCreateRubro(h, slug)
  <2> DEFINE r == [op |-> "createCategory", level |-> 1, parent |-> NoParent, slug |-> slug]
  <2>1. Takes(h, r) /\ UNCHANGED categories
    BY <1>1 DEF AdminCreateRubro, Creating
  <2>2. r \in TaxonomyCalls /\ r # Idle
    BY DEF TaxonomyCalls, Parents, Idle
  <2> QED BY <2>1, <2>2, TaxonomyTakes DEF Hangs
<1>2. ASSUME NEW c \in DOMAIN categories, NEW level \in {2, 3}, EnsureCategoryExists(c, level - 1),
             Creating(h, level, c, slug)
      PROVE  TaxonomyInv'
  <2> DEFINE r == [op |-> "createCategory", level |-> level, parent |-> c, slug |-> slug]
  <2>1. Takes(h, r) /\ UNCHANGED categories
    BY <1>2 DEF Creating
  <2>2. r \in TaxonomyCalls /\ r # Idle
    BY DEF TaxonomyCalls, Parents, Idle, TaxonomyInv, TaxonomyTypeOK
  <2>3. Hangs(level, c) /\ Active(c)
    BY <1>2 DEF Hangs, EnsureCategoryExists
  <2> QED BY <2>1, <2>2, <2>3, TaxonomyTakes
<1> QED BY <1>1, <1>2 DEF AdminCreateSubrubro, AdminCreateProfesion

LEMMA ChangeKeeps ==
    ASSUME TaxonomyInv, NEW h \in Handlers, NEW c \in DOMAIN categories, NEW slug \in Slugs,
           NEW active \in BOOLEAN, NEW given \in SUBSET CategoryFields,
           \/ AdminUpdateRubro(h, c, given, slug, active)
           \/ \E p \in DOMAIN categories :
                \/ AdminUpdateSubrubro(h, c, given, slug, p, active)
                \/ AdminUpdateProfesion(h, c, given, slug, p, active)
    PROVE  TaxonomyInv'
<1>1. ASSUME NEW parent \in Parents, Changing(h, c, given, slug, parent, active), Hangs(categories[c].level, parent)
      PROVE  TaxonomyInv'
  <2> DEFINE r == [op |-> "updateCategory", id |-> c, given |-> given, slug |-> slug, parent |-> parent,
                active |-> active]
  <2>1. Takes(h, r) /\ UNCHANGED categories
    BY <1>1 DEF Changing
  <2>2. r \in TaxonomyCalls /\ r # Idle
    BY DEF TaxonomyCalls, Idle, TaxonomyInv, TaxonomyTypeOK
  <2> QED BY <1>1, <2>1, <2>2, TaxonomyTakes
<1>2. CASE AdminUpdateRubro(h, c, given, slug, active)
  <2>1. /\ NoParent \in Parents /\ Hangs(categories[c].level, NoParent)
        /\ Changing(h, c, given, slug, NoParent, active)
    BY <1>2 DEF AdminUpdateRubro, AdminFindRubro, AdminFindRubros, Hangs, Parents
  <2> QED BY <1>1, <2>1
<1>3. ASSUME NEW p \in DOMAIN categories,
             \/ AdminUpdateSubrubro(h, c, given, slug, p, active)
             \/ AdminUpdateProfesion(h, c, given, slug, p, active)
      PROVE  TaxonomyInv'
  <2>1. p \in Parents
    BY DEF Parents, TaxonomyInv, TaxonomyTypeOK
  <2>2. Changing(h, c, given, slug, p, active)
    BY <1>3 DEF AdminUpdateSubrubro, AdminUpdateProfesion
  <2>3. /\ categories[c].level \in {2, 3}
        /\ p = categories[c].parent \/ EnsureCategoryExists(p, categories[c].level - 1)
    BY <1>3 DEF AdminUpdateSubrubro, AdminUpdateProfesion, AdminFindSubrubro, AdminFindSubrubros,
                AdminFindProfesion, AdminFindProfesiones, Changing
  <2>4. Hangs(categories[c].level, p)
    BY <2>3 DEF Hangs, EnsureCategoryExists, TaxonomyInv, LevelsOK
  <2> QED BY <1>1, <2>1, <2>2, <2>4
<1> QED BY <1>2, <1>3

LEMMA LeavingKeeps ==
    ASSUME TaxonomyInv, NEW h \in Handlers, NEW c \in DOMAIN categories,
           AdminDeactivateRubro(h, c) \/ AdminDeactivateSubrubro(h, c) \/ AdminDeactivateProfesion(h, c)
    PROVE  TaxonomyInv'
<1> DEFINE r == [op |-> "deactivateCategory", id |-> c]
<1>1. Takes(h, r) /\ UNCHANGED categories
  BY DEF AdminDeactivateRubro, AdminDeactivateSubrubro, AdminDeactivateProfesion, Deactivating
<1>2. r \in TaxonomyCalls /\ r # Idle
  BY DEF TaxonomyCalls, Idle, TaxonomyInv, TaxonomyTypeOK
<1>3. \A d \in ChildrenOf(c) : ~Active(d)
  <2>1. CASE AdminDeactivateProfesion(h, c)
    <3>1. categories[c].level = 3
      BY <2>1 DEF AdminDeactivateProfesion, AdminFindProfesion, AdminFindProfesiones
    <3>2. ChildrenOf(c) = {}        \* there is no fourth level
      BY <3>1, TaxonomyAssumption
         DEF ChildrenOf, TaxonomyInv, TaxonomyTypeOK, CategoryRecord, LevelsOK, Hangs
    <3> QED BY <3>2
  <2> QED BY <2>1 DEF AdminDeactivateRubro, AdminDeactivateSubrubro
<1> QED BY <1>1, <1>2, <1>3, TaxonomyTakes

LEMMA TaxonomyStep ==
    ASSUME TaxonomyInv, [TaxonomyNext]_<<categories, serviceVars>>
    PROVE  TaxonomyInv'
<1>1. CASE TaxonomyNext
  BY <1>1, InsertKeeps, WriteKeeps, DeactivateKeeps, CheckKeeps, ChangeKeeps, LeavingKeeps DEF TaxonomyNext
<1>2. CASE UNCHANGED <<categories, serviceVars>>
  BY <1>2 DEF TaxonomyInv, TaxonomyTypeOK, TaxonomyHandlersOK, LevelsOK, Hangs, SlugsOK, ChecksLast, Calm,
              CalmTree, CalmChecks, Active, ChildrenOf, Offered, serviceVars
<1> QED BY <1>1, <1>2

LEMMA TaxonomyInvariant == TaxonomySpec => []TaxonomyInv
  BY TaxonomyInitHolds, TaxonomyStep, PTL DEF TaxonomySpec

(* However the requests of the admins interleave, the categories are a tree *)
(* of three levels with one category per slug, and what the public and the  *)
(* admins are shown agrees with it (profession-categories.service).         *)
THEOREM TaxonomyTree == TaxonomySpec => []TreeIsSound
  BY TaxonomyInvariant, TreeFollows, PTL
-----------------------------------------------------------------------------
(* Discounts: the amount at MercadoPago *)

DiscountCalls ==
    {Idle} \cup [op : {"createDiscount"}, start : Days, end : Days]
           \cup [op : {"removeDiscount"}, id : DiscountIds]
           \cup [op : {"createOffer"}, from : Days, to : Days, active : BOOLEAN]
           \cup [op : {"updateOffer"}, id : OfferIds, given : SUBSET OfferFields,
                 from : Days, to : Days, active : BOOLEAN]
           \cup [op : {"useOffer"}, id : OfferIds]

DiscountsOK == DiscountsTypeOK /\ call \in [Handlers -> DiscountCalls]

(* The discount that a run is about to mark, and those on its list          *)
Restoring(r, d) == d = restore[r].on \/ d \in restore[r].todo

(* But for what was let slip: the amount is that of a row that is applied   *)
(* or about to be marked, and not of one that is restored or about to be    *)
(* marked so; what a restoring run has before it is applied; what is        *)
(* restored was applied.  Slips are never taken back.                       *)
PriceInv ==
    /\ amount # 0 /\ amount \notin slips =>
         /\ Applied(amount) \/ \E r \in DiscountRuns : apply[r].on = amount
         /\ amount \in DOMAIN discounts => ~discounts[amount].restored
         /\ \A r \in DiscountRuns : restore[r].on # amount
    /\ \A r \in DiscountRuns : \A d \in DiscountIds \ slips : Restoring(r, d) => Applied(d)
    /\ \A d \in DOMAIN discounts \ slips : discounts[d].restored => discounts[d].applied

LEMMA PriceFollows == DiscountsOK /\ PriceInv => LowPriceIsAccountedFor
  BY DEF LowPriceIsAccountedFor, PriceInv, Applied

LEMMA DiscountsInitHolds == DiscountsInit /\ ServiceInit => DiscountsOK /\ PriceInv
  BY DiscountsAssumption
     DEF DiscountsInit, ServiceInit, DiscountsOK, DiscountsTypeOK, DiscountCalls, PriceInv, Restoring, Applied,
         Resting, JobRun, Days, Plans

(* What the rows of discounts are after each of the steps that write them.  *)
LEMMA DiscountRows ==
    ASSUME DiscountsOK
    PROVE  /\ \A h \in Handlers : DiscountInserts(h) =>
                \E d \in DiscountIds \ DOMAIN discounts :
                   /\ DOMAIN discounts' = DOMAIN discounts \cup {d}
                   /\ \A e \in DOMAIN discounts : discounts'[e] = discounts[e]
                   /\ discounts'[d] = [start |-> call[h].start, end |-> call[h].end,
                                       applied |-> FALSE, restored |-> FALSE]
                   /\ call[h].op = "createDiscount" /\ call[h].start \in Days /\ call[h].end \in Days
           /\ \A h \in Handlers : DiscountDeleted(h) =>
                /\ DOMAIN discounts' = DOMAIN discounts \ {call[h].id}
                /\ \A e \in DOMAIN discounts' : discounts'[e] = discounts[e]
           /\ \A r \in DiscountRuns : ApplyMarks(r) =>
                /\ DOMAIN discounts' = DOMAIN discounts
                /\ \/ UNCHANGED discounts
                   \/ \A d \in DOMAIN discounts :
                        discounts'[d] = IF d = apply[r].on THEN [discounts[d] EXCEPT !.applied = TRUE]
                                        ELSE discounts[d]
           /\ \A r \in DiscountRuns : RestoreMarks(r) =>
                /\ DOMAIN discounts' = DOMAIN discounts
                /\ \/ UNCHANGED discounts
                   \/ \A d \in DOMAIN discounts :
                        discounts'[d] = IF d = restore[r].on THEN [discounts[d] EXCEPT !.restored = TRUE]
                                        ELSE discounts[d]
<1>1. ASSUME NEW h \in Handlers, DiscountInserts(h)
      PROVE  \E d \in DiscountIds \ DOMAIN discounts :
                   /\ DOMAIN discounts' = DOMAIN discounts \cup {d}
                   /\ \A e \in DOMAIN discounts : discounts'[e] = discounts[e]
                   /\ discounts'[d] = [start |-> call[h].start, end |-> call[h].end,
                                       applied |-> FALSE, restored |-> FALSE]
                   /\ call[h].op = "createDiscount" /\ call[h].start \in Days /\ call[h].end \in Days
  <2>1. call[h].op = "createDiscount" /\ call[h].start \in Days /\ call[h].end \in Days
    BY <1>1 DEF DiscountInserts, Ends, DiscountsOK, DiscountCalls, Idle
  <2>2. DOMAIN discounts \subseteq Named
    BY DEF Named
  <2> HIDE DEF Named
  <2>3. PICK d \in DiscountIds \ DOMAIN discounts :
          discounts' = [e \in DOMAIN discounts \cup {d} |->
                          IF e = d THEN [start |-> call[h].start, end |-> call[h].end,
                                         applied |-> FALSE, restored |-> FALSE]
                          ELSE discounts[e]]
    BY <1>1, <2>2 DEF DiscountInserts, Fresh
  <2> QED BY <2>1, <2>3
<1>2. \A h \in Handlers : DiscountDeleted(h) =>
        /\ DOMAIN discounts' = DOMAIN discounts \ {call[h].id}
        /\ \A e \in DOMAIN discounts' : discounts'[e] = discounts[e]
  BY DEF DiscountDeleted
<1>3. ASSUME NEW r \in DiscountRuns, ApplyMarks(r)
      PROVE  /\ DOMAIN discounts' = DOMAIN discounts
             /\ \/ UNCHANGED discounts
                \/ \A d \in DOMAIN discounts :
                     discounts'[d] = IF d = apply[r].on THEN [discounts[d] EXCEPT !.applied = TRUE] ELSE discounts[d]
  <2>1. CASE UNCHANGED discounts
    BY <2>1
  <2>2. CASE discounts' = [discounts EXCEPT ![apply[r].on].applied = TRUE]
    BY <2>2 DEF DiscountsOK, DiscountsTypeOK
  <2> QED BY <1>3, <2>1, <2>2 DEF ApplyMarks
<1>4. \A r \in DiscountRuns : RestoreMarks(r) =>
        /\ DOMAIN discounts' = DOMAIN discounts
        /\ \/ UNCHANGED discounts
           \/ \A d \in DOMAIN discounts :
                discounts'[d] = IF d = restore[r].on THEN [discounts[d] EXCEPT !.restored = TRUE] ELSE discounts[d]
  BY DEF RestoreMarks
<1> QED BY <1>1, <1>2, <1>3, <1>4

(* The steps of the jobs and of the world around them: none of them is one  *)
(* of a handler.                                                            *)
Backstage ==
    ApplySteps \/ RestoreSteps \/ DayPasses \/ JobsStop \/ AmountSetByHand \/ \E next \in Plans : PlanMoves(next)

LEMMA BackstageKeeps == Backstage => UNCHANGED <<offers, raced, serviceVars>>
  BY DEF Backstage, ApplySteps, ApplyStarts, ApplyMarks, ApplyEnds, ApplyOne, RestoreSteps, RestoreStarts,
     RestoreMarks, RestoreEnds, RestoreOne, DayPasses, JobsStop, AmountSetByHand, PlanMoves

(* A handler that checks writes nothing.                                    *)
Checks(h) ==
    \/ \E d \in DOMAIN discounts : DiscountLeaves(h, d)
    \/ \E o \in DOMAIN offers : CheckoutResolves(h, o)
    \/ \E from, to \in Days :
         \/ DiscountChecks(h, from, to)
         \/ \E active \in BOOLEAN :
              OfferChecks(h, from, to, active)
              \/ \E o \in DOMAIN offers, given \in OfferForms :
                   OfferUpdateChecks(h, o, given, from, to, active)

LEMMA DiscountChecksKeep == ASSUME NEW h \in Handlers, Checks(h) PROVE UNCHANGED discountVars
<1>1. /\ \A d : DiscountLeaves(h, d) => UNCHANGED discountVars
      /\ \A o : CheckoutResolves(h, o) => UNCHANGED discountVars
      /\ \A from, to : DiscountChecks(h, from, to) => UNCHANGED discountVars
      /\ \A from, to, active : OfferChecks(h, from, to, active) => UNCHANGED discountVars
  BY DEF DiscountLeaves, CheckoutResolves, DiscountChecks, OfferChecks
<1>2. ASSUME NEW o, NEW given, NEW from, NEW to, NEW active, OfferUpdateChecks(h, o, given, from, to, active)
      PROVE  UNCHANGED discountVars
  BY <1>2 DEF OfferUpdateChecks
<1> QED BY <1>1, <1>2 DEF Checks

(* The steps of all kinds                                                   *)
LEMMA DiscountKinds ==
    DiscountsNext <=> \/ Backstage
                      \/ \E h \in Handlers :
                           \/ DiscountInserts(h) \/ DiscountDeleted(h) \/ OfferInserts(h) \/ OfferUpdates(h)
                           \/ CheckoutCounts(h) \/ Checks(h)
                      \/ \E o \in DOMAIN offers : RemoveOffer(o)
  BY DEF DiscountsNext, Backstage, Checks

LEMMA DiscountCallsStep ==
    ASSUME DiscountsOK, DiscountsNext
    PROVE  call' \in [Handlers -> DiscountCalls]
<1>1. ASSUME NEW h \in Handlers, NEW r \in DiscountCalls, Takes(h, r) PROVE call' \in [Handlers -> DiscountCalls]
  BY <1>1 DEF DiscountsOK, Takes
<1>2. ASSUME NEW h \in Handlers, NEW ops, Ends(h, ops) PROVE call' \in [Handlers -> DiscountCalls]
  BY <1>2 DEF DiscountsOK, Ends, DiscountCalls
<1>3. CASE UNCHANGED serviceVars
  BY <1>3 DEF DiscountsOK, serviceVars
<1>4. ASSUME NEW h \in Handlers,
             DiscountInserts(h) \/ DiscountDeleted(h) \/ OfferInserts(h) \/ OfferUpdates(h) \/ CheckoutCounts(h)
      PROVE  call' \in [Handlers -> DiscountCalls]
  BY <1>2, <1>4 DEF DiscountInserts, DiscountDeleted, OfferInserts, OfferUpdates, CheckoutCounts
<1>5. ASSUME NEW h \in Handlers, NEW d \in DOMAIN discounts, DiscountLeaves(h, d)
      PROVE  call' \in [Handlers -> DiscountCalls]
  BY <1>1, <1>5 DEF DiscountLeaves, DiscountCalls, DiscountsOK, DiscountsTypeOK
<1>6. ASSUME NEW h \in Handlers, NEW o \in DOMAIN offers, CheckoutResolves(h, o)
      PROVE  call' \in [Handlers -> DiscountCalls]
  BY <1>1, <1>6 DEF CheckoutResolves, DiscountCalls, DiscountsOK, DiscountsTypeOK
<1>7. ASSUME NEW h \in Handlers, NEW from \in Days, NEW to \in Days, DiscountChecks(h, from, to)
      PROVE  call' \in [Handlers -> DiscountCalls]
  BY <1>1, <1>7 DEF DiscountChecks, DiscountCalls
<1>8. ASSUME NEW h \in Handlers, NEW from \in Days, NEW to \in Days, NEW active \in BOOLEAN,
             OfferChecks(h, from, to, active)
      PROVE  call' \in [Handlers -> DiscountCalls]
  BY <1>1, <1>8 DEF OfferChecks, DiscountCalls
<1>9. ASSUME NEW h \in Handlers, NEW from \in Days, NEW to \in Days, NEW active \in BOOLEAN,
             NEW o \in DOMAIN offers, NEW given \in OfferForms,
             OfferUpdateChecks(h, o, given, from, to, active)
      PROVE  call' \in [Handlers -> DiscountCalls]
  <2>1. given \in SUBSET OfferFields
    BY DiscountsAssumption DEF OfferFields
  <2> QED BY <1>1, <1>9, <2>1 DEF OfferUpdateChecks, DiscountCalls, DiscountsOK, DiscountsTypeOK
<1>10. ASSUME Backstage \/ \E o \in DOMAIN offers : RemoveOffer(o)
       PROVE  call' \in [Handlers -> DiscountCalls]
  BY <1>3, <1>10, BackstageKeeps DEF RemoveOffer
<1> QED BY <1>4, <1>5, <1>6, <1>7, <1>8, <1>9, <1>10, DiscountKinds DEF Checks

LEMMA OfferTypes ==
    ASSUME DiscountsOK, DiscountsNext
    PROVE  DOMAIN offers' \subseteq OfferIds /\ \A o \in DOMAIN offers' : offers'[o] \in OfferRecord
<1> USE DEF DiscountsOK, DiscountsTypeOK
<1>1. ASSUME NEW h \in Handlers, OfferInserts(h)
      PROVE  DOMAIN offers' \subseteq OfferIds /\ \A o \in DOMAIN offers' : offers'[o] \in OfferRecord
  <2>1. call[h].from \in Days /\ call[h].to \in Days /\ call[h].active \in BOOLEAN
    BY <1>1 DEF OfferInserts, Ends, DiscountCalls, Idle
  <2> QED BY <1>1, <2>1 DEF OfferInserts, OfferRecord
<1>2. ASSUME NEW h \in Handlers, OfferUpdates(h)
      PROVE  DOMAIN offers' \subseteq OfferIds /\ \A o \in DOMAIN offers' : offers'[o] \in OfferRecord
  <2>1. call[h].from \in Days /\ call[h].to \in Days /\ call[h].active \in BOOLEAN
    BY <1>2 DEF OfferUpdates, Ends, DiscountCalls, Idle
  <2> QED BY <1>2, <2>1 DEF OfferUpdates, OfferRecord
<1>3. ASSUME NEW h \in Handlers, CheckoutCounts(h)
      PROVE  DOMAIN offers' \subseteq OfferIds /\ \A o \in DOMAIN offers' : offers'[o] \in OfferRecord
  BY <1>3 DEF CheckoutCounts, OfferRecord
<1>4. ASSUME NEW o \in DOMAIN offers, RemoveOffer(o)
      PROVE  DOMAIN offers' \subseteq OfferIds /\ \A p \in DOMAIN offers' : offers'[p] \in OfferRecord
  BY <1>4 DEF RemoveOffer, OfferRecord
<1>5. Backstage => UNCHANGED offers
  BY BackstageKeeps
<1>6. ASSUME NEW h \in Handlers, DiscountInserts(h) \/ DiscountDeleted(h) \/ Checks(h)
      PROVE  UNCHANGED offers
  <2>1. Checks(h) => UNCHANGED offers
    BY DiscountChecksKeep DEF discountVars
  <2> QED BY <1>6, <2>1 DEF DiscountInserts, DiscountDeleted
<1> HIDE DEF DiscountsOK, DiscountsTypeOK
<1>7. UNCHANGED offers => DOMAIN offers' \subseteq OfferIds /\ \A o \in DOMAIN offers' : offers'[o] \in OfferRecord
  BY DEF DiscountsOK, DiscountsTypeOK
<1> QED BY <1>1, <1>2, <1>3, <1>4, <1>5, <1>6, <1>7, DiscountKinds

(* The types of what is not an offer.                                       *)
PriceTypes ==
    /\ today \in Days /\ amount \in DiscountIds \cup {0} /\ plan \in Plans
    /\ DOMAIN discounts \subseteq DiscountIds /\ \A d \in DOMAIN discounts : discounts[d] \in DiscountRecord
    /\ apply \in [DiscountRuns -> JobRun] /\ restore \in [DiscountRuns -> JobRun]
    /\ failures \in Nat /\ slips \subseteq DiscountIds

LEMMA PriceRowsKeep ==
    ASSUME DiscountsOK, PriceInv, NEW h \in Handlers, DiscountInserts(h) \/ DiscountDeleted(h)
    PROVE  PriceTypes' /\ PriceInv'
<1>0. PriceTypes
  BY DEF DiscountsOK, DiscountsTypeOK, PriceTypes
<1>1. CASE DiscountInserts(h)
  <2>1. PICK d \in DiscountIds \ DOMAIN discounts :
          /\ DOMAIN discounts' = DOMAIN discounts \cup {d}
          /\ \A e \in DOMAIN discounts : discounts'[e] = discounts[e]
          /\ discounts'[d] = [start |-> call[h].start, end |-> call[h].end, applied |-> FALSE, restored |-> FALSE]
          /\ call[h].start \in Days /\ call[h].end \in Days
    BY <1>1, DiscountRows
  <2>2. UNCHANGED <<today, amount, plan, apply, restore, failures, slips>>
    BY <1>1 DEF DiscountInserts
  <2>3. PriceTypes'
    <3>1. discounts'[d] \in DiscountRecord
      BY <2>1 DEF DiscountRecord
    <3> QED BY <1>0, <2>1, <2>2, <3>1 DEF PriceTypes
  <2>4. ~discounts'[d].applied /\ ~discounts'[d].restored
    BY <2>1
  <2>5. PriceInv'
    BY <2>1, <2>2, <2>4 DEF PriceInv, Applied, Restoring
  <2> QED BY <2>3, <2>5
<1>2. CASE DiscountDeleted(h)
  <2> DEFINE d == call[h].id
  <2>1. DOMAIN discounts' = DOMAIN discounts \ {d} /\ \A e \in DOMAIN discounts' : discounts'[e] = discounts[e]
    BY <1>2, DiscountRows
  <2>2. /\ UNCHANGED <<today, amount, plan, apply, restore, failures>>
        /\ IF Applied(d) THEN slips' = slips \cup {d} ELSE slips' = slips
    BY <1>2 DEF DiscountDeleted, Slip
  <2>3. PriceTypes'
    <3>1. d \in DiscountIds
      BY <1>2 DEF DiscountDeleted, Ends, DiscountsOK, DiscountCalls, Idle
    <3> QED BY <1>0, <2>1, <2>2, <3>1 DEF PriceTypes
  <2>4. PriceInv'
    BY <2>1, <2>2 DEF PriceInv, Applied, Restoring
  <2> QED BY <2>3, <2>4
<1> QED BY <1>1, <1>2

LEMMA ApplyKeepsPrice ==
    ASSUME DiscountsOK, PriceInv, ApplySteps
    PROVE  PriceTypes' /\ PriceInv'
<1>0. PriceTypes /\ 0 \notin DiscountIds
  BY DiscountsAssumption DEF DiscountsOK, DiscountsTypeOK, PriceTypes
<1>1. ASSUME NEW r \in DiscountRuns, ApplyStarts(r) \/ ApplyEnds(r) PROVE PriceTypes' /\ PriceInv'
  <2>1. /\ apply' \in [DiscountRuns -> JobRun] /\ \A k \in DiscountRuns : apply'[k].on = apply[k].on
        /\ UNCHANGED <<today, discounts, amount, plan, restore, failures, slips>>
    <3>1. CASE ApplyStarts(r)
      <4>1. Pending \subseteq DiscountIds /\ Resting \in JobRun
        BY <1>0 DEF Pending, PriceTypes, Resting, JobRun
      <4> QED BY <1>0, <3>1, <4>1 DEF ApplyStarts, Resting, JobRun, PriceTypes
    <3>2. CASE ApplyEnds(r)
      BY <1>0, <3>2 DEF ApplyEnds, Resting, JobRun, PriceTypes
    <3> QED BY <1>1, <3>1, <3>2
  <2> QED BY <1>0, <2>1 DEF PriceTypes, PriceInv, Applied, Restoring
<1>2. ASSUME NEW r \in DiscountRuns, ApplyMarks(r) PROVE PriceTypes' /\ PriceInv'
  <2>0. PICK d \in DiscountIds : d = apply[r].on
    BY <1>0, <1>2 DEF ApplyMarks, PriceTypes, JobRun
  <2>1. /\ apply' \in [DiscountRuns -> JobRun]
        /\ \A k \in DiscountRuns : apply'[k].on = IF k = r THEN 0 ELSE apply[k].on
        /\ UNCHANGED <<today, amount, plan, restore>>
    BY <1>0, <1>2 DEF ApplyMarks, JobRun, PriceTypes
  <2>2. \/ d \in DOMAIN discounts /\ discounts' = [discounts EXCEPT ![d].applied = TRUE] /\ UNCHANGED <<slips, failures>>
        \/ UNCHANGED discounts /\ slips' = slips \cup {d} /\ failures' \in {failures, failures + 1}
    BY <1>2, <2>0 DEF ApplyMarks, Slip, Fails
  <2>3. CASE d \in DOMAIN discounts /\ discounts' = [discounts EXCEPT ![d].applied = TRUE] /\ UNCHANGED <<slips, failures>>
    <3>1. /\ DOMAIN discounts' = DOMAIN discounts
          /\ \A e \in DOMAIN discounts : /\ discounts'[e] \in DiscountRecord
                                         /\ discounts'[e].applied <=> e = d \/ discounts[e].applied
                                         /\ discounts'[e].restored = discounts[e].restored
      BY <1>0, <2>3 DEF PriceTypes, DiscountRecord
    <3>2. PriceTypes'
      BY <1>0, <2>1, <2>3, <3>1 DEF PriceTypes
    <3> QED BY <2>0, <2>1, <2>3, <3>1, <3>2 DEF PriceInv, Applied, Restoring
  <2>4. CASE UNCHANGED discounts /\ slips' = slips \cup {d} /\ failures' \in {failures, failures + 1}
    BY <1>0, <2>0, <2>1, <2>4 DEF PriceTypes, PriceInv, Applied, Restoring
  <2> QED BY <2>2, <2>3, <2>4
<1>3. ASSUME NEW r \in DiscountRuns, NEW d \in DiscountIds, ApplyOne(r, d) PROVE PriceTypes' /\ PriceInv'
  <2>0. UNCHANGED <<today, discounts, plan, restore>>
    BY <1>3 DEF ApplyOne
  <2>1. CASE /\ amount' = d /\ apply' = [apply EXCEPT ![r].todo = @ \ {d}, ![r].on = d]
             /\ (IF Applied(d) THEN slips' = slips \cup {d} ELSE slips' = slips) /\ UNCHANGED failures
    <3>1. apply' \in [DiscountRuns -> JobRun] /\ apply'[r].on = d
      BY <1>0, <2>1 DEF PriceTypes, JobRun
    <3>2. PriceTypes'
      BY <1>0, <2>0, <2>1, <3>1 DEF PriceTypes
    <3>3. slips \subseteq slips' /\ (d \in slips' \/ (d \notin slips /\ ~Applied(d)) \/ d \in slips)
      BY <2>1
    <3> QED BY <1>0, <2>0, <2>1, <3>1, <3>2, <3>3 DEF PriceInv, Applied, Restoring
  <2>2. CASE /\ apply' = [apply EXCEPT ![r].todo = @ \ {d}] /\ failures' \in {failures, failures + 1}
             /\ (amount' = d /\ slips' = slips \cup {d}) \/ UNCHANGED <<amount, slips>>
    <3>1. apply' \in [DiscountRuns -> JobRun] /\ \A k \in DiscountRuns : apply'[k].on = apply[k].on
      BY <1>0, <2>2 DEF PriceTypes, JobRun
    <3>2. PriceTypes'
      BY <1>0, <2>0, <2>2, <3>1 DEF PriceTypes
    <3> QED BY <1>0, <2>0, <2>2, <3>1, <3>2 DEF PriceInv, Applied, Restoring
  <2> QED BY <1>3, <2>1, <2>2 DEF ApplyOne, Slip, Fails
<1> QED BY <1>1, <1>2, <1>3 DEF ApplySteps

LEMMA RestoreKeepsPrice ==
    ASSUME DiscountsOK, PriceInv, RestoreSteps
    PROVE  PriceTypes' /\ PriceInv'
<1>0. PriceTypes /\ 0 \notin DiscountIds
  BY DiscountsAssumption DEF DiscountsOK, DiscountsTypeOK, PriceTypes
<1>1. ASSUME NEW r \in DiscountRuns, RestoreStarts(r) \/ RestoreEnds(r) PROVE PriceTypes' /\ PriceInv'
  <2>1. /\ restore' \in [DiscountRuns -> JobRun]
        /\ \A k \in DiscountRuns : restore'[k].on = restore[k].on
        /\ \A k \in DiscountRuns : \A d \in DiscountIds : Restoring(k, d)' => Restoring(k, d) \/ Applied(d)
        /\ UNCHANGED <<today, discounts, amount, plan, apply, failures, slips>>
    <3>1. CASE RestoreStarts(r)
      <4>1. Expired \subseteq DiscountIds /\ Resting \in JobRun /\ \A d \in Expired : Applied(d)
        BY <1>0 DEF Expired, PriceTypes, Resting, JobRun, Applied
      <4> QED BY <1>0, <3>1, <4>1 DEF RestoreStarts, Resting, JobRun, PriceTypes, Restoring
    <3>2. CASE RestoreEnds(r)
      BY <1>0, <3>2 DEF RestoreEnds, Resting, JobRun, PriceTypes, Restoring
    <3> QED BY <1>1, <3>1, <3>2
  <2> QED BY <1>0, <2>1 DEF PriceTypes, PriceInv, Applied
<1>2. ASSUME NEW r \in DiscountRuns, RestoreMarks(r) PROVE PriceTypes' /\ PriceInv'
  <2>0. PICK d \in DiscountIds : d = restore[r].on
    BY <1>0, <1>2 DEF RestoreMarks, PriceTypes, JobRun
  <2>1. /\ restore' \in [DiscountRuns -> JobRun]
        /\ \A k \in DiscountRuns : restore'[k].on \in {0, restore[k].on} /\ restore'[k].todo = restore[k].todo
        /\ UNCHANGED <<today, amount, plan, apply, slips>> /\ failures' \in {failures, failures + 1}
    BY <1>0, <1>2 DEF RestoreMarks, JobRun, PriceTypes, Fails
  <2>2. /\ DOMAIN discounts' = DOMAIN discounts
        /\ \A e \in DOMAIN discounts : /\ discounts'[e] \in DiscountRecord
                                       /\ discounts'[e].restored => e = d \/ discounts[e].restored
                                       /\ discounts'[e].applied = discounts[e].applied
    <3>1. CASE UNCHANGED discounts
      BY <1>0, <3>1 DEF PriceTypes
    <3>2. CASE discounts' = [e \in DOMAIN discounts |->
                               IF e = restore[r].on THEN [discounts[e] EXCEPT !.restored = TRUE] ELSE discounts[e]]
      BY <1>0, <2>0, <3>2 DEF PriceTypes, DiscountRecord
    <3> QED BY <1>2, <3>1, <3>2 DEF RestoreMarks
  <2>3. PriceTypes'
    BY <1>0, <2>1, <2>2 DEF PriceTypes
  <2>4. Restoring(r, d) /\ \A k \in DiscountRuns : \A e \in DiscountIds : Restoring(k, e)' => Restoring(k, e)
    BY <1>0, <2>0, <2>1 DEF Restoring
  <2> QED BY <1>0, <2>0, <2>1, <2>2, <2>3, <2>4 DEF PriceInv, Applied, PriceTypes
<1>3. ASSUME NEW r \in DiscountRuns, NEW d \in DiscountIds, RestoreOne(r, d) PROVE PriceTypes' /\ PriceInv'
  <2>1. /\ restore' \in [DiscountRuns -> JobRun] /\ d \in restore[r].todo
        /\ \A k \in DiscountRuns : restore'[k].todo \subseteq restore[k].todo
        /\ \A k \in DiscountRuns \ {r} : restore'[k].on = restore[k].on
        /\ UNCHANGED <<today, discounts, plan, apply>> /\ failures' \in {failures, failures + 1}
        /\ \/ restore'[r].on = d /\ amount' = 0 /\ slips' = slips
           \/ restore'[r].on = 0 /\ amount' \in {0, amount} /\ slips' = slips
           \/ /\ restore'[r].on = d /\ amount' = amount
              /\ IF amount = d THEN slips' = slips \cup {d} ELSE slips' = slips
    <3>0. d \in restore[r].todo /\ restore[r].on = 0 /\ restore \in [DiscountRuns -> JobRun]
      BY <1>0, <1>3 DEF RestoreOne, PriceTypes
    <3>1. CASE restore' = [restore EXCEPT ![r].todo = @ \ {d}, ![r].on = d]
      BY <1>3, <3>0, <3>1 DEF RestoreOne, JobRun, Slip, Fails
    <3>2. CASE restore' = [restore EXCEPT ![r].todo = @ \ {d}]
      BY <1>3, <3>0, <3>2 DEF RestoreOne, JobRun, Slip, Fails
    <3> QED BY <1>3, <3>1, <3>2 DEF RestoreOne
  <2>2. PriceTypes'
    BY <1>0, <2>1 DEF PriceTypes
  <2>3. \A k \in DiscountRuns : \A e \in DiscountIds : Restoring(k, e)' => Restoring(k, e) \/ (k = r /\ e = d)
    BY <1>0, <2>1 DEF Restoring
  <2>4. Restoring(r, d)
    BY <2>1 DEF Restoring
  <2>5. slips \subseteq slips' /\ amount' \in {0, amount}
    BY <2>1
  <2>6. \A k \in DiscountRuns : amount' # 0 /\ amount' \notin slips' => restore'[k].on # amount'
    BY <1>0, <2>1 DEF PriceInv
  <2> QED BY <1>0, <2>1, <2>2, <2>3, <2>4, <2>5, <2>6 DEF PriceInv, Applied
<1> QED BY <1>1, <1>2, <1>3 DEF RestoreSteps

LEMMA PriceStep ==
    ASSUME DiscountsOK, PriceInv, [DiscountsNext]_<<discountVars, serviceVars>>
    PROVE  DiscountsOK' /\ PriceInv'
<1>0. PriceTypes /\ 0 \notin DiscountIds
  BY DiscountsAssumption DEF DiscountsOK, DiscountsTypeOK, PriceTypes
<1>1. ASSUME DayPasses \/ AmountSetByHand \/ \E next \in Plans : PlanMoves(next) PROVE PriceTypes' /\ PriceInv'
  <2>1. /\ today' \in Days /\ plan' \in Plans /\ amount' \in {0, amount}
        /\ UNCHANGED <<discounts, apply, restore, failures, slips>>
    BY <1>0, <1>1, DiscountsAssumption DEF DayPasses, AmountSetByHand, PlanMoves, PriceTypes, Days
  <2> QED BY <1>0, <2>1 DEF PriceTypes, PriceInv, Applied, Restoring
<1>2. ASSUME JobsStop PROVE PriceTypes' /\ PriceInv'
  <2>1. /\ apply' \in [DiscountRuns -> JobRun] /\ restore' \in [DiscountRuns -> JobRun]
        /\ \A r \in DiscountRuns : restore'[r].on = 0 /\ restore'[r].todo = {}
        /\ UNCHANGED <<today, discounts, amount, plan>> /\ failures' \in {failures, failures + 1}
    BY <1>2 DEF JobsStop, Resting, JobRun, Fails
  <2>2. slips \subseteq slips' /\ slips' \subseteq DiscountIds
        /\ \A r \in DiscountRuns : apply[r].on # 0 => apply[r].on \in slips'
    BY <1>0, <1>2 DEF JobsStop, PriceTypes, JobRun
  <2>3. PriceTypes'
    BY <1>0, <2>1, <2>2 DEF PriceTypes
  <2> QED BY <1>0, <2>1, <2>2, <2>3 DEF PriceInv, Applied, Restoring
<1>3. ASSUME UNCHANGED <<today, discounts, amount, plan, apply, restore, slips>>,
             failures' \in {failures, failures + 1}
      PROVE  PriceTypes' /\ PriceInv'
  BY <1>0, <1>3 DEF PriceTypes, PriceInv, Applied, Restoring
<1>4. ASSUME NEW h \in Handlers, OfferInserts(h) \/ OfferUpdates(h) \/ CheckoutCounts(h) \/ Checks(h)
      PROVE  UNCHANGED <<today, discounts, amount, plan, apply, restore, slips>> /\ failures' \in {failures, failures + 1}
  <2>1. Checks(h) => UNCHANGED <<today, discounts, amount, plan, apply, restore, slips, failures>>
    BY DiscountChecksKeep DEF discountVars
  <2> QED BY <1>4, <2>1 DEF OfferInserts, OfferUpdates, CheckoutCounts, Fails
<1>5. ASSUME NEW o \in DOMAIN offers, RemoveOffer(o)
      PROVE  UNCHANGED <<today, discounts, amount, plan, apply, restore, slips>> /\ failures' \in {failures, failures + 1}
  BY <1>5 DEF RemoveOffer
<1>6. CASE UNCHANGED <<discountVars, serviceVars>>
  <2>0. UNCHANGED <<today, discounts, amount, plan, apply, restore, slips>> /\ failures' = failures
    BY <1>6 DEF discountVars
  <2>1. PriceTypes' /\ PriceInv'
    BY <1>3, <2>0
  <2> QED BY <1>6, <2>1 DEF DiscountsOK, DiscountsTypeOK, discountVars, serviceVars
<1>7. CASE DiscountsNext
  <2>0. /\ \A h \in Handlers : DiscountInserts(h) \/ DiscountDeleted(h) => PriceTypes' /\ PriceInv'
        /\ ApplySteps \/ RestoreSteps => PriceTypes' /\ PriceInv'
    BY PriceRowsKeep, ApplyKeepsPrice, RestoreKeepsPrice
  <2>1. PriceTypes' /\ PriceInv'
    BY <1>1, <1>2, <1>3, <1>4, <1>5, <1>7, <2>0, DiscountKinds DEF Backstage
  <2> QED BY <1>7, <2>1, OfferTypes, DiscountCallsStep DEF DiscountsOK, DiscountsTypeOK, PriceTypes
<1> QED BY <1>6, <1>7

(* A preapproval has the amount of a discount only while the discount is    *)
(* being marked or is applied and not restored, unless the code let it slip *)
(* (discounts.service applyPendingDiscounts against restoreExpiredDiscounts *)
(* and remove).                                                             *)
THEOREM LowPrices == DiscountsSpec => []LowPriceIsAccountedFor
<1>1. DiscountsSpec => [](DiscountsOK /\ PriceInv)
  BY DiscountsInitHolds, PriceStep, PTL DEF DiscountsSpec
<1> QED BY <1>1, PriceFollows, PTL

-----------------------------------------------------------------------------
(* Discounts: the periods and the uses                                      *)

DiscountsOn(day) == {d \in DOMAIN discounts : ~discounts[d].restored /\ day \in discounts[d].start .. discounts[d].end}
ClaimsOn(day) == {h \in Handlers : call[h].op = "createDiscount" /\ day \in call[h].start .. call[h].end}

UsersOf(o) == {h \in Handlers : call[h].op = "useOffer" /\ call[h].id = o}

(* Rows and the claims of handlers in flight, together                      *)
DiscountPeriodsOK == \A day \in Days : Cardinality(DiscountsOn(day)) + Cardinality(ClaimsOn(day)) <= Side

(* An active offer, other than o, in these days, that no one raced to write *)
Unraced(o, from, to) == {p \in DOMAIN offers \ (raced \cup {o}) : Standing(p) /\ Meet(p, from, to)}

(* The row of offer o once h has written the fields it was given            *)
From(h, o) == IF "from" \in call[h].given THEN call[h].from ELSE offers[o].from
To(h, o) == IF "to" \in call[h].given THEN call[h].to ELSE offers[o].to
GoesActive(h, o) == IF "active" \in call[h].given THEN call[h].active ELSE offers[o].active

(* Offers that overlap raced; and so would those that the handlers in       *)
(* flight are about to write: what they checked was changed by a race.      *)
OfferPeriodsOK ==
    /\ \A o \in DOMAIN offers \ raced : Standing(o) => Unraced(o, offers[o].from, offers[o].to) = {}
    /\ \A h \in Handlers : call[h].op = "createOffer" /\ call[h].active =>
         \A p \in DOMAIN offers \ raced : Standing(p) => ~Meet(p, call[h].from, call[h].to)
    /\ \A h \in Handlers : call[h].op = "updateOffer" =>
         LET o == call[h].id
         IN o \in DOMAIN offers /\ (o \notin raced /\ GoesActive(h, o) => Unraced(o, From(h, o), To(h, o)) = {})

UsesOK ==
    /\ \A h \in Handlers : call[h].op = "useOffer" => call[h].id \in DOMAIN offers
    /\ \A o \in DOMAIN offers : /\ offers[o].uses + Cardinality(UsersOf(o)) <= MaxUses + Side - 1
                                /\ offers[o].taken <= offers[o].uses + failures

RowsFinite == IsFiniteSet(DOMAIN discounts)

PeriodsInv == DiscountsOK /\ PriceInv /\ BusyOK /\ RowsFinite /\ DiscountPeriodsOK /\ OfferPeriodsOK /\ UsesOK

(* Two sets that do not grow *)
LEMMA StillFew ==
    ASSUME NEW A, NEW B, IsFiniteSet(A), IsFiniteSet(B), NEW n \in Nat, Cardinality(A) + Cardinality(B) <= n,
           NEW C \in SUBSET A, NEW D \in SUBSET B
    PROVE  Cardinality(C) + Cardinality(D) <= n
<1>1. /\ Cardinality(A) \in Nat /\ Cardinality(B) \in Nat
      /\ Cardinality(C) \in Nat /\ Cardinality(D) \in Nat
      /\ Cardinality(C) <= Cardinality(A) /\ Cardinality(D) <= Cardinality(B)
  BY FS_CardinalityType, FS_Subset
<1> QED BY <1>1

LEMMA ClaimsAreFew ==
    ASSUME DiscountsOK, RowsFinite, NEW day
    PROVE  IsFiniteSet(DiscountsOn(day)) /\ IsFiniteSet(ClaimsOn(day)) /\ ClaimsOn(day) \subseteq Busy
<1>1. IsFiniteSet(DiscountsOn(day))
  BY FS_Subset DEF RowsFinite, DiscountsOn
<1>2. ClaimsOn(day) \subseteq Busy
  BY DEF ClaimsOn, Busy, Idle
<1> QED BY <1>1, <1>2, FewHandlers DEF ClaimsOn

-----------------------------------------------------------------------------
(* What a step that is not about a kind of request leaves of its claims     *)
NoneNew(op) == \A h \in Handlers : call'[h].op = op => call'[h] = call[h]

LEMMA NoneNewByOthers ==
    ASSUME DiscountsOK, NEW op \in {"createDiscount", "createOffer", "updateOffer", "useOffer"}
    PROVE  /\ \A h \in Handlers : \A r : Takes(h, r) /\ r.op # op => NoneNew(op)
           /\ \A h \in Handlers : \A ops : Ends(h, ops) => NoneNew(op)
           /\ UNCHANGED call => NoneNew(op)
  BY DEF DiscountsOK, Takes, Ends, NoneNew, Idle

LEMMA KindsOfSteps ==
    ASSUME DiscountsOK, BusyOK, [DiscountsNext]_<<discountVars, serviceVars>>
    PROVE  /\ BusyOK' /\ Side' = Side
           /\ NoneNew("createDiscount") \/ \E h \in Handlers, from, to \in Days : DiscountChecks(h, from, to)
           /\ NoneNew("createOffer")
              \/ \E h \in Handlers, from, to \in Days, active \in BOOLEAN : OfferChecks(h, from, to, active)
           /\ NoneNew("updateOffer")
              \/ \E h \in Handlers, from, to \in Days, active \in BOOLEAN, o \in DOMAIN offers,
                    given \in OfferForms : OfferUpdateChecks(h, o, given, from, to, active)
           /\ NoneNew("useOffer") \/ \E h \in Handlers, o \in DOMAIN offers : CheckoutResolves(h, o)
<1> DEFINE Kinds == {"createDiscount", "createOffer", "updateOffer", "useOffer"}
<1>0. DOMAIN call = Handlers
  BY DEF DiscountsOK
<1>1. ASSUME NEW h \in Handlers, NEW r, r # Idle, Takes(h, r)
      PROVE  BusyOK' /\ Side' = Side /\ \A op \in Kinds : r.op # op => NoneNew(op)
  BY <1>0, <1>1, TakesBusy, NoneNewByOthers
<1>2. ASSUME NEW h \in Handlers, NEW ops, Ends(h, ops)
      PROVE  BusyOK' /\ Side' = Side /\ \A op \in Kinds : NoneNew(op)
  BY <1>0, <1>2, EndsBusy, NoneNewByOthers
<1>3. ASSUME UNCHANGED serviceVars
      PROVE  BusyOK' /\ Side' = Side /\ \A op \in Kinds : NoneNew(op)
  <2>1. Busy' = Busy /\ UNCHANGED scenario /\ UNCHANGED call
    BY <1>3 DEF Busy, serviceVars
  <2> QED BY <2>1, FewerBusy, NoneNewByOthers
<1>4. ASSUME NEW h \in Handlers,
             DiscountInserts(h) \/ DiscountDeleted(h) \/ OfferInserts(h) \/ OfferUpdates(h) \/ CheckoutCounts(h)
      PROVE  BusyOK' /\ Side' = Side /\ \A op \in Kinds : NoneNew(op)
  BY <1>2, <1>4 DEF DiscountInserts, DiscountDeleted, OfferInserts, OfferUpdates, CheckoutCounts
<1>5. ASSUME NEW h \in Handlers, NEW d \in DOMAIN discounts, DiscountLeaves(h, d)
      PROVE  BusyOK' /\ Side' = Side /\ \A op \in Kinds : NoneNew(op)
  <2>1. Takes(h, [op |-> "removeDiscount", id |-> d])
    BY <1>5 DEF DiscountLeaves
  <2> QED BY <1>1, <2>1 DEF Idle
<1>6. ASSUME NEW h \in Handlers, NEW o \in DOMAIN offers, CheckoutResolves(h, o)
      PROVE  BusyOK' /\ Side' = Side /\ \A op \in Kinds \ {"useOffer"} : NoneNew(op)
  <2>1. Takes(h, [op |-> "useOffer", id |-> o])
    BY <1>6 DEF CheckoutResolves
  <2> QED BY <1>1, <2>1 DEF Idle
<1>7. ASSUME NEW h \in Handlers, NEW from \in Days, NEW to \in Days, DiscountChecks(h, from, to)
      PROVE  BusyOK' /\ Side' = Side /\ \A op \in Kinds \ {"createDiscount"} : NoneNew(op)
  <2>1. Takes(h, [op |-> "createDiscount", start |-> from, end |-> to])
    BY <1>7 DEF DiscountChecks
  <2> QED BY <1>1, <2>1 DEF Idle
<1>8. ASSUME NEW h \in Handlers, NEW from \in Days, NEW to \in Days, NEW active \in BOOLEAN,
             OfferChecks(h, from, to, active)
      PROVE  BusyOK' /\ Side' = Side /\ \A op \in Kinds \ {"createOffer"} : NoneNew(op)
  <2>1. Takes(h, [op |-> "createOffer", from |-> from, to |-> to, active |-> active])
    BY <1>8 DEF OfferChecks
  <2> QED BY <1>1, <2>1 DEF Idle
<1>9. ASSUME NEW h \in Handlers, NEW from \in Days, NEW to \in Days, NEW active \in BOOLEAN,
             NEW o \in DOMAIN offers, NEW given, OfferUpdateChecks(h, o, given, from, to, active)
      PROVE  BusyOK' /\ Side' = Side /\ \A op \in Kinds \ {"updateOffer"} : NoneNew(op)
  <2> DEFINE r == [op |-> "updateOffer", id |-> o, given |-> given, from |-> from, to |-> to, active |-> active]
  <2>1. Takes(h, r)
    BY <1>9 DEF OfferUpdateChecks
  <2>2. r # Idle /\ r.op = "updateOffer"
    BY DEF Idle
  <2> HIDE DEF r
  <2> QED BY <1>1, <2>1, <2>2
<1>10. ASSUME Backstage \/ (\E o \in DOMAIN offers : RemoveOffer(o)) \/ UNCHANGED <<discountVars, serviceVars>>
       PROVE  BusyOK' /\ Side' = Side /\ \A op \in Kinds : NoneNew(op)
  <2>1. UNCHANGED serviceVars
    BY <1>10, BackstageKeeps DEF RemoveOffer
  <2> QED BY <1>3, <2>1
<1>11. \A op : op \in Kinds <=> op \in {"createDiscount", "createOffer", "updateOffer", "useOffer"}
  OBVIOUS
<1> HIDE DEF Kinds
<1>12. CASE DiscountsNext
  <2>1. CASE \E h \in Handlers :
               \/ DiscountInserts(h) \/ DiscountDeleted(h) \/ OfferInserts(h) \/ OfferUpdates(h) \/ CheckoutCounts(h)
               \/ \E d \in DOMAIN discounts : DiscountLeaves(h, d)
    BY <1>4, <1>5, <1>11, <2>1
  <2>2. CASE \E h \in Handlers, o \in DOMAIN offers : CheckoutResolves(h, o)
    BY <1>6, <1>11, <2>2
  <2>3. CASE \E h \in Handlers, from, to \in Days : DiscountChecks(h, from, to)
    BY <1>7, <1>11, <2>3
  <2>4. CASE \E h \in Handlers, from, to \in Days, active \in BOOLEAN : OfferChecks(h, from, to, active)
    BY <1>8, <1>11, <2>4
  <2>5. CASE \E h \in Handlers, from, to \in Days, active \in BOOLEAN, o \in DOMAIN offers,
                given \in OfferForms : OfferUpdateChecks(h, o, given, from, to, active)
    BY <1>9, <1>11, <2>5
  <2> QED BY <1>10, <1>11, <1>12, <2>1, <2>2, <2>3, <2>4, <2>5, DiscountKinds DEF Checks
<1> QED BY <1>10, <1>11, <1>12

(* What a step that does not write a period leaves of the rows              *)
RowsOnlyLeave ==
    \A d \in DOMAIN discounts' :
        /\ d \in DOMAIN discounts /\ discounts'[d].start = discounts[d].start /\ discounts'[d].end = discounts[d].end
        /\ discounts[d].restored => discounts'[d].restored

OffersOnlyLeave ==
    /\ DOMAIN offers' = DOMAIN offers /\ raced' = raced /\ failures' \in {failures, failures + 1}
    /\ \A o \in DOMAIN offers :
         /\ offers'[o].from = offers[o].from /\ offers'[o].to = offers[o].to
         /\ offers'[o].active = offers[o].active
         /\ offers'[o].uses = offers[o].uses /\ offers'[o].taken = offers[o].taken
         /\ offers[o].deleted => offers'[o].deleted

LEMMA KindsOfWrites ==
    ASSUME DiscountsOK, [DiscountsNext]_<<discountVars, serviceVars>>
    PROVE  /\ RowsOnlyLeave \/ \E h \in Handlers : DiscountInserts(h)
           /\ OffersOnlyLeave \/ \E h \in Handlers : OfferInserts(h) \/ OfferUpdates(h) \/ CheckoutCounts(h)
<1>1. UNCHANGED discounts => RowsOnlyLeave
  BY DEF RowsOnlyLeave
<1>2. UNCHANGED <<offers, raced>> /\ failures' \in {failures, failures + 1} => OffersOnlyLeave
  BY DEF OffersOnlyLeave
<1>3. ASSUME NEW h \in Handlers, DiscountDeleted(h) PROVE RowsOnlyLeave /\ OffersOnlyLeave
  <2>1. RowsOnlyLeave
    BY <1>3, DiscountRows DEF RowsOnlyLeave
  <2> QED BY <1>2, <1>3, <2>1 DEF DiscountDeleted
<1>4. ASSUME NEW o \in DOMAIN offers, RemoveOffer(o) PROVE RowsOnlyLeave /\ OffersOnlyLeave
  <2>1. OffersOnlyLeave
    BY <1>4 DEF RemoveOffer, OffersOnlyLeave, DiscountsOK, DiscountsTypeOK, OfferRecord
  <2> QED BY <1>1, <1>4, <2>1 DEF RemoveOffer
<1>5. ASSUME NEW h \in Handlers, OfferInserts(h) \/ OfferUpdates(h) \/ CheckoutCounts(h) PROVE RowsOnlyLeave
  BY <1>1, <1>5 DEF OfferInserts, OfferUpdates, CheckoutCounts
<1>6. ASSUME NEW h \in Handlers, DiscountInserts(h) PROVE OffersOnlyLeave
  BY <1>2, <1>6 DEF DiscountInserts
<1>7. ASSUME Backstage PROVE RowsOnlyLeave /\ OffersOnlyLeave
  <2>1. OffersOnlyLeave
    <3>1. failures' \in {failures, failures + 1}
      BY <1>7 DEF Backstage, ApplySteps, ApplyStarts, ApplyMarks, ApplyEnds, ApplyOne, RestoreSteps, RestoreStarts,
         RestoreMarks, RestoreEnds, RestoreOne, DayPasses, JobsStop, AmountSetByHand, PlanMoves, Fails
    <3> QED BY <1>2, <1>7, <3>1, BackstageKeeps
  <2>2. ASSUME NEW r \in DiscountRuns, ApplyMarks(r) \/ RestoreMarks(r) PROVE RowsOnlyLeave
    <3>1. \A d \in DOMAIN discounts : discounts[d] \in DiscountRecord
      BY DEF DiscountsOK, DiscountsTypeOK
    <3> QED BY <2>2, <3>1, DiscountRows DEF RowsOnlyLeave, DiscountRecord
  <2>3. ASSUME \/ \E r \in DiscountRuns :
                    \/ ApplyStarts(r) \/ ApplyEnds(r) \/ \E d \in DiscountIds : ApplyOne(r, d)
                    \/ RestoreStarts(r) \/ RestoreEnds(r) \/ \E d \in DiscountIds : RestoreOne(r, d)
               \/ DayPasses \/ JobsStop \/ AmountSetByHand \/ \E next \in Plans : PlanMoves(next)
        PROVE  RowsOnlyLeave
    BY <1>1, <2>3 DEF ApplyStarts, ApplyEnds, ApplyOne, RestoreStarts, RestoreEnds, RestoreOne, DayPasses, JobsStop,
       AmountSetByHand, PlanMoves
  <2> QED BY <1>7, <2>1, <2>2, <2>3 DEF Backstage, ApplySteps, RestoreSteps
<1>8. ASSUME UNCHANGED discountVars PROVE RowsOnlyLeave /\ OffersOnlyLeave
  BY <1>1, <1>2, <1>8 DEF discountVars
<1>9. CASE DiscountsNext
  BY <1>3, <1>4, <1>5, <1>6, <1>7, <1>8, <1>9, DiscountChecksKeep, DiscountKinds
<1> QED BY <1>8, <1>9

LEMMA FiniteStep ==
    ASSUME DiscountsOK, RowsFinite, [DiscountsNext]_<<discountVars, serviceVars>>
    PROVE  RowsFinite'
<1>1. ASSUME NEW h \in Handlers, DiscountInserts(h) PROVE IsFiniteSet(DOMAIN discounts')
  <2>1. PICK d : DOMAIN discounts' = DOMAIN discounts \cup {d}
    BY <1>1, DiscountRows
  <2> QED BY <2>1, FS_AddElement DEF RowsFinite
<1>2. CASE RowsOnlyLeave
  <2>1. DOMAIN discounts' \subseteq DOMAIN discounts
    BY <1>2 DEF RowsOnlyLeave
  <2> QED BY <2>1, FS_Subset DEF RowsFinite
<1> QED BY <1>1, <1>2, KindsOfWrites DEF RowsFinite

(* A check finds the period free of rows: the claims are those of busy      *)
(* handlers.  An insertion turns a claim into a row.                        *)
LEMMA DiscountPeriodsStep ==
    ASSUME DiscountsOK, BusyOK, RowsFinite, DiscountPeriodsOK, DiscountsOK', BusyOK', RowsFinite', Side' = Side,
           [DiscountsNext]_<<discountVars, serviceVars>>
    PROVE  DiscountPeriodsOK'
<1> SUFFICES ASSUME NEW day \in Days
             PROVE  Cardinality(DiscountsOn(day)') + Cardinality(ClaimsOn(day)') <= Side
  BY DEF DiscountPeriodsOK
<1> DEFINE D == DiscountsOn(day)
           C == ClaimsOn(day)
<1>0. IsFiniteSet(D) /\ IsFiniteSet(C) /\ Cardinality(D) + Cardinality(C) <= Side /\ Side \in Nat
  BY ClaimsAreFew, SideIsNat DEF DiscountPeriodsOK
<1>1. RowsOnlyLeave => D' \subseteq D
  BY DEF RowsOnlyLeave, DiscountsOn
<1>2. NoneNew("createDiscount") => C' \subseteq C
  BY DEF NoneNew, ClaimsOn
<1>3. ASSUME NEW h \in Handlers, DiscountInserts(h)
      PROVE  Cardinality(D') + Cardinality(C') <= Side
  <2>1. PICK d \in DiscountIds \ DOMAIN discounts :
          /\ DOMAIN discounts' = DOMAIN discounts \cup {d}
          /\ \A e \in DOMAIN discounts : discounts'[e] = discounts[e]
          /\ discounts'[d] = [start |-> call[h].start, end |-> call[h].end, applied |-> FALSE, restored |-> FALSE]
          /\ call[h].op = "createDiscount"
    BY <1>3, DiscountRows
  <2>2. \A k \in Handlers : call'[k] = IF k = h THEN Idle ELSE call[k]
    BY <1>3 DEF DiscountInserts, Ends, DiscountsOK
  <2>3. C' = C \ {h}
    BY <2>2 DEF ClaimsOn, Idle
  <2>4. CASE h \in C
    <3>1. D' \subseteq D \cup {d}
      BY <2>1 DEF DiscountsOn
    <3>2. Cardinality(D \cup {d}) + Cardinality(C \ {h}) <= Side
      <4> HIDE DEF D, C
      <4> QED BY <1>0, <2>4, HandsOver
    <3>3. IsFiniteSet(D \cup {d}) /\ IsFiniteSet(C \ {h})
      <4> HIDE DEF D, C
      <4> QED BY <1>0, FS_AddElement, FS_RemoveElement
    <3> HIDE DEF D, C
    <3> QED BY <1>0, <2>3, <3>1, <3>2, <3>3, StillFew
  <2>5. CASE h \notin C
    <3>1. day \notin call[h].start .. call[h].end
      BY <2>1, <2>5 DEF ClaimsOn
    <3>2. D' \subseteq D
      BY <2>1, <3>1 DEF DiscountsOn
    <3> HIDE DEF D, C
    <3> QED BY <1>0, <2>3, <3>2, StillFew
  <2> QED BY <2>4, <2>5
<1>4. ASSUME NEW h \in Handlers, NEW from \in Days, NEW to \in Days, DiscountChecks(h, from, to)
      PROVE  Cardinality(D') + Cardinality(C') <= Side
  <2>1. \A k \in Handlers : call'[k] = IF k = h THEN [op |-> "createDiscount", start |-> from, end |-> to] ELSE call[k]
    BY <1>4 DEF DiscountChecks, Takes, DiscountsOK
  <2>2. D' = D
    BY <1>4 DEF DiscountChecks, discountVars, DiscountsOn
  <2>3. CASE day \in from .. to
    <3>1. D = {}
      <4> SUFFICES ASSUME NEW d \in D PROVE FALSE
        OBVIOUS
      <4>1. /\ d \in DOMAIN discounts /\ ~discounts[d].restored /\ discounts[d].start <= day /\ day <= discounts[d].end
            /\ discounts[d].start \in Nat /\ discounts[d].end \in Nat /\ from <= day /\ day <= to
            /\ from \in Nat /\ to \in Nat /\ day \in Nat
        BY <2>3, DiscountsAssumption DEF DiscountsOn, DiscountsOK, DiscountsTypeOK, DiscountRecord, Days
      <4>2. d \in Overlapping(from, to)
        <5>1. discounts[d].start <= to /\ discounts[d].end >= from
          BY <4>1
        <5> QED BY <4>1, <5>1 DEF Overlapping
      <4> QED BY <1>4, <4>2 DEF DiscountChecks
    <3>2. IsFiniteSet(Busy') /\ C' \subseteq Busy'
      BY FewHandlers DEF Busy, ClaimsOn, Idle
    <3>3. Cardinality(C') <= Cardinality(Busy') /\ Cardinality(C') \in Nat /\ Cardinality(Busy') \in Nat
      BY <3>2, FS_Subset, FS_CardinalityType
    <3>4. Cardinality(D') = 0
      BY <2>2, <3>1, FS_EmptySet
    <3> HIDE DEF D, C
    <3> QED BY <1>0, <3>3, <3>4 DEF BusyOK
  <2>4. CASE day \notin from .. to
    <3>1. C' \subseteq C
      BY <2>1, <2>4 DEF ClaimsOn
    <3> HIDE DEF D, C
    <3> QED BY <1>0, <2>2, <3>1, StillFew
  <2> QED BY <2>3, <2>4
<1>5. CASE RowsOnlyLeave /\ NoneNew("createDiscount")
  <2> HIDE DEF D, C
  <2>1. Cardinality(D') + Cardinality(C') <= Side
    BY <1>0, <1>1, <1>2, <1>5, StillFew
  <2> QED BY <2>1 DEF D, C
<1> QED BY <1>3, <1>4, <1>5, KindsOfSteps, KindsOfWrites

(* What a step leaves of the offers that writes none of their periods       *)
PeriodsOnlyLeave ==
    /\ DOMAIN offers' = DOMAIN offers /\ raced' = raced
    /\ \A o \in DOMAIN offers :
         /\ offers'[o].from = offers[o].from /\ offers'[o].to = offers[o].to /\ offers'[o].active = offers[o].active
         /\ offers[o].deleted => offers'[o].deleted

LEMMA PeriodsLeft ==
    ASSUME OfferPeriodsOK, PeriodsOnlyLeave, NoneNew("createOffer"), NoneNew("updateOffer")
    PROVE  OfferPeriodsOK'
<1>1. \A p \in DOMAIN offers : Standing(p)' => Standing(p)
  BY DEF PeriodsOnlyLeave, Standing
<1>2. \A p \in DOMAIN offers : \A from, to : Meet(p, from, to)' <=> Meet(p, from, to)
  BY DEF PeriodsOnlyLeave, Meet
<1>3. \A o, from, to : Unraced(o, from, to)' \subseteq Unraced(o, from, to)
  BY <1>1, <1>2 DEF PeriodsOnlyLeave, Unraced
<1>4. ASSUME NEW o \in DOMAIN offers' \ raced', Standing(o)' PROVE Unraced(o, offers[o].from, offers[o].to)' = {}
  BY <1>1, <1>3, <1>4 DEF OfferPeriodsOK, PeriodsOnlyLeave
<1>5. ASSUME NEW h \in Handlers, call'[h].op = "createOffer", call'[h].active,
             NEW q \in DOMAIN offers' \ raced', Standing(q)'
      PROVE  ~Meet(q, call[h].from, call[h].to)'
  BY <1>1, <1>2, <1>5 DEF OfferPeriodsOK, PeriodsOnlyLeave, NoneNew
<1>6. ASSUME NEW h \in Handlers, call'[h].op = "updateOffer", NEW o, o = call'[h].id
      PROVE  o \in DOMAIN offers' /\ (o \notin raced' /\ GoesActive(h, o)' => Unraced(o, From(h, o), To(h, o))' = {})
  <2>1. call'[h] = call[h] /\ o \in DOMAIN offers /\ (o \notin raced /\ GoesActive(h, o) => Unraced(o, From(h, o), To(h, o)) = {})
    BY <1>6 DEF NoneNew, OfferPeriodsOK
  <2>2. From(h, o)' = From(h, o) /\ To(h, o)' = To(h, o) /\ (GoesActive(h, o)' <=> GoesActive(h, o))
    BY <2>1 DEF PeriodsOnlyLeave, From, To, GoesActive
  <2>3. Unraced(o, From(h, o), To(h, o))' \subseteq Unraced(o, From(h, o), To(h, o))
    BY <1>1, <1>2, <2>2 DEF PeriodsOnlyLeave, Unraced
  <2>4. o \in DOMAIN offers' /\ (o \in raced' <=> o \in raced)
    BY <2>1 DEF PeriodsOnlyLeave
  <2> QED BY <2>1, <2>2, <2>3, <2>4
<1> QED BY <1>4, <1>5, <1>6 DEF OfferPeriodsOK

(* A row written by a handler that is done with it: whoever else is about   *)
(* to write makes it raced.                                                 *)
LEMMA OfferWritten ==
    ASSUME DiscountsOK, DiscountsOK', OfferPeriodsOK, NEW h \in Handlers, NEW o, Races(h, o),
           DOMAIN offers' = DOMAIN offers \cup {o}, \A q \in DOMAIN offers \ {o} : offers'[q] = offers[q],
           \A k \in Handlers : call'[k] = IF k = h THEN Idle ELSE call[k],
           o \notin raced /\ Standing(o)' => Unraced(o, offers'[o].from, offers'[o].to) = {}
    PROVE  OfferPeriodsOK'
<1>0. raced \subseteq raced' /\ raced' \subseteq raced \cup {o}
  BY DEF Races
<1>1. \A q \in DOMAIN offers \ {o} : /\ Standing(q)' <=> Standing(q)
                                     /\ \A from, to : Meet(q, from, to)' <=> Meet(q, from, to)
  BY DEF Standing, Meet
<1>2. \A from, to : Unraced(o, from, to)' \subseteq Unraced(o, from, to)
  BY <1>0, <1>1 DEF Unraced
<1>3. ASSUME NEW k \in Handlers, call'[k].op \in {"createOffer", "updateOffer"}
      PROVE  k # h /\ call'[k] = call[k] /\ o \in raced'
  BY <1>3 DEF Races, Idle
<1>4. ASSUME NEW q \in DOMAIN offers' \ raced', Standing(q)' PROVE Unraced(q, offers[q].from, offers[q].to)' = {}
  <2>1. CASE q = o
    BY <1>0, <1>2, <1>4, <2>1
  <2>2. CASE q # o
    <3>1. q \in DOMAIN offers \ raced /\ Standing(q) /\ offers'[q] = offers[q]
      BY <1>0, <1>1, <1>4, <2>2
    <3>2. Unraced(q, offers[q].from, offers[q].to) = {}
      BY <3>1 DEF OfferPeriodsOK
    <3>3. ASSUME NEW x \in Unraced(q, offers[q].from, offers[q].to)' PROVE FALSE
      <4>1. x \in DOMAIN offers' \ (raced' \cup {q}) /\ Standing(x)' /\ Meet(x, offers[q].from, offers[q].to)'
        BY <3>3 DEF Unraced
      <4>2. CASE x = o
        <5>1. o \notin raced /\ Standing(o)'
          BY <1>0, <4>1, <4>2
        <5>2. q \in Unraced(o, offers'[o].from, offers'[o].to)
          <6>1. Meet(q, offers'[o].from, offers'[o].to)
            <7>1. offers'[o].from <= offers'[q].to /\ offers'[o].to >= offers'[q].from
              BY <4>1, <4>2 DEF Meet
            <7>2. /\ offers'[o].from \in Nat /\ offers'[o].to \in Nat
                  /\ offers'[q].from \in Nat /\ offers'[q].to \in Nat
              BY <1>4, DiscountsAssumption DEF DiscountsOK, DiscountsTypeOK, OfferRecord, Days
            <7> QED BY <3>1, <7>1, <7>2 DEF Meet
          <6> QED BY <2>2, <3>1, <6>1 DEF Unraced
        <5> QED BY <5>1, <5>2
      <4>3. CASE x # o
        BY <1>0, <1>1, <3>1, <3>2, <4>1, <4>3 DEF Unraced
      <4> QED BY <4>2, <4>3
    <3> QED BY <3>3
  <2> QED BY <2>1, <2>2
<1>5. ASSUME NEW k \in Handlers, call'[k].op = "createOffer", call'[k].active,
             NEW q \in DOMAIN offers' \ raced', Standing(q)'
      PROVE  ~Meet(q, call[k].from, call[k].to)'
  <2>1. call'[k] = call[k] /\ q # o
    BY <1>3, <1>5
  <2> QED BY <1>0, <1>1, <1>5, <2>1 DEF OfferPeriodsOK
<1>6. ASSUME NEW k \in Handlers, call'[k].op = "updateOffer", NEW p, p = call'[k].id
      PROVE  p \in DOMAIN offers' /\ (p \notin raced' /\ GoesActive(k, p)' => Unraced(p, From(k, p), To(k, p))' = {})
  <2>1. call'[k] = call[k] /\ o \in raced' /\ p \in DOMAIN offers
        /\ (p \notin raced /\ GoesActive(k, p) => Unraced(p, From(k, p), To(k, p)) = {})
    BY <1>3, <1>6 DEF OfferPeriodsOK
  <2>2. ASSUME p \notin raced', GoesActive(k, p)' PROVE Unraced(p, From(k, p), To(k, p))' = {}
    <3>1. p # o /\ p \notin raced /\ offers'[p] = offers[p]
      BY <1>0, <2>1, <2>2
    <3>2. GoesActive(k, p) /\ From(k, p)' = From(k, p) /\ To(k, p)' = To(k, p)
      BY <2>1, <2>2, <3>1 DEF GoesActive, From, To
    <3>3. \A from, to : Unraced(p, from, to)' \subseteq Unraced(p, from, to)
      BY <1>0, <1>1, <2>1 DEF Unraced
    <3> QED BY <2>1, <3>1, <3>2, <3>3
  <2> QED BY <2>1, <2>2
<1> QED BY <1>4, <1>5, <1>6 DEF OfferPeriodsOK

(* What raced stays so, and a write beside others races.                    *)
LEMMA OfferPeriodsStep ==
    ASSUME DiscountsOK, BusyOK, OfferPeriodsOK, DiscountsOK', [DiscountsNext]_<<discountVars, serviceVars>>
    PROVE  OfferPeriodsOK'
<1>1. ASSUME NEW h \in Handlers, NEW from \in Days, NEW to \in Days, NEW active \in BOOLEAN,
             OfferChecks(h, from, to, active)
      PROVE  OfferPeriodsOK'
  <2>1. \A k \in Handlers : call'[k] = IF k = h THEN [op |-> "createOffer", from |-> from, to |-> to, active |-> active]
                                       ELSE call[k]
    BY <1>1 DEF OfferChecks, Takes, DiscountsOK
  <2>2. UNCHANGED <<offers, raced>>
    BY <1>1 DEF OfferChecks, discountVars
  <2>3. active => \A q \in DOMAIN offers : Standing(q) => ~Meet(q, from, to)
    BY <1>1 DEF OfferChecks, Clear
  <2> QED BY <2>1, <2>2, <2>3 DEF OfferPeriodsOK, Standing, Meet, Unraced, GoesActive, From, To
<1>2. ASSUME NEW h \in Handlers, NEW from \in Days, NEW to \in Days, NEW active \in BOOLEAN,
             NEW o \in DOMAIN offers, NEW given, OfferUpdateChecks(h, o, given, from, to, active)
      PROVE  OfferPeriodsOK'
  <2>1. \A k \in Handlers : call'[k] = IF k = h THEN [op |-> "updateOffer", id |-> o, given |-> given, from |-> from,
                                                      to |-> to, active |-> active]
                                       ELSE call[k]
    BY <1>2 DEF OfferUpdateChecks, Takes, DiscountsOK
  <2>2. UNCHANGED <<offers, raced>>
    BY <1>2 DEF OfferUpdateChecks, discountVars
  <2>3. active => \A q \in DOMAIN offers \ {o} : Standing(q) => ~Meet(q, from, to)
    BY <1>2 DEF OfferUpdateChecks, Clear
  <2>4. From(h, o)' = from /\ To(h, o)' = to /\ GoesActive(h, o)' = active
    BY <1>2, <2>1, <2>2 DEF OfferUpdateChecks, From, To, GoesActive
  <2>5. \A q, a, b : Unraced(q, a, b)' = Unraced(q, a, b)
    BY <2>2 DEF Unraced, Standing, Meet
  <2>6. active => Unraced(o, from, to) = {}
    BY <2>3 DEF Unraced
  <2>7. \A k \in Handlers : \A q : k # h => From(k, q)' = From(k, q) /\ To(k, q)' = To(k, q) /\ GoesActive(k, q)' = GoesActive(k, q)
    BY <2>1, <2>2 DEF From, To, GoesActive
  <2> QED BY <2>1, <2>2, <2>4, <2>5, <2>6, <2>7 DEF OfferPeriodsOK, Standing, Meet
<1>3. ASSUME NEW h \in Handlers, OfferInserts(h) PROVE OfferPeriodsOK'
  <2>1. PICK o \in OfferIds :
          /\ DOMAIN offers = {q \in OfferIds : q < o}
          /\ offers' = [q \in DOMAIN offers \cup {o} |->
                          IF q = o THEN [from |-> call[h].from, to |-> call[h].to, active |-> call[h].active,
                                         deleted |-> FALSE, uses |-> 0, taken |-> 0]
                          ELSE offers[q]]
          /\ Races(h, o)
    BY <1>3 DEF OfferInserts
  <2>2. (\A k \in Handlers : call'[k] = IF k = h THEN Idle ELSE call[k]) /\ call[h].op = "createOffer"
    BY <1>3 DEF OfferInserts, Ends, DiscountsOK
  <2>3. Standing(o)' => Unraced(o, offers'[o].from, offers'[o].to) = {}
    BY <2>1, <2>2 DEF OfferPeriodsOK, Standing, Unraced
  <2> QED BY <2>1, <2>2, <2>3, OfferWritten
<1>4. ASSUME NEW h \in Handlers, OfferUpdates(h) PROVE OfferPeriodsOK'
  <2>0. PICK o : o = call[h].id
    OBVIOUS
  <2>1. /\ \A k \in Handlers : call'[k] = IF k = h THEN Idle ELSE call[k]
        /\ call[h].op = "updateOffer" /\ o \in DOMAIN offers
        /\ o \notin raced /\ GoesActive(h, o) => Unraced(o, From(h, o), To(h, o)) = {}
    BY <1>4, <2>0 DEF OfferUpdates, Ends, DiscountsOK, OfferPeriodsOK
  <2>2. /\ DOMAIN offers' = DOMAIN offers \cup {o} /\ \A q \in DOMAIN offers \ {o} : offers'[q] = offers[q]
        /\ offers'[o].from = From(h, o) /\ offers'[o].to = To(h, o) /\ offers'[o].active = GoesActive(h, o)
    <3>1. offers[o] \in OfferRecord
      BY <2>1 DEF DiscountsOK, DiscountsTypeOK
    <3>2. offers' = [offers EXCEPT ![o].from = From(h, o), ![o].to = To(h, o), ![o].active = GoesActive(h, o)]
      BY <1>4, <2>0, <3>1 DEF OfferUpdates, From, To, GoesActive, OfferRecord
    <3> QED BY <2>1, <3>1, <3>2 DEF OfferRecord
  <2>3. o \notin raced /\ Standing(o)' => Unraced(o, offers'[o].from, offers'[o].to) = {}
    BY <2>1, <2>2 DEF Standing
  <2>4. Races(h, o)
    BY <1>4, <2>0 DEF OfferUpdates
  <2> QED BY <2>1, <2>2, <2>3, <2>4, OfferWritten
<1>5. ASSUME NEW h \in Handlers, CheckoutCounts(h)
      PROVE  PeriodsOnlyLeave /\ NoneNew("createOffer") /\ NoneNew("updateOffer")
  <2>1. PeriodsOnlyLeave
    BY <1>5 DEF CheckoutCounts, PeriodsOnlyLeave, DiscountsOK, DiscountsTypeOK, OfferRecord
  <2> QED BY <1>5, <2>1, NoneNewByOthers DEF CheckoutCounts
<1>6. OffersOnlyLeave => PeriodsOnlyLeave
  BY DEF OffersOnlyLeave, PeriodsOnlyLeave
<1> QED BY <1>1, <1>2, <1>3, <1>4, <1>5, <1>6, PeriodsLeft, KindsOfSteps, KindsOfWrites

(* A checkout is let in while a use is left; whoever is in has one counted  *)
(* at most.                                                                 *)
LEMMA UsesStep ==
    ASSUME DiscountsOK, BusyOK, UsesOK, DiscountsOK', BusyOK', Side' = Side,
           [DiscountsNext]_<<discountVars, serviceVars>>
    PROVE  UsesOK'
<1>0. /\ Side \in Nat /\ MaxUses \in Nat
      /\ \A o : IsFiniteSet(UsersOf(o)) /\ Cardinality(UsersOf(o)) \in Nat
      /\ \A o : IsFiniteSet(UsersOf(o)') /\ Cardinality(UsersOf(o)') \in Nat
  BY FewHandlers, SideIsNat, DiscountsAssumption DEF UsersOf
<1>1. ASSUME NEW o \in DOMAIN offers, UsersOf(o)' \subseteq UsersOf(o), offers[o].uses \in Nat
      PROVE  offers[o].uses + Cardinality(UsersOf(o)') <= MaxUses + Side - 1
  <2>1. offers[o].uses + Cardinality(UsersOf(o)) <= MaxUses + Side - 1
    BY DEF UsesOK
  <2>2. Cardinality(UsersOf(o)') <= Cardinality(UsersOf(o))
    BY <1>0, <1>1, FS_Subset
  <2> QED BY <1>0, <1>1, <2>1, <2>2
<1>2. ASSUME NoneNew("useOffer") PROVE \A o : UsersOf(o)' \subseteq UsersOf(o)
  BY <1>2 DEF NoneNew, UsersOf
<1>3. (\A o \in DOMAIN offers : offers[o].uses \in Nat /\ offers[o].taken \in Nat) /\ failures \in Nat
  BY DEF DiscountsOK, DiscountsTypeOK, OfferRecord
<1>4. ASSUME NEW h \in Handlers, NEW o \in DOMAIN offers, CheckoutResolves(h, o)
      PROVE  UsesOK'
  <2>1. \A k \in Handlers : call'[k] = IF k = h THEN [op |-> "useOffer", id |-> o] ELSE call[k]
    BY <1>4 DEF CheckoutResolves, Takes, DiscountsOK
  <2>2. UNCHANGED <<offers, failures>> /\ offers[o].uses < MaxUses
    BY <1>4 DEF CheckoutResolves, discountVars, BestOffer
  <2>3. ASSUME NEW p \in DOMAIN offers PROVE offers[p].uses + Cardinality(UsersOf(p)') <= MaxUses + Side - 1
    <3>1. CASE p = o
      <4>1. UsersOf(p)' \subseteq Busy'
        BY DEF UsersOf, Busy, Idle
      <4>2. Cardinality(UsersOf(p)') <= Side
        <5>1. Cardinality(UsersOf(p)') <= Cardinality(Busy') /\ Cardinality(Busy') \in Nat
          BY <4>1, FewHandlers DEF Busy
        <5> QED BY <1>0, <5>1 DEF BusyOK
      <4> QED BY <1>0, <1>3, <2>2, <3>1, <4>2
    <3>2. CASE p # o
      <4>1. UsersOf(p)' \subseteq UsersOf(p)
        BY <2>1, <3>2 DEF UsersOf
      <4> QED BY <1>1, <1>3, <4>1
    <3> QED BY <3>1, <3>2
  <2> QED BY <2>1, <2>2, <2>3 DEF UsesOK
<1>5. ASSUME NEW h \in Handlers, OfferInserts(h)
      PROVE  UsesOK'
  <2>1. PICK o \in OfferIds :
          /\ DOMAIN offers = {p \in OfferIds : p < o}
          /\ DOMAIN offers' = DOMAIN offers \cup {o} /\ \A p \in DOMAIN offers : offers'[p] = offers[p]
          /\ offers'[o].uses = 0 /\ offers'[o].taken = 0
    <3>1. PICK o \in OfferIds :
            /\ DOMAIN offers = {p \in OfferIds : p < o}
            /\ offers' = [p \in DOMAIN offers \cup {o} |->
                            IF p = o THEN [from |-> call[h].from, to |-> call[h].to, active |-> call[h].active,
                                           deleted |-> FALSE, uses |-> 0, taken |-> 0]
                            ELSE offers[p]]
      BY <1>5 DEF OfferInserts
    <3>2. o \notin DOMAIN offers
      BY <3>1, DiscountsAssumption
    <3> QED BY <3>1, <3>2
  <2>2. (\A k \in Handlers : call'[k] = IF k = h THEN Idle ELSE call[k]) /\ h \in Busy
    BY <1>5 DEF OfferInserts, Ends, DiscountsOK, Busy, Idle
  <2>3. NoneNew("useOffer")
    BY <2>2 DEF NoneNew, Idle
  <2>4. o \notin DOMAIN offers
    BY <2>1, DiscountsAssumption
  <2>5. 1 <= Side
    <3>1. Cardinality(Busy) # 0 /\ Cardinality(Busy) \in Nat
      BY <2>2, FewHandlers, FS_EmptySet DEF Busy
    <3> QED BY <1>0, <3>1 DEF BusyOK
  <2>6. Cardinality(UsersOf(o)') = 0
    <3>1. UsersOf(o)' = {}
      BY <1>2, <2>3, <2>4 DEF UsersOf, UsesOK
    <3> QED BY <3>1, FS_EmptySet
  <2>7. ASSUME NEW p \in DOMAIN offers' PROVE offers'[p].uses + Cardinality(UsersOf(p)') <= MaxUses + Side - 1
    <3>1. CASE p = o
      BY <1>0, <2>1, <2>5, <2>6, <3>1
    <3>2. CASE p # o
      BY <1>1, <1>2, <1>3, <2>1, <2>3, <3>2
    <3> QED BY <3>1, <3>2
  <2>8. \A k \in Handlers : call'[k].op = "useOffer" => call'[k].id \in DOMAIN offers'
    BY <2>1, <2>3 DEF NoneNew, UsesOK
  <2>9. failures' = failures /\ \A p \in DOMAIN offers' : offers'[p].taken <= offers'[p].uses + failures
    BY <1>3, <1>5, <2>1 DEF OfferInserts, UsesOK
  <2> QED BY <2>7, <2>8, <2>9 DEF UsesOK
<1>6. ASSUME NEW h \in Handlers, CheckoutCounts(h)
      PROVE  UsesOK'
  <2>0. PICK o : o = call[h].id
    OBVIOUS
  <2>1. /\ \A k \in Handlers : call'[k] = IF k = h THEN Idle ELSE call[k]
        /\ call[h].op = "useOffer" /\ o \in DOMAIN offers
    BY <1>6, <2>0 DEF CheckoutCounts, Ends, DiscountsOK, UsesOK
  <2>2. /\ DOMAIN offers' = DOMAIN offers /\ \A p \in DOMAIN offers \ {o} : offers'[p] = offers[p]
        /\ offers'[o].taken = offers[o].taken + 1
        /\ \/ offers'[o].uses = offers[o].uses + 1 /\ failures' = failures
           \/ offers'[o].uses = offers[o].uses /\ failures' = failures + 1
    BY <1>6, <2>0, <2>1 DEF CheckoutCounts, Fails, DiscountsOK, DiscountsTypeOK, OfferRecord
  <2>3. NoneNew("useOffer")
    BY <2>1 DEF NoneNew, Idle
  <2>4. Cardinality(UsersOf(o)') = Cardinality(UsersOf(o)) - 1
    <3>1. UsersOf(o)' = UsersOf(o) \ {h} /\ h \in UsersOf(o)
      BY <2>0, <2>1 DEF UsersOf, Idle
    <3> QED BY <1>0, <3>1, FS_RemoveElement
  <2>5. ASSUME NEW p \in DOMAIN offers PROVE offers'[p].uses + Cardinality(UsersOf(p)') <= MaxUses + Side - 1
    <3>1. CASE p = o
      <4>1. offers[o].uses + Cardinality(UsersOf(o)) <= MaxUses + Side - 1
        BY <2>1 DEF UsesOK
      <4> QED BY <1>0, <1>3, <2>2, <2>4, <3>1, <4>1
    <3>2. CASE p # o
      BY <1>1, <1>2, <1>3, <2>2, <2>3, <3>2
    <3> QED BY <3>1, <3>2
  <2>6. \A p \in DOMAIN offers : offers'[p].taken <= offers'[p].uses + failures'
    BY <1>3, <2>1, <2>2 DEF UsesOK
  <2> QED BY <2>2, <2>3, <2>5, <2>6 DEF UsesOK, NoneNew
<1>7. ASSUME NEW h \in Handlers, OfferUpdates(h)
      PROVE  UsesOK'
  <2>1. failures' = failures /\ DOMAIN offers' = DOMAIN offers /\ \A p \in DOMAIN offers : offers'[p].uses = offers[p].uses /\ offers'[p].taken = offers[p].taken
    BY <1>7 DEF OfferUpdates, DiscountsOK, DiscountsTypeOK, OfferRecord
  <2>2. NoneNew("useOffer")
    BY <1>7 DEF OfferUpdates, Ends, NoneNew, DiscountsOK, Idle
  <2> QED BY <1>1, <1>2, <1>3, <2>1, <2>2 DEF UsesOK, NoneNew
<1>8. CASE OffersOnlyLeave /\ NoneNew("useOffer")
  BY <1>1, <1>2, <1>3, <1>8 DEF UsesOK, NoneNew, OffersOnlyLeave
<1> QED BY <1>4, <1>5, <1>6, <1>7, <1>8, KindsOfSteps, KindsOfWrites

-----------------------------------------------------------------------------
LEMMA PeriodsInitHolds == DiscountsInit /\ ServiceInit => PeriodsInv
<1> SUFFICES ASSUME DiscountsInit, ServiceInit PROVE PeriodsInv
  OBVIOUS
<1>1. DOMAIN discounts = {} /\ DOMAIN offers = {} /\ \A h \in Handlers : call[h] = Idle
  BY DEF DiscountsInit, ServiceInit
<1>2. \A day : DiscountsOn(day) = {} /\ ClaimsOn(day) = {}
  BY <1>1 DEF DiscountsOn, ClaimsOn, Idle
<1>3. DiscountPeriodsOK /\ OfferPeriodsOK
  <2>1. \A h \in Handlers : call[h].op = "idle"
    BY <1>1 DEF Idle
  <2>2. OfferPeriodsOK
    BY <1>1, <2>1 DEF OfferPeriodsOK
  <2> QED BY <1>2, <2>2, FS_EmptySet, SideIsNat DEF DiscountPeriodsOK
<1>4. UsesOK /\ RowsFinite
  BY <1>1, FS_EmptySet DEF UsesOK, RowsFinite, Idle
<1> QED BY <1>3, <1>4, DiscountsInitHolds, NobodyBusy DEF PeriodsInv

LEMMA PeriodsStep ==
    ASSUME PeriodsInv, [DiscountsNext]_<<discountVars, serviceVars>>
    PROVE  PeriodsInv'
<1>1. DiscountsOK' /\ PriceInv'
  BY PriceStep DEF PeriodsInv
<1>2. BusyOK' /\ Side' = Side
  BY KindsOfSteps DEF PeriodsInv
<1>3. RowsFinite'
  BY FiniteStep DEF PeriodsInv
<1> QED BY <1>1, <1>2, <1>3, DiscountPeriodsStep, OfferPeriodsStep, UsesStep DEF PeriodsInv

LEMMA PeriodsInvariant == DiscountsSpec => []PeriodsInv
  BY PeriodsInitHolds, PeriodsStep, PTL DEF DiscountsSpec

LEMMA OverlapsFollow == PeriodsInv => OverlapsComeFromRaces
<1> SUFFICES ASSUME PeriodsInv PROVE OverlapsComeFromRaces
  OBVIOUS
<1>1. ASSUME NEW day \in Days PROVE Cardinality(DiscountsOn(day)) <= Side
  <2>1. IsFiniteSet(DiscountsOn(day)) /\ IsFiniteSet(ClaimsOn(day))
    BY ClaimsAreFew DEF PeriodsInv
  <2>2. Cardinality(DiscountsOn(day)) + Cardinality(ClaimsOn(day)) <= Side
    BY DEF PeriodsInv, DiscountPeriodsOK
  <2> QED BY <2>1, <2>2, FS_CardinalityType, SideIsNat
<1>2. ASSUME NEW o \in DOMAIN offers, NEW p \in DOMAIN offers, o # p, Standing(o), Standing(p),
             Meet(o, offers[p].from, offers[p].to)
      PROVE  o \in raced \/ p \in raced
  <2>1. p \notin raced => Unraced(p, offers[p].from, offers[p].to) = {}
    BY <1>2 DEF PeriodsInv, OfferPeriodsOK
  <2> QED BY <1>2, <2>1 DEF Unraced
<1> QED BY <1>1, <1>2 DEF OverlapsComeFromRaces, DiscountsOn

LEMMA UsesFollow == PeriodsInv => UsesStayNearLimit
<1> SUFFICES ASSUME PeriodsInv, NEW o \in DOMAIN offers PROVE offers[o].taken <= MaxUses + Side - 1 + failures
  BY DEF UsesStayNearLimit
<1>1. /\ offers[o].uses + Cardinality(UsersOf(o)) <= MaxUses + Side - 1
      /\ offers[o].taken <= offers[o].uses + failures
  BY DEF PeriodsInv, UsesOK
<1>2. Cardinality(UsersOf(o)) \in Nat /\ offers[o].uses \in Nat /\ offers[o].taken \in Nat /\ failures \in Nat
  BY FewHandlers DEF UsersOf, PeriodsInv, DiscountsOK, DiscountsTypeOK, OfferRecord
<1> QED BY <1>1, <1>2, SideIsNat, DiscountsAssumption

(* On any day no more discounts of a professional are unrestored than       *)
(* requests ran side by side, and of two active offers of a plan that       *)
(* overlap one was written while another creation or update was under way   *)
(* (discounts.service create, discount-plans.service validateActiveOverlap).*)
THEOREM Overlaps == DiscountsSpec => []OverlapsComeFromRaces
  BY OverlapsFollow, PeriodsInvariant, PTL

(* Subscriptions are created at an offer's price beyond its limit at most   *)
(* once for every checkout that was open when the last use was counted, and *)
(* once for every count that failed (subscriptions.service                  *)
(* _resolveDiscount).                                                       *)
THEOREM OfferUses == DiscountsSpec => []UsesStayNearLimit
  BY UsesFollow, PeriodsInvariant, PTL
=============================================================================
