------------------------------ MODULE Taxonomy ------------------------------
(* The tree of professions (profession-categories.service): rubro, subrubro *)
(* and profession are levels 1, 2 and 3 of one table.                       *)
EXTENDS Service

CONSTANTS CategoryIds, Slugs, NoParent,
    Practised       \* categories with active professionals or documents

ASSUME TaxonomyAssumption == CategoryIds \subseteq Nat /\ NoParent \notin CategoryIds

VARIABLE categories     \* ProfessionCategory

CategoryRecord == [level : 1 .. 3, parent : CategoryIds \cup {NoParent}, slug : Slugs, active : BOOLEAN]

TaxonomyTypeOK == DOMAIN categories \subseteq CategoryIds
                  /\ \A c \in DOMAIN categories : categories[c] \in CategoryRecord

TaxonomyInit == categories = [c \in {} |-> 0]

Active(c) == categories[c].active
ChildrenOf(c) == {d \in DOMAIN categories : categories[d].parent = c}

(* findAll: the public tree, three levels of active categories *)
PublicTree ==
    LET rubros == {c \in DOMAIN categories : categories[c].level = 1 /\ Active(c)}
        below(S) == {d \in UNION {ChildrenOf(c) : c \in S} : Active(d)}
    IN rubros \cup below(rubros) \cup below(below(rubros))

(* findProfessionsByRubro: what a professional may choose from *)
FindProfessionsByRubro(r) ==
    IF categories[r].level # 1 \/ ~Active(r) THEN {}
    ELSE {p \in DOMAIN categories :
            /\ categories[p].level = 3 /\ Active(p)
            /\ \E s \in ChildrenOf(r) : Active(s) /\ categories[s].level = 2 /\ p \in ChildrenOf(s)}

(* resolveSlug: the other categories, active or not *)
ResolveSlug(slug, except) == \A c \in DOMAIN categories \ except : categories[c].slug # slug

(* The same without a look at the level *)
EnsureCategoryActive(c, level) == level \in 1 .. 3 /\ c \in DOMAIN categories /\ Active(c)

(* ensureCategoryExists *)
EnsureCategoryExists(c, level) == c \in DOMAIN categories /\ categories[c].level = level /\ Active(c)

(* findRubros: for the form of registration *)
FindRubros == {c \in DOMAIN categories : categories[c].level = 1 /\ Active(c)}

(* The lists and pages of the admins, active or not; a list asked for the   *)
(* children of one category is refused when that one is inactive.           *)
AdminFindRubros == {c \in DOMAIN categories : categories[c].level = 1}
AdminFindRubro(c) == c \in AdminFindRubros
AdminFindSubrubros(rubro) ==
    IF rubro = NoParent THEN {c \in DOMAIN categories : categories[c].level = 2}
    ELSE {c \in ChildrenOf(rubro) : categories[c].level = 2 /\ EnsureCategoryExists(rubro, 1)}
AdminFindSubrubro(c) == c \in AdminFindSubrubros(NoParent)
AdminFindProfesiones(subrubro) ==
    IF subrubro = NoParent THEN {c \in DOMAIN categories : categories[c].level = 3}
    ELSE {c \in ChildrenOf(subrubro) : categories[c].level = 3 /\ EnsureCategoryExists(subrubro, 2)}
AdminFindProfesion(c) == c \in AdminFindProfesiones(NoParent)

-----------------------------------------------------------------------------
(* Creation: the slug is looked up, and the row inserted later *)
Creating(h, level, parent, slug) ==
    /\ Takes(h, [op |-> "createCategory", level |-> level, parent |-> parent, slug |-> slug])
    /\ ResolveSlug(slug, {}) /\ UNCHANGED categories

AdminCreateRubro(h, slug) == Creating(h, 1, NoParent, slug)
AdminCreateSubrubro(h, rubro, slug) == EnsureCategoryExists(rubro, 1) /\ Creating(h, 2, rubro, slug)
AdminCreateProfesion(h, subrubro, slug) == EnsureCategoryExists(subrubro, 2) /\ Creating(h, 3, subrubro, slug)

CategoryInserts(h) ==
    /\ Ends(h, {"createCategory"})
    /\ IF ResolveSlug(call[h].slug, {})         \* slug is unique
       THEN \E c \in Fresh(CategoryIds, DOMAIN categories), active \in BOOLEAN :
              categories' = [d \in DOMAIN categories \cup {c} |->
                               IF d = c THEN [level |-> call[h].level, parent |-> call[h].parent,
                                              slug |-> call[h].slug, active |-> active]
                               ELSE categories[d]]
       ELSE UNCHANGED categories

CategoryFields == {"slug", "parent", "active"}

(* Updates: the slug, the parent and isActive that are given; the children  *)
(* are not looked at                                                        *)
Changing(h, c, given, slug, parent, active) ==
    /\ "parent" \notin given => parent = categories[c].parent
    /\ "active" \notin given => active = categories[c].active
    /\ IF "slug" \in given THEN ResolveSlug(slug, {c}) ELSE slug = categories[c].slug
    /\ Takes(h, [op |-> "updateCategory", id |-> c, given |-> given, slug |-> slug, parent |-> parent,
                 active |-> active])
    /\ UNCHANGED categories

AdminUpdateRubro(h, c, given, slug, active) ==
    AdminFindRubro(c) /\ "parent" \notin given /\ Changing(h, c, given, slug, NoParent, active)

AdminUpdateSubrubro(h, c, given, slug, rubro, active) ==
    /\ AdminFindSubrubro(c) /\ Changing(h, c, given, slug, rubro, active)
    /\ "parent" \in given => EnsureCategoryExists(rubro, 1)

AdminUpdateProfesion(h, c, given, slug, subrubro, active) ==
    /\ AdminFindProfesion(c) /\ Changing(h, c, given, slug, subrubro, active)
    /\ "parent" \in given => EnsureCategoryExists(subrubro, 2)

(* The row as it is now, with what is given; slug is unique *)
CategoryWrites(h) ==
    /\ Ends(h, {"updateCategory"})
    /\ LET r == call[h]
           now(field, value, was) == IF field \in r.given THEN value ELSE was
       IN categories' = IF "slug" \in r.given => ResolveSlug(r.slug, {r.id})
                        THEN [categories EXCEPT ![r.id].slug = now("slug", r.slug, @),
                                                ![r.id].parent = now("parent", r.parent, @),
                                                ![r.id].active = now("active", r.active, @)]
                        ELSE categories

(* Deactivation: not with active children, nor, for a profession, with      *)
(* active professionals or documents                                        *)
Deactivating(h, c) == Takes(h, [op |-> "deactivateCategory", id |-> c]) /\ UNCHANGED categories

(* The children counted at the wrong level *)
DeactivateRubroOverProfessions(h, c) ==
    AdminFindRubro(c) /\ (\A d \in ChildrenOf(c) : ~(Active(d) /\ categories[d].level = 3)) /\ Deactivating(h, c)

AdminDeactivateRubro(h, c) ==
    AdminFindRubro(c) /\ (\A d \in ChildrenOf(c) : ~Active(d)) /\ Deactivating(h, c)

AdminDeactivateSubrubro(h, c) ==
    AdminFindSubrubro(c) /\ (\A d \in ChildrenOf(c) : ~Active(d)) /\ Deactivating(h, c)

AdminDeactivateProfesion(h, c) == AdminFindProfesion(c) /\ c \notin Practised /\ Deactivating(h, c)

DeactivateWrites(h) ==
    /\ Ends(h, {"deactivateCategory"})
    /\ categories' = [categories EXCEPT ![call[h].id].active = FALSE]

TaxonomyNext ==
    \E h \in Handlers :
        \/ CategoryInserts(h) \/ CategoryWrites(h) \/ DeactivateWrites(h)
        \/ \E slug \in Slugs :
             \/ AdminCreateRubro(h, slug)
             \/ \E c \in DOMAIN categories : AdminCreateSubrubro(h, c, slug) \/ AdminCreateProfesion(h, c, slug)
        \/ \E c \in DOMAIN categories :
             \/ AdminDeactivateRubro(h, c) \/ AdminDeactivateSubrubro(h, c) \/ AdminDeactivateProfesion(h, c)
             \/ \E given \in (SUBSET CategoryFields) \ {{}}, slug \in Slugs, active \in BOOLEAN :
                  \/ AdminUpdateRubro(h, c, given, slug, active)
                  \/ \E parent \in DOMAIN categories :
                       \/ AdminUpdateSubrubro(h, c, given, slug, parent, active)
                       \/ AdminUpdateProfesion(h, c, given, slug, parent, active)

TaxonomySpec == TaxonomyInit /\ ServiceInit /\ [][TaxonomyNext]_<<categories, serviceVars>>

-----------------------------------------------------------------------------
(* Whatever admins create, move, switch off and on at the same time, the    *)
(* table is a tree of three levels with one category per slug; every        *)
(* profession a rubro offers is in the public tree, and what the admins'    *)
(* lists by parent leave out hangs from an inactive category; without       *)
(* updates by hand and without overlapping requests no active category      *)
(* hangs from an inactive one (profession-categories.service).              *)
TreeIsSound ==
    /\ \A c \in DOMAIN categories :
         IF categories[c].level = 1 THEN categories[c].parent = NoParent
         ELSE /\ categories[c].parent \in DOMAIN categories
              /\ categories[categories[c].parent].level = categories[c].level - 1
    /\ \A c, d \in DOMAIN categories : categories[c].slug = categories[d].slug => c = d
    /\ \A r \in DOMAIN categories : FindProfessionsByRubro(r) \subseteq PublicTree
    /\ \A c \in DOMAIN categories :
         \/ c \in FindRubros \/ ~Active(c)
         \/ LET parent == categories[c].parent
            IN c \in AdminFindSubrubros(parent) \cup AdminFindProfesiones(parent) \/ ~Active(parent)
    /\ Offered("updateCategory") \/ Offered("parallel") \/
         \A c \in DOMAIN categories :
            Active(c) /\ categories[c].level > 1 => Active(categories[c].parent)
=============================================================================
