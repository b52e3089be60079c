------------------------------ MODULE Taxonomy ------------------------------
(* What goods_srv files goods under: categories, brands, and the links that   *)
(* say which brands a category has (goods_srv/handler/category.go, brand.go   *)
(* and category_brand.go).  The handlers check rows of one table, answer if   *)
(* they are missing, and write another table later, without a transaction and *)
(* without a foreign key that would hold the checked rows.                    *)
(*                                                                            *)
(* The fields of a category are not here: Editing has them.                   *)
EXTENDS Gorm

CONSTANTS
    Sessions,       \* calls of goods_srv that may run at a time
    CategoryIds,    \* ids of table category (a bound, as are the next two)
    BrandIds,       \* ids of table brands
    LinkIds         \* ids of table goodscategorybrand

ASSUME TaxonomyAssumption ==
    CategoryIds \cup BrandIds \cup LinkIds \subseteq Int \ {0}

VARIABLES
    categories,     \* table category, the state of each row
    brands,         \* table brands, the state of each row
    links,          \* table goodscategorybrand
    session,        \* what each call has read or written and not yet finished
    overtaken       \* calls that go on after another wrote a category or a brand,
                    \* or after a read that failed

taxonomyVars == <<categories, brands, links, session, overtaken>>

Idle == [pc |-> "idle"]

Present == [state |-> "live"]

Link == [state : {"live", "deleted"}, category : CategoryIds, brand : BrandIds]

(* The database before the first call: some categories and brands.            *)
TaxonomyInit ==
    /\ categories \in [CategoryIds -> {Free, Present}]
    /\ brands \in [BrandIds -> {Free, Present}]
    /\ links = [l \in LinkIds |-> Free]
    /\ session = [s \in Sessions |-> Idle]
    /\ overtaken = {}

(* Session s is as far as pc, with the row it holds for id.                   *)
Go(s, pc, id, row) ==
    session' = [session EXCEPT ![s] = [pc |-> pc, id |-> id, row |-> row]]

(* Session s has answered.                                                    *)
Done(s) == session' = [session EXCEPT ![s] = Idle]

(* Session s wrote a category or a brand: every other call is overtaken.      *)
Overtake(s) == overtaken' = {r \in Sessions \ {s} : session[r] # Idle}

(* Session s read afresh, or answered without such a write.                   *)
KeepUp(s) == overtaken' = overtaken \ {s}

-----------------------------------------------------------------------------
(* Categories.                                                                *)

(* CreateCategory checks nothing, the parent neither.  It names no url, which *)
(* the table wants: a database in strict mode refuses, and nobody is told.    *)
CreateCategory(s) ==
    /\ session[s] = Idle
    /\ \E k \in CategoryIds :
          /\ IsNextId(k, categories)
          /\ categories' = Save(categories, k, Present)
    /\ Overtake(s)
    /\ UNCHANGED <<brands, links, session>>

(* DeleteCategory leaves the links, the goods and the subcategories.          *)
DeleteCategory(s, k) ==
    /\ session[s] = Idle
    /\ k \in Live(categories)
    /\ categories' = SoftDelete(categories, {k})
    /\ Overtake(s)
    /\ UNCHANGED <<brands, links, session>>

-----------------------------------------------------------------------------
(* Brands.                                                                    *)

(* CreateBrand asks for the first brand there is, under no condition, and     *)
(* refuses when there is one.                                                 *)
CreateBrand(s) ==
    /\ session[s] = Idle
    /\ Live(brands) = {}
    /\ Go(s, "branding", 0, Present)
    /\ KeepUp(s)
    /\ UNCHANGED <<categories, brands, links>>

(* CreateBrand's read fails: RowsAffected is 0, as if there were no brand.    *)
CreateBrandReadFails(s) ==
    /\ session[s] = Idle
    /\ Live(brands) # {}
    /\ Go(s, "branding", 0, Present)
    /\ overtaken' = overtaken \cup {s}
    /\ UNCHANGED <<categories, brands, links>>

CreateBrandSaves(s) ==
    /\ session[s].pc = "branding"
    /\ \E b \in BrandIds :
          /\ IsNextId(b, brands)
          /\ brands' = Save(brands, b, Present)
    /\ Done(s)
    /\ Overtake(s)
    /\ UNCHANGED <<categories, links>>

DeleteBrand(s, b) ==
    /\ session[s] = Idle
    /\ b \in Live(brands)
    /\ brands' = SoftDelete(brands, {b})
    /\ Overtake(s)
    /\ UNCHANGED <<categories, links, session>>

(* UpdateBrand deletes the row, and GORM notes the time in the struct too.    *)
UpdateBrand(s, b) ==
    /\ session[s] = Idle
    /\ b \in Live(brands)
    /\ brands' = SoftDelete(brands, {b})
    /\ Go(s, "rebranding", 0, Deleted)
    /\ Overtake(s)
    /\ UNCHANGED <<categories, links>>

(* Mutant: the name and the logo are put in a struct of their own.            *)
UpdateBrandSavesFreshStruct(s) ==
    /\ session[s].pc = "rebranding"
    /\ \E b \in BrandIds :
          /\ IsNextId(b, brands)
          /\ brands' = Save(brands, b, Present)
    /\ Done(s)
    /\ Overtake(s)
    /\ UNCHANGED <<categories, links>>

(* The struct has no id, so Save inserts it: a new row that is deleted.       *)
UpdateBrandSaves(s) ==
    /\ session[s].pc = "rebranding"
    /\ \E b \in BrandIds :
          /\ IsNextId(b, brands)
          /\ brands' = Save(brands, b, session[s].row)
    /\ Done(s)
    /\ Overtake(s)
    /\ UNCHANGED <<categories, links>>

-----------------------------------------------------------------------------
(* Links of a category and a brand.                                           *)

LinkRow(k, b) == [state |-> "live", category |-> k, brand |-> b]

(* The unique index idx_category_brand has no room for row under id l.  The   *)
(* deleted links keep theirs.                                                 *)
Duplicate(l, row) ==
    \E m \in LinkIds \ {l} :
        links[m] \in Link /\ links[m].category = row.category /\ links[m].brand = row.brand

CreateCategoryBrand(s, k, b) ==
    /\ session[s] = Idle
    /\ k \in Live(categories)
    /\ b \in Live(brands)
    /\ Go(s, "linking", 0, LinkRow(k, b))
    /\ KeepUp(s)
    /\ UNCHANGED <<categories, brands, links>>

(* Mutant: the brand of the request is not looked up.                         *)
UpdateCategoryBrandUnchecked(s, l, k, b) ==
    /\ session[s] = Idle
    /\ l \in Live(links)
    /\ k \in Live(categories)
    /\ Go(s, "linking", l, LinkRow(k, b))
    /\ KeepUp(s)
    /\ UNCHANGED <<categories, brands, links>>

UpdateCategoryBrand(s, l, k, b) ==
    /\ session[s] = Idle
    /\ l \in Live(links)
    /\ k \in Live(categories)
    /\ b \in Live(brands)
    /\ Go(s, "linking", l, LinkRow(k, b))
    /\ KeepUp(s)
    /\ UNCHANGED <<categories, brands, links>>

(* Both end with a Save whose error, a duplicate too, is dropped.             *)
SaveLink(s) ==
    LET id == session[s].id
    IN  /\ session[s].pc = "linking"
        /\ \E l \in LinkIds :
              /\ IF id = 0 THEN IsNextId(l, links) ELSE l = id
              /\ links' = IF Duplicate(l, session[s].row) THEN links
                          ELSE Save(links, l, session[s].row)
        /\ Done(s)
        /\ KeepUp(s)
        /\ UNCHANGED <<categories, brands>>

(* The database refuses the write of a brand or a link.                       *)
SaveFails(s) ==
    /\ session[s].pc \in {"branding", "rebranding", "linking"}
    /\ Done(s)
    /\ KeepUp(s)
    /\ UNCHANGED <<categories, brands, links>>

DeleteCategoryBrand(s, l) ==
    /\ session[s] = Idle
    /\ l \in Live(links)
    /\ links' = [links EXCEPT ![l].state = "deleted"]
    /\ UNCHANGED <<categories, brands, session, overtaken>>

TaxonomyNext ==
    \E s \in Sessions :
        \/ CreateCategory(s)
        \/ \E k \in CategoryIds : DeleteCategory(s, k)
        \/ CreateBrand(s)
        \/ CreateBrandReadFails(s)
        \/ CreateBrandSaves(s)
        \/ \E b \in BrandIds : DeleteBrand(s, b)
        \/ \E b \in BrandIds : UpdateBrand(s, b)
        \/ UpdateBrandSaves(s)
        \/ \E k \in CategoryIds, b \in BrandIds : CreateCategoryBrand(s, k, b)
        \/ \E l \in LinkIds, k \in CategoryIds, b \in BrandIds : UpdateCategoryBrand(s, l, k, b)
        \/ SaveLink(s)
        \/ SaveFails(s)
        \/ \E l \in LinkIds : DeleteCategoryBrand(s, l)

-----------------------------------------------------------------------------
(* Properties.                                                                *)

(* What a call of a handler of this module may hold.                          *)
Pending ==
    {Idle} \cup [pc : {"branding"}, id : {0}, row : {Present}]
           \cup [pc : {"rebranding"}, id : {0}, row : {Deleted}]
           \cup [pc : {"linking"}, id : LinkIds \cup {0},
                 row : [state : {"live"}, category : CategoryIds, brand : BrandIds]]

(* What a call checked still holds when it writes, unless its read failed or  *)
(* another call wrote a category or a brand in between: a link or a goods     *)
(* gets a category and a brand that are there, and a brand is created when    *)
(* there is none.  Nothing but the checks ensures it: no table has a foreign  *)
(* key, and no check locks.                                                   *)
ChecksHold ==
    [][\A s \in Sessions \ overtaken :
          session[s] # Idle /\ session'[s] = Idle =>
             /\ session[s].pc = "branding" => Live(brands) = {}
             /\ session[s].pc \in {"linking", "inserted", "updated"} =>
                   /\ session[s].row.category \in Live(categories)
                   /\ session[s].row.brand \in Live(brands)]_taxonomyVars

(* A brand is there only if it was at the start or a CreateBrand added it.    *)
(* UpdateBrand takes a brand away and gives none back: the goods and links of *)
(* the brand it renames are left without one.                                 *)
OnlyCreateBrandAddsBrands ==
    [][Live(brands)' \subseteq Live(brands)
          \/ \E s \in Sessions : session[s].pc = "branding" /\ session'[s] = Idle]_taxonomyVars
=============================================================================
