---------------------------- MODULE CatalogProofs ---------------------------
(* Proofs about the catalogue of goods_srv (GoodsIndex on Taxonomy), for      *)
(* every number of calls, categories, brands, goods and names: its types, the *)
(* agreement of table and index, that a search by category shows that         *)
(* category, that what a handler checked holds when it writes, and that only  *)
(* CreateBrand adds a brand.                                                  *)
(*                                                                            *)
(* The inductive invariant adds to the properties what each call knows: the   *)
(* document of the row it wrote and has not committed, the category of the    *)
(* goods it changes, and the category and brand it looked up, as long as no   *)
(* other call wrote one.                                                      *)
EXTENDS GoodsIndex, TLAPS

GoodsPoints == {"creating", "inserted", "changing", "updated"}

Open == [state |-> "open"]

(* The INSERTs that are not committed are of different rows.                  *)
OwnRow ==
    \A s, r \in Sessions :
        session[s].pc = "inserted" /\ session[r].pc = "inserted" /\ session[s].id = session[r].id => s = r

(* Between a hook and the commit the document is that of the call's row.      *)
Hooked ==
    /\ \A s \in Sessions :
          session[s].pc = "inserted" => index[session[s].id] = Document(session[s].row)
    /\ \A s \in Sessions :
          session[s].pc = "updated" /\ session[s].id \notin blurred
             => index[session[s].id] = Document(session[s].row)

CopiedStay == \A i \in DOMAIN copied : i \in Live(goods)

(* Whatever is known of a goods names the category of its row.                *)
SameCategory ==
    /\ \A i \in Live(goods) : index[i] # NoDocument => index[i].category = goods[i].category
    /\ \A i \in DOMAIN copied : copied[i].category = goods[i].category
    /\ \A s \in Sessions : session[s].pc \in {"changing", "updated"}
          => session[s].row.category = goods[session[s].id].category

(* What a call that was not overtaken looked up is still there.               *)
LookedUp(x) ==
    /\ x.pc = "branding" => Live(brands) = {}
    /\ x.pc \in {"linking"} \cup GoodsPoints
          => x.row.category \in Live(categories) /\ x.row.brand \in Live(brands)

StillThere == \A s \in Sessions \ overtaken : LookedUp(session[s])

CatalogInv ==
    /\ CatalogTypeOK
    /\ IndexAgrees
    /\ OwnRow
    /\ Hooked
    /\ CopiedStay
    /\ SameCategory
    /\ StillThere

-----------------------------------------------------------------------------
(* Rows and tables.                                                           *)

LEMMA Documents ==
    ASSUME NEW row \in GoodsRow
    PROVE  /\ Document(row) \in [category : CategoryIds, brand : BrandIds, name : Names]
           /\ Document(row) # NoDocument
           /\ Document(row).category = row.category
BY GoodsAssumption DEF Document, GoodsRow

LEMMA NextIdIsFree ==
    ASSUME NEW table, NEW i, IsNextId(i, table)
    PROVE  i \in DOMAIN table /\ table[i].state = "free"
BY DEF IsNextId, IsFirst

(* A call is idle, or where the type says, and these do not overlap.          *)
LEMMA Sorts ==
    /\ Idle.pc = "idle"
    /\ \A x \in Pending : x.pc \in {"idle", "branding", "rebranding", "linking"}
    /\ \A x \in Pending : x.pc = "idle" <=> x = Idle
    /\ \A x \in Pending : x.pc = "branding" => x.row = Present
    /\ \A x \in Pending : x.pc = "rebranding" => x.row = Deleted
    /\ \A x \in Pending : x.pc = "linking" => x.id \in LinkIds \cup {0} /\ x.row \in Link
    /\ \A x \in PendingGoods : x.pc \in GoodsPoints /\ x.row \in GoodsRow
    /\ \A x \in PendingGoods : x.pc # "creating" => x.id \in GoodsIds
    /\ Idle \in Pending /\ Idle \notin PendingGoods
BY DEF Idle, Pending, PendingGoods, GoodsPoints, Link

LEMMA SessionSorts ==
    ASSUME CatalogTypeOK, NEW s \in Sessions
    PROVE  /\ session[s] \in Pending \cup PendingGoods
           /\ session[s] = Idle <=> session[s].pc = "idle"
           /\ session[s].pc \in GoodsPoints <=> session[s] \in PendingGoods
           /\ session[s].pc \notin GoodsPoints <=> session[s] \in Pending
BY Sorts DEF CatalogTypeOK, GoodsPoints

LEMMA CatalogInvInit == CatalogInit => CatalogInv
<1> SUFFICES ASSUME CatalogInit PROVE CatalogInv
  OBVIOUS
<1>1. /\ categories \in [CategoryIds -> {Free, Present}]
      /\ brands \in [BrandIds -> {Free, Present}]
      /\ links = [l \in LinkIds |-> Free]
      /\ session = [s \in Sessions |-> Idle]
      /\ overtaken = {}
      /\ goods \in [GoodsIds -> GoodsRow \cup {Free}]
      /\ index = [i \in GoodsIds |-> NoDocument]
      /\ copied = <<>>
      /\ blurred = Live(goods)
  BY DEF CatalogInit, TaxonomyInit, GoodsInit
<1>2. DOMAIN copied = {}
  BY <1>1
<1>3. \A s \in Sessions : session[s] = Idle /\ session[s].pc = "idle"
  BY <1>1 DEF Idle
<1>4. Live(goods) \subseteq GoodsIds
  BY <1>1 DEF Live
<1>5. CatalogTypeOK
  BY <1>1, <1>2, <1>3, <1>4, Sorts DEF CatalogTypeOK
<1>6. IndexAgrees
  BY <1>1, <1>4 DEF IndexAgrees
<1>7. OwnRow /\ Hooked /\ StillThere
  BY <1>3 DEF OwnRow, Hooked, StillThere, LookedUp, GoodsPoints
<1>8. CopiedStay /\ SameCategory
  BY <1>1, <1>2, <1>3, <1>4 DEF CopiedStay, SameCategory
<1> QED
  BY <1>5, <1>6, <1>7, <1>8 DEF CatalogInv

-----------------------------------------------------------------------------
(* The calls on categories, brands and links.                                 *)

Tables == {Free, Present, Deleted}

LEMMA StatesDiffer ==
    /\ Free.state = "free" /\ Present.state = "live" /\ Deleted.state = "deleted"
    /\ Open.state = "open"
    /\ \A row \in GoodsRow : row.state = "live"
    /\ \A row \in Link : row.state \in {"live", "deleted"}
BY DEF Free, Present, Deleted, Open, GoodsRow, Link

(* Goods and index do not change, so that what is left are types and lookups. *)
LEMMA TaxonomyMoves ==
    ASSUME CatalogInv, NEW s \in Sessions, NEW x \in Pending,
           session[s] \in Pending,
           session' = [session EXCEPT ![s] = x],
           UNCHANGED goodsVars,
           categories' \in [CategoryIds -> Tables],
           brands' \in [BrandIds -> Tables],
           links' \in [LinkIds -> Link \cup {Free}],
           overtaken' \subseteq {r \in Sessions : session'[r] # Idle},
           StillThere'
    PROVE  CatalogInv'
<1> DEFINE Own == {"inserted", "changing", "updated"}
<1>0. UNCHANGED <<goods, index, copied, blurred>> /\ UNCHANGED Live(goods)
  BY DEF goodsVars, Live
<1>1. session \in [Sessions -> Pending \cup PendingGoods] /\ session' \in [Sessions -> Pending \cup PendingGoods]
  BY DEF CatalogInv, CatalogTypeOK
<1>2. /\ session[s].pc \notin Own /\ session'[s].pc \notin Own
      /\ \A r \in Sessions \ {s} : session'[r] = session[r]
  BY <1>1, Sorts
<1>3. \A i : Locked(i)' <=> Locked(i)
  BY <1>1, <1>2 DEF Locked
<1>4. CatalogTypeOK'
  BY <1>0, <1>1, <1>2 DEF CatalogInv, CatalogTypeOK, Tables
<1>5. IndexAgrees'
  BY <1>0, <1>3 DEF CatalogInv, IndexAgrees, Document
<1>6. OwnRow' /\ Hooked'
  BY <1>0, <1>2 DEF CatalogInv, OwnRow, Hooked, Document
<1>7. CopiedStay' /\ SameCategory'
  BY <1>0, <1>2 DEF CatalogInv, CopiedStay, SameCategory
<1> QED
  BY <1>4, <1>5, <1>6, <1>7 DEF CatalogInv

(* Call s wrote a category or a brand: the other calls are overtaken.         *)
LEMMA OvertakingIsSafe ==
    ASSUME CatalogTypeOK, NEW s \in Sessions, NEW x \in {Idle, [pc |-> "rebranding", id |-> 0, row |-> Deleted]},
           session' = [session EXCEPT ![s] = x], Overtake(s)
    PROVE  StillThere' /\ overtaken' \subseteq {r \in Sessions : session'[r] # Idle}
<1>1. session \in [Sessions -> Pending \cup PendingGoods]
  BY DEF CatalogTypeOK
<1>2. \A r \in Sessions \ overtaken' : session'[r].pc \in {"idle", "rebranding"}
  BY <1>1 DEF Overtake, Idle
<1> QED
  BY <1>1, <1>2 DEF StillThere, LookedUp, GoodsPoints, Overtake

(* Call s goes on with what it has looked up just now, or answers.            *)
LEMMA KeepingUpIsSafe ==
    ASSUME CatalogInv, NEW s \in Sessions, NEW x,
           session' = [session EXCEPT ![s] = x], KeepUp(s), UNCHANGED <<categories, brands>>,
           LookedUp(x)
    PROVE  StillThere' /\ overtaken' \subseteq {r \in Sessions : session'[r] # Idle}
<1>1. /\ session \in [Sessions -> Pending \cup PendingGoods]
      /\ overtaken \subseteq {r \in Sessions : session[r] # Idle}
  BY DEF CatalogInv, CatalogTypeOK
<1>2. \A r \in Sessions \ overtaken' : LookedUp(session'[r])
  BY <1>1 DEF CatalogInv, StillThere, KeepUp
<1>3. UNCHANGED <<Live(brands), Live(categories)>>
  BY DEF Live
<1> QED
  BY <1>1, <1>2, <1>3 DEF StillThere, LookedUp, KeepUp

LEMMA KeptTables ==
    ASSUME CatalogTypeOK
    PROVE  /\ categories \in [CategoryIds -> Tables]
           /\ brands \in [BrandIds -> Tables]
           /\ links \in [LinkIds -> Link \cup {Free}]
BY DEF CatalogTypeOK, Tables

LEMMA CategoriesKeepInv ==
    ASSUME CatalogInv, NEW s \in Sessions, UNCHANGED goodsVars,
           CreateCategory(s) \/ \E k \in CategoryIds : DeleteCategory(s, k)
    PROVE  CatalogInv'
<1>1. /\ session[s] = Idle
      /\ Overtake(s)
      /\ UNCHANGED <<brands, links, session>>
      /\ categories' \in [CategoryIds -> Tables]
  <2>1. categories' \in [CategoryIds -> Tables]
    BY DEF CreateCategory, DeleteCategory, CatalogInv, CatalogTypeOK, Tables, Save, SoftDelete
  <2> QED
    BY <2>1 DEF CreateCategory, DeleteCategory
<1>2. session' = [session EXCEPT ![s] = Idle]
  BY <1>1 DEF CatalogInv, CatalogTypeOK
<1>3. StillThere' /\ overtaken' \subseteq {r \in Sessions : session'[r] # Idle}
  BY <1>1, <1>2, OvertakingIsSafe DEF CatalogInv
<1>4. brands' \in [BrandIds -> Tables] /\ links' \in [LinkIds -> Link \cup {Free}]
  BY <1>1, KeptTables DEF CatalogInv
<1> QED
  BY <1>1, <1>2, <1>3, <1>4, TaxonomyMoves, Sorts

LEMMA BrandWritesKeepInv ==
    ASSUME CatalogInv, NEW s \in Sessions, UNCHANGED goodsVars,
           CreateBrandSaves(s) \/ UpdateBrandSaves(s) \/ \E b \in BrandIds : DeleteBrand(s, b) \/ UpdateBrand(s, b)
    PROVE  CatalogInv'
<1> DEFINE Rebranding == [pc |-> "rebranding", id |-> 0, row |-> Deleted]
<1>1. session \in [Sessions -> Pending \cup PendingGoods]
  BY DEF CatalogInv, CatalogTypeOK
<1>2. \E x \in {Idle, Rebranding} : session' = [session EXCEPT ![s] = x]
  BY <1>1 DEF CreateBrandSaves, UpdateBrandSaves, DeleteBrand, UpdateBrand, Go, Done
<1>3. /\ session[s] \in Pending
      /\ session[s].pc = "rebranding" => session[s].row = Deleted
  BY <1>1, SessionSorts, Sorts
     DEF CatalogInv, CreateBrandSaves, UpdateBrandSaves, DeleteBrand, UpdateBrand, GoodsPoints
<1>4. Overtake(s) /\ UNCHANGED <<categories, links>>
  BY DEF CreateBrandSaves, UpdateBrandSaves, DeleteBrand, UpdateBrand
<1>5. brands' \in [BrandIds -> Tables]
  BY <1>3 DEF CatalogInv, CatalogTypeOK, Tables, Save, SoftDelete,
              CreateBrandSaves, UpdateBrandSaves, DeleteBrand, UpdateBrand
<1>6. StillThere' /\ overtaken' \subseteq {r \in Sessions : session'[r] # Idle}
  BY <1>2, <1>4, OvertakingIsSafe DEF CatalogInv
<1>7. categories' \in [CategoryIds -> Tables] /\ links' \in [LinkIds -> Link \cup {Free}]
  BY <1>4, KeptTables DEF CatalogInv
<1>8. Rebranding \in Pending /\ Idle \in Pending
  BY DEF Pending
<1> QED
  BY <1>2, <1>3, <1>4, <1>5, <1>6, <1>7, <1>8, TaxonomyMoves

(* The calls that look something up and write a link, or nothing, later.      *)
LEMMA LookupsKeepInv ==
    ASSUME CatalogInv, NEW s \in Sessions, UNCHANGED goodsVars,
           \/ CreateBrand(s)
           \/ SaveFails(s)
           \/ \E k \in CategoryIds, b \in BrandIds :
                 \/ CreateCategoryBrand(s, k, b)
                 \/ \E l \in LinkIds : UpdateCategoryBrand(s, l, k, b)
    PROVE  CatalogInv'
<1>1. session \in [Sessions -> Pending \cup PendingGoods]
  BY DEF CatalogInv, CatalogTypeOK
<1>2. KeepUp(s) /\ UNCHANGED <<categories, brands, links>>
  BY DEF CreateBrand, SaveFails, CreateCategoryBrand, UpdateCategoryBrand
<1>3. session[s] \in Pending
  BY SessionSorts, Sorts
     DEF CatalogInv, CreateBrand, SaveFails, CreateCategoryBrand, UpdateCategoryBrand, GoodsPoints
<1>4. PICK x \in Pending : session' = [session EXCEPT ![s] = x] /\ LookedUp(x)
  <2>1. CASE CreateBrand(s)
    <3> DEFINE x == [pc |-> "branding", id |-> 0, row |-> Present]
    <3>1. x \in Pending
      BY DEF Pending
    <3>2. session' = [session EXCEPT ![s] = x] /\ LookedUp(x)
      BY <2>1 DEF CreateBrand, Go, LookedUp, GoodsPoints
    <3> QED
      BY <3>1, <3>2
  <2>2. CASE SaveFails(s)
    <3>1. session' = [session EXCEPT ![s] = Idle] /\ LookedUp(Idle) /\ Idle \in Pending
      BY <2>2 DEF SaveFails, Done, LookedUp, Idle, GoodsPoints, Pending
    <3> QED
      BY <3>1
  <2>3. CASE \E k \in CategoryIds, b \in BrandIds :
               \/ CreateCategoryBrand(s, k, b)
               \/ \E l \in LinkIds : UpdateCategoryBrand(s, l, k, b)
    <3>1. PICK k \in Live(categories), b \in Live(brands), l \in LinkIds \cup {0} :
             k \in CategoryIds /\ b \in BrandIds /\ Go(s, "linking", l, LinkRow(k, b))
      BY <2>3 DEF CreateCategoryBrand, UpdateCategoryBrand
    <3> DEFINE x == [pc |-> "linking", id |-> l, row |-> LinkRow(k, b)]
    <3>2. x \in Pending
      BY <3>1 DEF Pending, LinkRow
    <3>3. session' = [session EXCEPT ![s] = x] /\ LookedUp(x)
      BY <3>1 DEF Go, LookedUp, LinkRow, GoodsPoints
    <3> QED
      BY <3>2, <3>3
  <2> QED
    BY <2>1, <2>2, <2>3
<1>5. StillThere' /\ overtaken' \subseteq {r \in Sessions : session'[r] # Idle}
  BY <1>2, <1>4, KeepingUpIsSafe
<1>6. /\ categories' \in [CategoryIds -> Tables]
      /\ brands' \in [BrandIds -> Tables]
      /\ links' \in [LinkIds -> Link \cup {Free}]
  BY <1>2, KeptTables DEF CatalogInv
<1> QED
  BY <1>3, <1>4, <1>5, <1>6, TaxonomyMoves

(* A call whose check failed knows nothing and counts as overtaken.           *)
LEMMA FailedReadKeepsInv ==
    ASSUME CatalogInv, NEW s \in Sessions, UNCHANGED goodsVars, CreateBrandReadFails(s)
    PROVE  CatalogInv'
<1> DEFINE x == [pc |-> "branding", id |-> 0, row |-> Present]
<1>1. /\ session \in [Sessions -> Pending \cup PendingGoods]
      /\ overtaken \subseteq {r \in Sessions : session[r] # Idle}
  BY DEF CatalogInv, CatalogTypeOK
<1>2. /\ session' = [session EXCEPT ![s] = x]
      /\ overtaken' = overtaken \cup {s}
      /\ UNCHANGED <<categories, brands, links>>
  BY DEF CreateBrandReadFails, Go
<1>3. x \in Pending /\ session[s] \in Pending
  BY DEF Pending, CreateBrandReadFails, Idle
<1>4. overtaken' \subseteq {r \in Sessions : session'[r] # Idle}
  BY <1>1, <1>2, Sorts DEF Idle
<1>5. StillThere'
  BY <1>1, <1>2 DEF CatalogInv, StillThere, LookedUp, Live
<1>6. /\ categories' \in [CategoryIds -> Tables]
      /\ brands' \in [BrandIds -> Tables]
      /\ links' \in [LinkIds -> Link \cup {Free}]
  BY <1>2, KeptTables DEF CatalogInv
<1> QED
  BY <1>2, <1>3, <1>4, <1>5, <1>6, TaxonomyMoves

LEMMA LinkWritesKeepInv ==
    ASSUME CatalogInv, NEW s \in Sessions, UNCHANGED goodsVars,
           SaveLink(s) \/ \E l \in LinkIds : DeleteCategoryBrand(s, l)
    PROVE  CatalogInv'
<1>1. /\ session \in [Sessions -> Pending \cup PendingGoods]
      /\ overtaken \subseteq {r \in Sessions : session[r] # Idle}
      /\ links \in [LinkIds -> Link \cup {Free}]
  BY DEF CatalogInv, CatalogTypeOK
<1>2. UNCHANGED <<categories, brands>>
  BY DEF SaveLink, DeleteCategoryBrand
<1>3. session[s] \in Pending
  BY SessionSorts, Sorts DEF CatalogInv, SaveLink, DeleteCategoryBrand, GoodsPoints
<1>4. categories' \in [CategoryIds -> Tables] /\ brands' \in [BrandIds -> Tables]
  BY <1>2, KeptTables DEF CatalogInv
<1>5. LookedUp(Idle) /\ Idle \in Pending
  BY Sorts DEF LookedUp, GoodsPoints
<1>6. CASE SaveLink(s)
  <2>1. session[s].row \in Link
    BY <1>3, <1>6, Sorts DEF SaveLink
  <2>2. links' \in [LinkIds -> Link \cup {Free}]
    BY <1>1, <1>6, <2>1 DEF SaveLink, Save
  <2>3. session' = [session EXCEPT ![s] = Idle] /\ KeepUp(s)
    BY <1>6 DEF SaveLink, Done
  <2>4. StillThere' /\ overtaken' \subseteq {r \in Sessions : session'[r] # Idle}
    BY <1>2, <1>5, <2>3, KeepingUpIsSafe
  <2> QED
    BY <1>3, <1>4, <1>5, <2>2, <2>3, <2>4, TaxonomyMoves
<1>7. CASE \E l \in LinkIds : DeleteCategoryBrand(s, l)
  <2>1. session' = [session EXCEPT ![s] = session[s]] /\ UNCHANGED <<session, overtaken>>
    BY <1>1, <1>7 DEF DeleteCategoryBrand
  <2>2. links' \in [LinkIds -> Link \cup {Free}]
    BY <1>1, <1>7 DEF DeleteCategoryBrand, Live, Link, Free
  <2>3. StillThere'
    BY <1>2, <2>1 DEF CatalogInv, StillThere, LookedUp, Live
  <2> QED
    BY <1>1, <1>3, <1>4, <2>1, <2>2, <2>3, TaxonomyMoves
<1> QED
  BY <1>6, <1>7

LEMMA TaxonomyKeepsInv ==
    ASSUME CatalogInv, TaxonomyNext, UNCHANGED goodsVars PROVE CatalogInv'
BY CategoriesKeepInv, BrandWritesKeepInv, LookupsKeepInv, FailedReadKeepsInv, LinkWritesKeepInv
   DEF TaxonomyNext

-----------------------------------------------------------------------------
(* The calls on goods.                                                        *)

LEMMA GoodsFacts ==
    ASSUME CatalogInv
    PROVE  /\ session \in [Sessions -> Pending \cup PendingGoods]
           /\ \A i \in Live(goods) : i \in GoodsIds /\ goods[i] \in GoodsRow
           /\ \A i \in GoodsIds : goods[i].state = "live" <=> i \in Live(goods)
           /\ \A i \in GoodsIds : goods[i].state = "open" <=> goods[i] = Open
           /\ \A s \in Sessions : session[s].pc \in GoodsPoints
                 => session[s] \in PendingGoods /\ session[s].row \in GoodsRow
           /\ \A s \in Sessions : session[s].pc \in GoodsPoints \ {"creating"}
                 => session[s].id \in GoodsIds
           /\ \A s \in Sessions : session[s].pc = "inserted" => goods[session[s].id] = Open
           /\ \A s \in Sessions : session[s].pc \in {"changing", "updated"}
                 => session[s].id \in Live(goods)
<1>1. goods \in [GoodsIds -> GoodsRow \cup {Free, Deleted, Open}]
  BY DEF CatalogInv, CatalogTypeOK, Open
<1>2. \A i \in GoodsIds : goods[i].state = "live" <=> i \in Live(goods)
  BY <1>1 DEF Live
<1>3. \A i \in GoodsIds : goods[i].state = "open" <=> goods[i] = Open
  BY <1>1, StatesDiffer
<1>4. \A i \in Live(goods) : i \in GoodsIds /\ goods[i] \in GoodsRow
  BY <1>1, StatesDiffer DEF Live
<1>5. /\ session \in [Sessions -> Pending \cup PendingGoods]
      /\ \A s \in Sessions : session[s].pc \in GoodsPoints
            => session[s] \in PendingGoods /\ session[s].row \in GoodsRow
      /\ \A s \in Sessions : session[s].pc \in GoodsPoints \ {"creating"}
            => session[s].id \in GoodsIds
  BY SessionSorts, Sorts DEF CatalogInv, CatalogTypeOK
<1>6. \A s \in Sessions : session[s].pc = "inserted" => goods[session[s].id] = Open
  BY <1>3, <1>5 DEF CatalogInv, CatalogTypeOK, GoodsPoints
<1> QED
  BY <1>2, <1>3, <1>4, <1>5, <1>6 DEF CatalogInv, CatalogTypeOK

(* A call whose write is not pending after the step, and that has written no  *)
(* row and no document in it, though it may give one up.                      *)
LEMMA SessionMoves ==
    ASSUME CatalogInv, NEW s \in Sessions, NEW x \in Pending \cup PendingGoods,
           session[s].pc # "inserted",
           x.pc \notin {"inserted", "updated"},
           session' = [session EXCEPT ![s] = x],
           KeepUp(s),
           UNCHANGED <<categories, brands, links, goods, index, copied>>,
           blurred \subseteq blurred', blurred' \subseteq GoodsIds,
           session[s].pc = "updated" => session[s].id \in blurred',
           LookedUp(x),
           x.pc = "changing" => /\ x.id \in Live(goods)
                                /\ x.row.category = goods[x.id].category
    PROVE  CatalogInv'
<1>1. session \in [Sessions -> Pending \cup PendingGoods]
  BY DEF CatalogInv, CatalogTypeOK
<1>2. StillThere' /\ overtaken' \subseteq {r \in Sessions : session'[r] # Idle}
  BY KeepingUpIsSafe
<1>3. \A i \in GoodsIds \ blurred' : Locked(i)' <=> Locked(i)
  BY <1>1 DEF Locked
<1>4. UNCHANGED Live(goods)
  BY DEF Live
<1>5. CatalogTypeOK'
  BY <1>1, <1>2, <1>4 DEF CatalogInv, CatalogTypeOK
<1>6. IndexAgrees'
  BY <1>3, <1>4 DEF CatalogInv, IndexAgrees, Document
<1>7. OwnRow' /\ Hooked'
  BY <1>1 DEF CatalogInv, OwnRow, Hooked, Document
<1>8. CopiedStay' /\ SameCategory'
  BY <1>1, <1>4 DEF CatalogInv, CopiedStay, SameCategory
<1> QED
  BY <1>2, <1>5, <1>6, <1>7, <1>8 DEF CatalogInv

LEMMA ReadsKeepInv ==
    ASSUME CatalogInv, NEW s \in Sessions,
           \/ \E k \in CategoryIds, b \in BrandIds, n \in Names : CreateGoods(s, k, b, n)
           \/ \E i \in GoodsIds, n \in Names : UpdateGoods(s, i, n)
    PROVE  CatalogInv'
<1>0. session[s].pc = "idle" /\ blurred \subseteq GoodsIds
  BY SessionSorts DEF CatalogInv, CatalogTypeOK, CreateGoods, UpdateGoods
<1>1. CASE \E k \in CategoryIds, b \in BrandIds, n \in Names : CreateGoods(s, k, b, n)
  <2>1. PICK k \in CategoryIds, b \in BrandIds, n \in Names : CreateGoods(s, k, b, n)
    BY <1>1
  <2> DEFINE x == [pc |-> "creating", id |-> 0,
                   row |-> [state |-> "live", category |-> k, brand |-> b, name |-> n]]
  <2>2. x \in PendingGoods
    BY <2>1 DEF PendingGoods, GoodsRow
  <2>3. session' = [session EXCEPT ![s] = x] /\ LookedUp(x)
    BY <2>1 DEF CreateGoods, Go, LookedUp, GoodsPoints
  <2>4. KeepUp(s) /\ UNCHANGED <<categories, brands, links, goods, index, copied, blurred>>
    BY <2>1 DEF CreateGoods, goodsVars
  <2> HIDE DEF x
  <2>5. x.pc = "creating"
    BY DEF x
  <2> QED
    BY <1>0, <2>2, <2>3, <2>4, <2>5, SessionMoves
<1>2. CASE \E i \in GoodsIds, n \in Names : UpdateGoods(s, i, n)
  <2>1. PICK i \in Live(goods), n \in Names, b \in Live(brands) :
           /\ b \in BrandIds
           /\ goods[i].category \in Live(categories)
           /\ Go(s, "changing", i, [goods[i] EXCEPT !.brand = b, !.name = n])
           /\ KeepUp(s)
           /\ UNCHANGED <<categories, brands, links, goods, index, copied, blurred>>
    BY <1>2 DEF UpdateGoods, IsFirst, goodsVars
  <2> DEFINE x == [pc |-> "changing", id |-> i, row |-> [goods[i] EXCEPT !.brand = b, !.name = n]]
  <2>2. i \in GoodsIds /\ goods[i] \in GoodsRow
    BY GoodsFacts
  <2>3. /\ [goods[i] EXCEPT !.brand = b, !.name = n] \in GoodsRow
        /\ [goods[i] EXCEPT !.brand = b, !.name = n].category = goods[i].category
        /\ [goods[i] EXCEPT !.brand = b, !.name = n].brand = b
    BY <2>1, <2>2 DEF GoodsRow
  <2>4. x \in PendingGoods
    BY <2>2, <2>3 DEF PendingGoods
  <2>5. session' = [session EXCEPT ![s] = x] /\ LookedUp(x)
    BY <2>1, <2>3 DEF Go, LookedUp, GoodsPoints
  <2>6. x.pc = "changing" /\ x.id \in Live(goods) /\ x.row.category = goods[x.id].category
    BY <2>3
  <2> HIDE DEF x
  <2> QED
    BY <1>0, <2>1, <2>4, <2>5, <2>6, SessionMoves
<1> QED
  BY <1>1, <1>2

(* Call s writes in its transaction what it has looked up.                    *)
LEMMA WritingIsSafe ==
    ASSUME CatalogInv, NEW s \in Sessions, NEW x,
           session[s] # Idle, x # Idle,
           session' = [session EXCEPT ![s] = x],
           UNCHANGED <<categories, brands, overtaken>>,
           session[s].pc \in GoodsPoints, x.pc \in GoodsPoints, x.row = session[s].row
    PROVE  StillThere' /\ overtaken' \subseteq {r \in Sessions : session'[r] # Idle}
<1>1. /\ session \in [Sessions -> Pending \cup PendingGoods]
      /\ overtaken \subseteq {r \in Sessions : session[r] # Idle}
  BY DEF CatalogInv, CatalogTypeOK
<1>2. UNCHANGED <<Live(brands), Live(categories)>>
  BY DEF Live
<1>3. \A r \in Sessions : session'[r] = IF r = s THEN x ELSE session[r]
  BY <1>1
<1>4. \A r \in Sessions \ overtaken : LookedUp(session[r])
  BY DEF CatalogInv, StillThere
<1>5. \A r \in Sessions \ overtaken' : LookedUp(session'[r])
  BY <1>3, <1>4 DEF LookedUp, GoodsPoints
<1>6. StillThere'
  BY <1>2, <1>5 DEF StillThere, LookedUp
<1> QED
  BY <1>1, <1>3, <1>6

LEMMA InsertKeepsInv ==
    ASSUME CatalogInv, NEW s \in Sessions, CreateGoodsInserts(s) PROVE CatalogInv'
<1>1. PICK i \in GoodsIds :
         /\ IsNextId(i, goods)
         /\ goods' = Save(goods, i, [state |-> "open"])
         /\ index' = [index EXCEPT ![i] = Document(session[s].row)]
         /\ Go(s, "inserted", i, session[s].row)
  BY DEF CreateGoodsInserts
<1> DEFINE x == [pc |-> "inserted", id |-> i, row |-> session[s].row]
<1>2. /\ session[s].pc = "creating"
      /\ UNCHANGED <<categories, brands, links, overtaken, copied, blurred>>
  BY DEF CreateGoodsInserts
<1>3. /\ session[s].row \in GoodsRow
      /\ session \in [Sessions -> Pending \cup PendingGoods]
      /\ session[s] # Idle
  BY <1>2, GoodsFacts, SessionSorts DEF GoodsPoints, CatalogInv
<1>4. /\ x \in PendingGoods /\ x # Idle
      /\ x.pc = "inserted" /\ x.id = i /\ x.row = session[s].row
  BY <1>3, Sorts DEF PendingGoods
<1>5. session' = [session EXCEPT ![s] = x]
  BY <1>1 DEF Go
<1> HIDE DEF x
<1>6. StillThere' /\ overtaken' \subseteq {r \in Sessions : session'[r] # Idle}
  BY <1>2, <1>3, <1>4, <1>5, WritingIsSafe DEF GoodsPoints
<1>7. goods[i].state = "free" /\ goods' = [goods EXCEPT ![i] = Open]
  BY <1>1, NextIdIsFree DEF Save, Open
<1>8. goods \in [GoodsIds -> GoodsRow \cup {Free, Deleted, Open}] /\ Open.state = "open"
  BY StatesDiffer DEF CatalogInv, CatalogTypeOK, Open
<1>9. i \notin Live(goods) /\ Live(goods)' = Live(goods)
  BY <1>7, <1>8 DEF Live
<1>10. \A r \in Sessions : session[r].pc = "inserted" => session[r].id # i
  BY <1>7, <1>8, GoodsFacts
<1>11. \A j : Locked(j)' <=> Locked(j)
  BY <1>2, <1>3, <1>4, <1>5 DEF Locked
<1>12. CatalogTypeOK'
  BY <1>2, <1>3, <1>4, <1>5, <1>6, <1>7, <1>8, <1>9, <1>10, Documents, <1>1
     DEF CatalogInv, CatalogTypeOK, Open
<1>13. IndexAgrees'
  BY <1>1, <1>2, <1>7, <1>8, <1>9, <1>11 DEF CatalogInv, IndexAgrees, CatalogTypeOK, Document
<1>14. OwnRow'
  BY <1>3, <1>4, <1>5, <1>10 DEF CatalogInv, OwnRow
<1>15. Hooked'
  <2>1. \A r \in Sessions : session[r].pc = "updated" => session[r].id # i
    BY <1>9, GoodsFacts
  <2> QED
    BY <1>1, <1>2, <1>3, <1>4, <1>5, <1>10, <2>1 DEF CatalogInv, Hooked, Document, CatalogTypeOK
<1>16. CopiedStay' /\ SameCategory'
  BY <1>1, <1>2, <1>3, <1>4, <1>5, <1>7, <1>8, <1>9, GoodsFacts
     DEF CatalogInv, CopiedStay, SameCategory, CatalogTypeOK
<1> QED
  BY <1>6, <1>12, <1>13, <1>14, <1>15, <1>16 DEF CatalogInv

(* The answer of a call on goods.                                             *)
LEMMA AnsweringIsSafe ==
    ASSUME CatalogInv, NEW s \in Sessions, Done(s), KeepUp(s), UNCHANGED <<categories, brands>>
    PROVE  /\ StillThere'
           /\ overtaken' \subseteq {r \in Sessions : session'[r] # Idle}
           /\ \A r \in Sessions : session'[r] = IF r = s THEN Idle ELSE session[r]
           /\ session' \in [Sessions -> Pending \cup PendingGoods]
           /\ session'[s].pc = "idle"
<1>1. LookedUp(Idle) /\ Idle.pc = "idle" /\ Idle \in Pending
  BY Sorts DEF LookedUp, GoodsPoints
<1>2. session' = [session EXCEPT ![s] = Idle]
  BY DEF Done
<1>3. session \in [Sessions -> Pending \cup PendingGoods]
  BY DEF CatalogInv, CatalogTypeOK
<1> QED
  BY <1>1, <1>2, <1>3, KeepingUpIsSafe

(* A transaction that inserts does not commit: the id is used up.             *)
LEMMA InsertFailsKeepsInv ==
    ASSUME CatalogInv, NEW s \in Sessions, CreateGoodsFails(s) PROVE CatalogInv'
<1>1. PICK i \in GoodsIds :
         /\ IsNextId(i, goods)
         /\ goods' = [goods EXCEPT ![i] = Deleted]
         /\ \/ UNCHANGED <<index, blurred>>
            \/ /\ index' = [index EXCEPT ![i] = Document(session[s].row)]
               /\ blurred' = blurred \cup {i}
  BY DEF CreateGoodsFails, Save
<1>2. /\ session[s].pc = "creating" /\ Done(s) /\ KeepUp(s)
      /\ UNCHANGED <<categories, brands, links, copied>>
  BY DEF CreateGoodsFails
<1>3. /\ StillThere'
      /\ overtaken' \subseteq {r \in Sessions : session'[r] # Idle}
      /\ \A r \in Sessions : session'[r] = IF r = s THEN Idle ELSE session[r]
      /\ session' \in [Sessions -> Pending \cup PendingGoods]
      /\ session'[s].pc = "idle"
  BY <1>2, AnsweringIsSafe
<1>4. goods[i].state = "free" /\ session[s].row \in GoodsRow
  BY <1>1, <1>2, NextIdIsFree, GoodsFacts DEF GoodsPoints
<1>5. /\ goods \in [GoodsIds -> GoodsRow \cup {Free, Deleted, Open}]
      /\ Open.state = "open" /\ Deleted.state = "deleted"
  BY StatesDiffer DEF CatalogInv, CatalogTypeOK, Open
<1>6. i \notin Live(goods) /\ Live(goods)' = Live(goods)
  BY <1>1, <1>4, <1>5 DEF Live
<1>7. \A r \in Sessions : session[r].pc \in {"inserted", "updated"} => session[r].id # i
  BY <1>4, <1>5, <1>6, GoodsFacts
<1>8. \A j : Locked(j)' <=> Locked(j)
  BY <1>2, <1>3 DEF Locked
<1>9. CatalogTypeOK'
  BY <1>1, <1>2, <1>3, <1>4, <1>5, <1>6, <1>7, Documents DEF CatalogInv, CatalogTypeOK, Open
<1>10. IndexAgrees'
  BY <1>1, <1>4, <1>5, <1>6, <1>8 DEF CatalogInv, IndexAgrees, CatalogTypeOK, Document
<1>11. OwnRow' /\ Hooked'
  BY <1>1, <1>3, <1>7, GoodsFacts DEF CatalogInv, OwnRow, Hooked, Document, CatalogTypeOK, GoodsPoints
<1>12. CopiedStay' /\ SameCategory'
  <2>1. \A j \in Live(goods) : j # i /\ goods'[j] = goods[j] /\ index'[j] = index[j]
    BY <1>1, <1>5, <1>6, GoodsFacts DEF CatalogInv, CatalogTypeOK
  <2>2. \A r \in Sessions : session[r].pc \in {"changing", "updated"} => session[r].id \in Live(goods)
    BY GoodsFacts
  <2> QED
    BY <1>2, <1>3, <1>6, <2>1, <2>2 DEF CatalogInv, CopiedStay, SameCategory
<1> QED
  BY <1>3, <1>9, <1>10, <1>11, <1>12 DEF CatalogInv

(* A call that inserted row i commits or not.                                 *)
LEMMA InsertEndsKeepsInv ==
    ASSUME CatalogInv, NEW s \in Sessions, CreateGoodsCommits(s) \/ CreateGoodsCommitFails(s)
    PROVE  CatalogInv'
<1> DEFINE i == session[s].id
           row == session[s].row
<1>1. /\ \/ goods' = [goods EXCEPT ![i] = row] /\ UNCHANGED blurred
         \/ goods' = [goods EXCEPT ![i] = Deleted] /\ blurred' = blurred \cup {i}
      /\ session[s].pc = "inserted" /\ Done(s) /\ KeepUp(s)
      /\ UNCHANGED <<categories, brands, links, index, copied>>
  BY DEF CreateGoodsCommits, CreateGoodsCommitFails, Save
<1>2. /\ StillThere'
      /\ overtaken' \subseteq {r \in Sessions : session'[r] # Idle}
      /\ \A r \in Sessions : session'[r] = IF r = s THEN Idle ELSE session[r]
      /\ session' \in [Sessions -> Pending \cup PendingGoods]
      /\ session'[s].pc = "idle"
  BY <1>1, AnsweringIsSafe
<1>3. /\ row \in GoodsRow /\ row.state = "live"
      /\ i \in GoodsIds /\ goods[i] = Open
      /\ index[i] = Document(row)
      /\ Document(row).category = row.category
  BY <1>1, GoodsFacts, Documents, StatesDiffer DEF GoodsPoints, CatalogInv, Hooked
<1>4. /\ goods \in [GoodsIds -> GoodsRow \cup {Free, Deleted, Open}]
      /\ Open.state = "open" /\ Deleted.state = "deleted"
  BY StatesDiffer DEF CatalogInv, CatalogTypeOK, Open
<1>5. /\ i \notin Live(goods)
      /\ Live(goods) \subseteq Live(goods)' /\ Live(goods)' \subseteq Live(goods) \cup {i}
  BY <1>1, <1>3, <1>4 DEF Live
<1>6. \A r \in Sessions \ {s} : session[r].pc \in {"inserted", "changing", "updated"} => session[r].id # i
  BY <1>1, <1>5, GoodsFacts DEF CatalogInv, OwnRow
<1>7. \A j : Locked(j)' <=> Locked(j)
  BY <1>1, <1>2 DEF Locked
<1>8. CatalogTypeOK'
  <2>1. /\ goods' \in [GoodsIds -> GoodsRow \cup {Free, Deleted, Open}]
        /\ blurred' \subseteq GoodsIds
        /\ \A j \in GoodsIds \ {i} : goods'[j] = goods[j]
    BY <1>1, <1>3, <1>4 DEF CatalogInv, CatalogTypeOK
  <2>2. \A r \in Sessions : session'[r].pc = "inserted" => goods'[session'[r].id].state = "open"
    BY <1>2, <1>4, <1>6, <2>1, GoodsFacts DEF GoodsPoints
  <2>3. \A r, q \in Sessions :
           session'[r].pc = "updated" /\ session'[q].pc = "updated" /\ session'[r].id = session'[q].id => r = q
    BY <1>2 DEF CatalogInv, CatalogTypeOK
  <2>4. \A r \in Sessions : session'[r].pc \in {"changing", "updated"} => session'[r].id \in Live(goods)'
    BY <1>2, <1>5, GoodsFacts
  <2> QED
    BY <1>1, <1>2, <2>1, <2>2, <2>3, <2>4 DEF CatalogInv, CatalogTypeOK, Open
<1>9. IndexAgrees'
  BY <1>1, <1>3, <1>4, <1>5, <1>7 DEF CatalogInv, IndexAgrees, CatalogTypeOK, Document
<1>10. OwnRow' /\ Hooked'
  BY <1>1, <1>2 DEF CatalogInv, OwnRow, Hooked, Document
<1>11. CopiedStay' /\ SameCategory'
  <2>1. \A j \in Live(goods) : j # i /\ goods'[j] = goods[j] /\ j \in Live(goods)'
    BY <1>1, <1>4, <1>5, GoodsFacts
  <2>2. i \in Live(goods)' => goods'[i] = row
    BY <1>1, <1>3, <1>4 DEF Live
  <2>3. \A r \in Sessions : session[r].pc \in {"changing", "updated"} => session[r].id \in Live(goods)
    BY GoodsFacts
  <2> HIDE DEF i, row
  <2>4. \A j \in Live(goods)' : index[j] # NoDocument => index[j].category = goods'[j].category
    BY <1>3, <1>5, <2>1, <2>2 DEF CatalogInv, SameCategory
  <2> QED
    BY <1>1, <1>2, <2>1, <2>3, <2>4 DEF CatalogInv, CopiedStay, SameCategory
<1> QED
  BY <1>2, <1>8, <1>9, <1>10, <1>11 DEF CatalogInv

(* The UPDATE and its hook: nobody else has an UPDATE of the row pending.     *)
LEMMA UpdateKeepsInv ==
    ASSUME CatalogInv, NEW s \in Sessions, UpdateGoodsWrites(s) PROVE CatalogInv'
<1> DEFINE i == session[s].id
           row == session[s].row
           x == [pc |-> "updated", id |-> i, row |-> row]
<1>1. /\ session[s].pc = "changing"
      /\ ~Locked(i)
      /\ index[i] # NoDocument
      /\ index' = [index EXCEPT ![i] = Document(row)]
      /\ blurred' = blurred \ {i}
      /\ session' = [session EXCEPT ![s] = x]
      /\ UNCHANGED <<categories, brands, links, overtaken, goods, copied>>
  BY DEF UpdateGoodsWrites, Go
<1>2. /\ row \in GoodsRow /\ i \in GoodsIds /\ i \in Live(goods)
      /\ session \in [Sessions -> Pending \cup PendingGoods]
      /\ session[s] # Idle
      /\ row.category = goods[i].category
      /\ Document(row).category = row.category
  BY <1>1, GoodsFacts, SessionSorts, Documents DEF GoodsPoints, CatalogInv, SameCategory
<1>3. x \in PendingGoods /\ x # Idle /\ x.pc = "updated" /\ x.id = i /\ x.row = row
  BY <1>2, Sorts DEF PendingGoods
<1> HIDE DEF x
<1>4. StillThere' /\ overtaken' \subseteq {r \in Sessions : session'[r] # Idle}
  BY <1>1, <1>2, <1>3, WritingIsSafe DEF GoodsPoints
<1>5. \A r \in Sessions : session'[r] = IF r = s THEN x ELSE session[r]
  BY <1>1, <1>2
<1>6. \A r \in Sessions : session[r].pc = "updated" => session[r].id # i
  BY <1>1 DEF Locked
<1>7. \A r \in Sessions : session[r].pc = "inserted" => session[r].id # i
  BY <1>2, GoodsFacts DEF Live, Open
<1> HIDE DEF i, row
<1>8. Live(goods)' = Live(goods)
  BY <1>1 DEF Live
<1>9. \A j : Locked(j)' <=> (Locked(j) \/ j = i)
  BY <1>3, <1>5, <1>1 DEF Locked
<1>10. CatalogTypeOK'
  <2>1. \A r, q \in Sessions :
           session'[r].pc = "updated" /\ session'[q].pc = "updated" /\ session'[r].id = session'[q].id => r = q
    BY <1>3, <1>5, <1>6 DEF CatalogInv, CatalogTypeOK
  <2> QED
    BY <1>1, <1>2, <1>3, <1>4, <1>5, <1>8, <2>1, Documents DEF CatalogInv, CatalogTypeOK
<1>11. IndexAgrees'
  <2>1. \A j \in GoodsIds \ {i} : index'[j] = index[j] /\ (Locked(j)' <=> Locked(j))
    BY <1>1, <1>9 DEF CatalogInv, CatalogTypeOK
  <2>2. \A j \in GoodsIds \ blurred' : j = i \/ j \in GoodsIds \ blurred
    BY <1>1
  <2>3. goods[i].state = "live"
    BY <1>2 DEF Live
  <2>4. \A j \in GoodsIds : j = i => Locked(j)'
    BY <1>3, <1>5 DEF Locked
  <2>5. \A j \in GoodsIds \ blurred' : j # i =>
           /\ j \in Live(goods)' /\ ~Locked(j)' => index'[j] = Document(goods'[j])
           /\ index'[j] # NoDocument => goods'[j].state \in {"live", "open"}
    BY <1>1, <1>8, <2>1, <2>2 DEF CatalogInv, IndexAgrees
  <2> QED
    BY <1>1, <2>3, <2>4, <2>5 DEF IndexAgrees, Document
<1>12. OwnRow'
  BY <1>3, <1>5 DEF CatalogInv, OwnRow
<1>13. Hooked'
  BY <1>1, <1>2, <1>3, <1>5, <1>6, <1>7 DEF CatalogInv, Hooked, Document, CatalogTypeOK
<1>14. CopiedStay' /\ SameCategory'
  <2>1. \A j \in GoodsIds : index'[j] = IF j = i THEN Document(row) ELSE index[j]
    BY <1>1 DEF CatalogInv, CatalogTypeOK
  <2>2. \A j \in Live(goods) : index'[j] # NoDocument => index'[j].category = goods[j].category
    BY <1>2, <2>1, GoodsFacts DEF CatalogInv, SameCategory
  <2> QED
    BY <1>1, <1>2, <1>3, <1>5, <1>8, <2>2 DEF CatalogInv, CopiedStay, SameCategory
<1> QED
  BY <1>4, <1>10, <1>11, <1>12, <1>13, <1>14 DEF CatalogInv

LEMMA UpdateFailsKeepsInv ==
    ASSUME CatalogInv, NEW s \in Sessions, UpdateGoodsFails(s) PROVE CatalogInv'
<1> DEFINE i == session[s].id
           row == session[s].row
<1>1. /\ session[s].pc = "changing" /\ ~Locked(i) /\ Done(s) /\ KeepUp(s)
      /\ UNCHANGED <<categories, brands, links, goods, copied>>
      /\ \/ UNCHANGED <<index, blurred>>
         \/ index' = [index EXCEPT ![i] = Document(row)] /\ blurred' = blurred \cup {i}
  BY DEF UpdateGoodsFails
<1>2. CASE UNCHANGED <<index, blurred>>
  BY <1>1, <1>2, SessionMoves, Sorts
     DEF Done, LookedUp, GoodsPoints, CatalogInv, CatalogTypeOK
<1>3. CASE index' = [index EXCEPT ![i] = Document(row)] /\ blurred' = blurred \cup {i}
  <2>1. /\ StillThere'
        /\ overtaken' \subseteq {r \in Sessions : session'[r] # Idle}
        /\ \A r \in Sessions : session'[r] = IF r = s THEN Idle ELSE session[r]
        /\ session' \in [Sessions -> Pending \cup PendingGoods]
        /\ session'[s].pc = "idle"
    BY <1>1, AnsweringIsSafe
  <2>2. /\ row \in GoodsRow /\ i \in GoodsIds /\ i \in Live(goods)
        /\ row.category = goods[i].category
        /\ Document(row).category = row.category
    BY <1>1, GoodsFacts, Documents DEF GoodsPoints, CatalogInv, SameCategory
  <2>3. \A r \in Sessions : session[r].pc = "inserted" => session[r].id # i
    BY <2>2, GoodsFacts DEF Live, Open
  <2> HIDE DEF i, row
  <2>4. Live(goods)' = Live(goods)
    BY <1>1 DEF Live
  <2>5. \A j : Locked(j)' <=> Locked(j)
    BY <1>1, <2>1 DEF Locked
  <2>6. \A j \in GoodsIds : index'[j] = IF j = i THEN Document(row) ELSE index[j]
    BY <1>3 DEF CatalogInv, CatalogTypeOK
  <2>7. CatalogTypeOK'
    BY <1>1, <1>3, <2>1, <2>2, <2>4, Documents DEF CatalogInv, CatalogTypeOK
  <2>8. IndexAgrees'
    BY <1>1, <1>3, <2>4, <2>5, <2>6 DEF CatalogInv, IndexAgrees, Document
  <2>9. OwnRow' /\ Hooked'
    BY <1>3, <2>1, <2>3, <2>6, GoodsFacts DEF CatalogInv, OwnRow, Hooked, Document, GoodsPoints
  <2>10. \A j \in Live(goods) : index'[j] # NoDocument => index'[j].category = goods[j].category
    BY <2>2, <2>6, GoodsFacts DEF CatalogInv, SameCategory
  <2>11. CopiedStay' /\ SameCategory'
    BY <1>1, <2>1, <2>4, <2>10 DEF CatalogInv, CopiedStay, SameCategory
  <2> QED
    BY <2>1, <2>7, <2>8, <2>9, <2>11 DEF CatalogInv
<1> QED
  BY <1>1, <1>2, <1>3

LEMMA UpdateCommitsKeepsInv ==
    ASSUME CatalogInv, NEW s \in Sessions, UpdateGoodsCommits(s) PROVE CatalogInv'
<1> DEFINE i == session[s].id
           row == session[s].row
<1>1. /\ session[s].pc = "updated" /\ Done(s) /\ KeepUp(s)
      /\ goods' = [goods EXCEPT ![i] = row]
      /\ UNCHANGED <<categories, brands, links, index, copied, blurred>>
  BY DEF UpdateGoodsCommits, Save
<1>2. /\ StillThere'
      /\ overtaken' \subseteq {r \in Sessions : session'[r] # Idle}
      /\ \A r \in Sessions : session'[r] = IF r = s THEN Idle ELSE session[r]
      /\ session' \in [Sessions -> Pending \cup PendingGoods]
      /\ session'[s].pc = "idle"
  BY <1>1, AnsweringIsSafe
<1>3. /\ row \in GoodsRow /\ row.state = "live"
      /\ i \in GoodsIds /\ i \in Live(goods)
      /\ row.category = goods[i].category
      /\ i \notin blurred => index[i] = Document(row)
  BY <1>1, GoodsFacts, StatesDiffer DEF GoodsPoints, CatalogInv, SameCategory, Hooked
<1>4. goods \in [GoodsIds -> GoodsRow \cup {Free, Deleted, Open}]
  BY DEF CatalogInv, CatalogTypeOK, Open
<1>5. \A r \in Sessions : session[r].pc = "inserted" => session[r].id # i
  BY <1>3, GoodsFacts DEF Live, Open
<1> HIDE DEF i, row
<1>6. Live(goods)' = Live(goods)
  BY <1>1, <1>3, <1>4 DEF Live
<1>7. \A j \in GoodsIds : j # i => (Locked(j)' <=> Locked(j))
  BY <1>2, <1>1 DEF Locked, i
<1>8. \A j \in GoodsIds : goods'[j] = IF j = i THEN row ELSE goods[j]
  BY <1>1, <1>4
<1>9. CatalogTypeOK'
  <2>1. \A r \in Sessions : session'[r].pc = "inserted" => goods'[session'[r].id].state = "open"
    BY <1>2, <1>5, <1>8, GoodsFacts DEF CatalogInv, CatalogTypeOK, GoodsPoints
  <2>2. goods' \in [GoodsIds -> GoodsRow \cup {Free, Deleted, Open}]
    BY <1>1, <1>3, <1>4
  <2> QED
    BY <1>1, <1>2, <1>6, <2>1, <2>2 DEF CatalogInv, CatalogTypeOK, Open
<1>10. IndexAgrees'
  <2>1. \A j \in GoodsIds \ blurred : j # i =>
           /\ j \in Live(goods)' /\ ~Locked(j)' => index'[j] = Document(goods'[j])
           /\ index'[j] # NoDocument => goods'[j].state \in {"live", "open"}
    BY <1>1, <1>6, <1>7, <1>8 DEF CatalogInv, IndexAgrees
  <2>2. i \notin blurred => index'[i] = Document(goods'[i]) /\ goods'[i].state = "live"
    BY <1>1, <1>3, <1>8
  <2> QED
    BY <1>1, <2>1, <2>2 DEF IndexAgrees, Document
<1>11. OwnRow' /\ Hooked'
  <2>1. \A r \in Sessions : session'[r].pc \in {"inserted", "updated"} => session'[r] = session[r]
    BY <1>2
  <2>2. OwnRow'
    BY <2>1 DEF CatalogInv, OwnRow
  <2>3. Hooked'
    BY <1>1, <2>1 DEF CatalogInv, Hooked, Document
  <2> QED
    BY <2>2, <2>3
<1>12. CopiedStay' /\ SameCategory'
  <2>1. \A j \in Live(goods) : goods'[j].category = goods[j].category
    BY <1>3, <1>8, GoodsFacts
  <2>2. \A r \in Sessions : session[r].pc \in {"changing", "updated"} => session[r].id \in Live(goods)
    BY GoodsFacts
  <2>3. CopiedStay'
    BY <1>1, <1>6 DEF CatalogInv, CopiedStay
  <2>4. \A j \in Live(goods)' : index'[j] # NoDocument => index'[j].category = goods'[j].category
    BY <1>1, <1>6, <2>1 DEF CatalogInv, SameCategory
  <2>5. \A j \in DOMAIN copied' : copied'[j].category = goods'[j].category
    BY <1>1, <2>1 DEF CatalogInv, CopiedStay, SameCategory
  <2>6. \A r \in Sessions : session'[r].pc \in {"changing", "updated"}
           => session'[r].row.category = goods'[session'[r].id].category
    BY <1>2, <2>1, <2>2 DEF CatalogInv, SameCategory
  <2> QED
    BY <2>3, <2>4, <2>5, <2>6 DEF SameCategory
<1> QED
  BY <1>2, <1>9, <1>10, <1>11, <1>12 DEF CatalogInv

LEMMA UpdateCommitFailsKeepsInv ==
    ASSUME CatalogInv, NEW s \in Sessions, UpdateGoodsCommitFails(s) PROVE CatalogInv'
<1>1. session[s].id \in GoodsIds
  BY GoodsFacts DEF UpdateGoodsCommitFails, GoodsPoints
<1> QED
  BY <1>1, SessionMoves, Sorts
     DEF UpdateGoodsCommitFails, Done, LookedUp, GoodsPoints, CatalogInv, CatalogTypeOK

-----------------------------------------------------------------------------
(* Mysql2Es.                                                                  *)

LEMMA CopyKeepsInv ==
    ASSUME CatalogInv, Mysql2Es \/ Mysql2EsPanics PROVE CatalogInv'
<1>1. /\ UNCHANGED <<categories, brands, links, session, overtaken, goods, index, blurred>>
      /\ \A i \in DOMAIN copied' : i \in Live(goods) /\ copied'[i] = goods[i]
  BY DEF Mysql2Es, Mysql2EsPanics, taxonomyVars
<1>2. \A i \in DOMAIN copied' : i \in GoodsIds /\ copied'[i] \in GoodsRow
  BY <1>1, GoodsFacts
<1>3. Live(goods)' = Live(goods)
  BY <1>1 DEF Live
<1>4. \A j : Locked(j)' <=> Locked(j)
  BY <1>1 DEF Locked
<1>5. CatalogTypeOK'
  BY <1>1, <1>2, <1>3 DEF CatalogInv, CatalogTypeOK
<1>6. IndexAgrees' /\ OwnRow' /\ Hooked'
  BY <1>1, <1>3, <1>4 DEF CatalogInv, IndexAgrees, OwnRow, Hooked, Document
<1>7. CopiedStay' /\ SameCategory'
  BY <1>1, <1>3 DEF CatalogInv, CopiedStay, SameCategory
<1>8. StillThere'
  BY <1>1 DEF CatalogInv, StillThere, LookedUp, Live
<1> QED
  BY <1>5, <1>6, <1>7, <1>8 DEF CatalogInv

LEMMA CopyIndexesKeepsInv ==
    ASSUME CatalogInv, Mysql2EsIndexes PROVE CatalogInv'
<1>1. PICK i \in GoodsIds :
         /\ i \in DOMAIN copied
         /\ index' = [index EXCEPT ![i] = Document(copied[i])]
         /\ blurred' = IF copied[i] = goods[i] /\ ~Locked(i) THEN blurred \ {i} ELSE blurred \cup {i}
         /\ copied' = [j \in DOMAIN copied \ {i} |-> copied[j]]
         /\ UNCHANGED <<categories, brands, links, session, overtaken, goods>>
  BY DEF Mysql2EsIndexes, IsFirst, taxonomyVars
<1>2. /\ copied[i] \in GoodsRow
      /\ i \in Live(goods)
      /\ copied[i].category = goods[i].category
      /\ Document(copied[i]).category = copied[i].category
  BY <1>1, Documents DEF CatalogInv, CatalogTypeOK, CopiedStay, SameCategory
<1>3. Live(goods)' = Live(goods)
  BY <1>1 DEF Live
<1>4. \A j : Locked(j)' <=> Locked(j)
  BY <1>1 DEF Locked
<1>5. \A j \in GoodsIds : index'[j] = IF j = i THEN Document(copied[i]) ELSE index[j]
  BY <1>1 DEF CatalogInv, CatalogTypeOK
<1>6. CatalogTypeOK'
  BY <1>1, <1>2, <1>3, Documents DEF CatalogInv, CatalogTypeOK
<1>7. IndexAgrees'
  <2>1. \A j \in GoodsIds \ blurred' : j # i =>
           /\ j \in Live(goods)' /\ ~Locked(j)' => index'[j] = Document(goods'[j])
           /\ index'[j] # NoDocument => goods'[j].state \in {"live", "open"}
    BY <1>1, <1>3, <1>4, <1>5 DEF CatalogInv, IndexAgrees
  <2>2. goods'[i].state = "live"
    BY <1>1, <1>2 DEF Live
  <2>3. i \notin blurred' => index'[i] = Document(goods'[i])
    BY <1>1, <1>5 DEF Document
  <2> QED
    BY <2>1, <2>2, <2>3 DEF IndexAgrees, Document
<1>8. OwnRow' /\ Hooked'
  <2>1. OwnRow'
    BY <1>1 DEF CatalogInv, OwnRow
  <2>2. \A r \in Sessions : session[r].pc = "inserted" => session[r].id # i /\ session[r].id \in GoodsIds
    BY <1>2, GoodsFacts DEF Live, Open, GoodsPoints
  <2>3. \A r \in Sessions : session[r].pc = "updated" /\ session[r].id \notin blurred'
           => session[r].id # i /\ session[r].id \in GoodsIds \ blurred
    BY <1>1, GoodsFacts DEF Locked, GoodsPoints
  <2> QED
    BY <1>1, <1>5, <2>1, <2>2, <2>3 DEF CatalogInv, Hooked, Document
<1>9. CopiedStay' /\ SameCategory'
  <2>1. \A j \in Live(goods) : index'[j] # NoDocument => index'[j].category = goods[j].category
    BY <1>2, <1>5, GoodsFacts DEF CatalogInv, SameCategory
  <2> QED
    BY <1>1, <1>3, <2>1 DEF CatalogInv, CopiedStay, SameCategory
<1>10. StillThere'
  BY <1>1 DEF CatalogInv, StillThere, LookedUp, Live
<1> QED
  BY <1>6, <1>7, <1>8, <1>9, <1>10 DEF CatalogInv

LEMMA CatalogStutters == ASSUME CatalogInv, UNCHANGED catalogVars PROVE CatalogInv'
<1>1. UNCHANGED <<categories, brands, links, session, overtaken, goods, index, copied, blurred>>
  BY DEF catalogVars, taxonomyVars, goodsVars
<1>2. Live(goods)' = Live(goods) /\ Live(categories)' = Live(categories) /\ Live(brands)' = Live(brands)
  BY <1>1 DEF Live
<1>3. \A j : Locked(j)' <=> Locked(j)
  BY <1>1 DEF Locked
<1>4. CatalogTypeOK' /\ IndexAgrees'
  BY <1>1, <1>2, <1>3 DEF CatalogInv, CatalogTypeOK, IndexAgrees, Document
<1> QED
  BY <1>1, <1>2, <1>4
     DEF CatalogInv, OwnRow, Hooked, Document, CopiedStay, SameCategory, StillThere, LookedUp

LEMMA CatalogInvNext == CatalogInv /\ [CatalogNext]_catalogVars => CatalogInv'
<1> SUFFICES ASSUME CatalogInv, [CatalogNext]_catalogVars PROVE CatalogInv'
  OBVIOUS
<1>1. CASE \/ \E s \in Sessions : \E i \in GoodsIds : DeleteGoods(s, i)
           \/ UNCHANGED catalogVars
  BY <1>1, CatalogStutters DEF DeleteGoods
<1>2. ASSUME NEW s \in Sessions, CreateGoodsCommits(s) \/ CreateGoodsCommitFails(s) PROVE CatalogInv'
  BY <1>2, InsertEndsKeepsInv
<1> QED
  BY <1>1, <1>2, ReadsKeepInv, InsertKeepsInv, InsertFailsKeepsInv, UpdateKeepsInv,
     UpdateFailsKeepsInv, UpdateCommitsKeepsInv, UpdateCommitFailsKeepsInv, CopyKeepsInv,
     CopyIndexesKeepsInv, TaxonomyKeepsInv
     DEF CatalogNext, GoodsNext

-----------------------------------------------------------------------------
(* Theorems.                                                                  *)

LEMMA CatalogInvariant == CatalogSpec => []CatalogInv
<1>1. CatalogInit => CatalogInv
  BY CatalogInvInit
<1>2. CatalogInv /\ [CatalogNext]_catalogVars => CatalogInv'
  BY CatalogInvNext
<1> QED
  BY <1>1, <1>2, PTL DEF CatalogSpec

(* Categories, brands, links, goods and documents have their types, and what  *)
(* a call holds fits the row it is about.                                     *)
THEOREM CatalogTypeCorrect == CatalogSpec => []CatalogTypeOK
<1>1. CatalogInv => CatalogTypeOK
  BY DEF CatalogInv
<1> QED
  BY <1>1, CatalogInvariant, PTL

(* Table and index agree on every goods, but for those left by a transaction  *)
(* that did not commit, by a lost answer or by a copy that was overtaken.     *)
THEOREM IndexAgreement == CatalogSpec => []IndexAgrees
<1>1. CatalogInv => IndexAgrees
  BY DEF CatalogInv
<1> QED
  BY <1>1, CatalogInvariant, PTL

(* A page of GoodsList by category shows goods of that category only.         *)
THEOREM SearchIsTrueAlways == CatalogSpec => []SearchIsTrue
<1>1. CatalogInv => SearchIsTrue
  <2> SUFFICES ASSUME CatalogInv, NEW k \in CategoryIds, NEW page \in SUBSET Hits(k),
                      page # {}, NEW i \in Listed(page)
               PROVE  goods[i].category = k
    BY DEF SearchIsTrue
  <2>1. i \in Live(goods) /\ i \in Hits(k)
    BY DEF Listed
  <2> QED
    BY <2>1 DEF Hits, CatalogInv, SameCategory
<1> QED
  BY <1>1, CatalogInvariant, PTL

(* What a handler checked holds when it writes, unless another call wrote a   *)
(* category or a brand in between.                                            *)
THEOREM WhatIsCheckedHolds == CatalogSpec => ChecksHold
<1>1. CatalogInv => \A s \in Sessions \ overtaken :
         session[s] # Idle /\ session'[s] = Idle =>
            /\ session[s].pc = "branding" => Live(brands) = {}
            /\ session[s].pc \in {"linking", "inserted", "updated"} =>
                  /\ session[s].row.category \in Live(categories)
                  /\ session[s].row.brand \in Live(brands)
  BY DEF CatalogInv, StillThere, LookedUp, GoodsPoints
<1> QED
  BY <1>1, CatalogInvariant, PTL DEF ChecksHold

(* Only CreateBrand adds a brand; what UpdateBrand saves is deleted.          *)
THEOREM BrandsComeFromCreateBrand == CatalogSpec => OnlyCreateBrandAddsBrands
<1>1. CatalogInv /\ [CatalogNext]_catalogVars =>
         \/ Live(brands)' \subseteq Live(brands)
         \/ \E s \in Sessions : session[s].pc = "branding" /\ session'[s] = Idle
  <2> SUFFICES ASSUME CatalogInv, [CatalogNext]_catalogVars
               PROVE  \/ Live(brands)' \subseteq Live(brands)
                      \/ \E s \in Sessions : session[s].pc = "branding" /\ session'[s] = Idle
    OBVIOUS
  <2>1. CASE UNCHANGED brands
    BY <2>1 DEF Live
  <2>2. ASSUME NEW s \in Sessions, CreateBrandSaves(s)
        PROVE  \E r \in Sessions : session[r].pc = "branding" /\ session'[r] = Idle
    BY <2>2 DEF CreateBrandSaves, Done, CatalogInv, CatalogTypeOK
  <2>3. ASSUME NEW s \in Sessions, NEW b \in BrandIds, DeleteBrand(s, b) \/ UpdateBrand(s, b)
        PROVE  Live(brands)' \subseteq Live(brands)
    BY <2>3, StatesDiffer DEF DeleteBrand, UpdateBrand, SoftDelete, Live
  <2>4. ASSUME NEW s \in Sessions, UpdateBrandSaves(s) PROVE Live(brands)' \subseteq Live(brands)
    <3>1. session[s].row.state = "deleted"
      BY <2>4, SessionSorts, Sorts, StatesDiffer DEF UpdateBrandSaves, CatalogInv, GoodsPoints
    <3> QED
      BY <2>4, <3>1 DEF UpdateBrandSaves, Save, Live
  <2>5. CASE GoodsNext
    BY <2>1, <2>5
       DEF GoodsNext, CreateGoods, CreateGoodsInserts, CreateGoodsFails, CreateGoodsCommits,
           CreateGoodsCommitFails, UpdateGoods, UpdateGoodsWrites, UpdateGoodsFails,
           UpdateGoodsCommits, UpdateGoodsCommitFails, DeleteGoods, Mysql2Es,
           Mysql2EsIndexes, Mysql2EsPanics, catalogVars, taxonomyVars
  <2> QED
    BY <2>1, <2>2, <2>3, <2>4, <2>5
       DEF CatalogNext, TaxonomyNext, CreateCategory, DeleteCategory, CreateBrand,
           CreateBrandReadFails, CreateCategoryBrand, UpdateCategoryBrand, SaveLink, SaveFails, DeleteCategoryBrand,
           catalogVars, taxonomyVars
<1> QED
  BY <1>1, CatalogInvariant, PTL DEF CatalogSpec, OnlyCreateBrandAddsBrands
=============================================================================
