----------------------------- MODULE GoodsIndex -----------------------------
(* The goods of goods_srv and their documents in Elasticsearch                *)
(* (goods_srv/handler/goods.go, goods_srv/model/goods.go and Mysql2Es).  The  *)
(* hooks of a goods write its document inside the transaction that writes the *)
(* row, before the commit; GoodsList searches the documents and lists rows.   *)
(*                                                                            *)
(* A document that Elasticsearch wrote although its answer was lost is taken  *)
(* to be written at once.                                                     *)
EXTENDS Taxonomy

CONSTANTS
    GoodsIds,       \* ids of table goods (a bound)
    Names,          \* what a request may write in a goods
    NoDocument

ASSUME GoodsAssumption ==
    /\ GoodsIds \subseteq Int \ {0}
    /\ NoDocument \notin [category : CategoryIds, brand : BrandIds, name : Names]

VARIABLES
    goods,          \* table goods; an inserted row is "open" until its commit
    index,          \* the documents of index "goods"
    copied,         \* rows Mysql2Es has read and not indexed yet, by id
    blurred         \* goods whose last document is of no commit, or of a copy made stale

goodsVars == <<goods, index, copied, blurred>>
catalogVars == <<taxonomyVars, goodsVars>>

GoodsRow == [state : {"live"}, category : CategoryIds, brand : BrandIds, name : Names]

Document(row) == [category |-> row.category, brand |-> row.brand, name |-> row.name]

(* Before the first call: rows that were put in the table by other means and  *)
(* have no document yet.                                                      *)
GoodsInit ==
    /\ goods \in {table \in [GoodsIds -> GoodsRow \cup {Free}] :
                     /\ \A i \in Live(table) : \A j \in GoodsIds : j <= i => j \in Live(table)
                     /\ \A i \in Live(table) : table[i].brand \in Live(brands)
                     /\ \A i \in Live(table) : table[i].category \in Live(categories)}
    /\ index = [i \in GoodsIds |-> NoDocument]
    /\ copied = <<>>
    /\ blurred = Live(goods)

(* An UPDATE of goods i has not committed: its row is locked.                 *)
Locked(i) == \E s \in Sessions : session[s].pc = "updated" /\ session[s].id = i

-----------------------------------------------------------------------------
CreateGoods(s, k, b, n) ==
    /\ session[s] = Idle
    /\ k \in Live(categories)
    /\ b \in Live(brands)
    /\ Go(s, "creating", 0, [state |-> "live", category |-> k, brand |-> b, name |-> n])
    /\ KeepUp(s)
    /\ UNCHANGED <<categories, brands, links, goodsVars>>

(* The INSERT and its hook AfterCreate, which writes the document.            *)
CreateGoodsInserts(s) ==
    /\ session[s].pc = "creating"
    /\ \E i \in GoodsIds :
          /\ IsNextId(i, goods)
          /\ goods' = Save(goods, i, [state |-> "open"])
          /\ index' = [index EXCEPT ![i] = Document(session[s].row)]
          /\ Go(s, "inserted", i, session[s].row)
    /\ UNCHANGED <<categories, brands, links, overtaken, copied, blurred>>

(* Elasticsearch answers with an error, having written the document or not:   *)
(* rollback.  The id is used up.                                              *)
CreateGoodsFails(s) ==
    /\ session[s].pc = "creating"
    /\ \E i \in GoodsIds :
          /\ IsNextId(i, goods)
          /\ goods' = Save(goods, i, Deleted)
          /\ \/ UNCHANGED <<index, blurred>>
             \/ /\ index' = [index EXCEPT ![i] = Document(session[s].row)]
                /\ blurred' = blurred \cup {i}
    /\ Done(s)
    /\ KeepUp(s)
    /\ UNCHANGED <<categories, brands, links, copied>>

CreateGoodsCommits(s) ==
    /\ session[s].pc = "inserted"
    /\ goods' = Save(goods, session[s].id, session[s].row)
    /\ Done(s)
    /\ KeepUp(s)
    /\ UNCHANGED <<categories, brands, links, index, copied, blurred>>

(* The commit fails, or the process dies before it: the document stays.  The  *)
(* error of tx.Commit is dropped and the client is told that all went well.   *)
CreateGoodsCommitFails(s) ==
    /\ session[s].pc = "inserted"
    /\ goods' = Save(goods, session[s].id, Deleted)
    /\ blurred' = blurred \cup {session[s].id}
    /\ Done(s)
    /\ KeepUp(s)
    /\ UNCHANGED <<categories, brands, links, index, copied>>

-----------------------------------------------------------------------------
(* Mutant: the goods gets the category of the request.                        *)
UpdateGoodsRefiles(s, i, n) ==
    /\ session[s] = Idle
    /\ i \in Live(goods)
    /\ \E k \in Live(categories), b \in Live(brands) :
          Go(s, "changing", i, [goods[i] EXCEPT !.category = k, !.brand = b, !.name = n])
    /\ KeepUp(s)
    /\ UNCHANGED <<categories, brands, links, goodsVars>>

(* UpdateGoods reads the row and its category.  It looks the brand up by the  *)
(* struct goods.Brands, which is not loaded and so is no condition: whatever  *)
(* the request says, the goods goes to the first brand there is.              *)
UpdateGoods(s, i, n) ==
    /\ session[s] = Idle
    /\ i \in Live(goods)
    /\ goods[i].category \in Live(categories)
    /\ \E b \in BrandIds :
          /\ IsFirst(b, Live(brands))
          /\ Go(s, "changing", i, [goods[i] EXCEPT !.brand = b, !.name = n])
    /\ KeepUp(s)
    /\ UNCHANGED <<categories, brands, links, goodsVars>>

(* Mutant: the UPDATE does not wait for the row.                              *)
UpdateGoodsWritesAtOnce(s) ==
    LET i == session[s].id
    IN  /\ session[s].pc = "changing"
        /\ index[i] # NoDocument
        /\ index' = [index EXCEPT ![i] = Document(session[s].row)]
        /\ blurred' = blurred \ {i}
        /\ Go(s, "updated", i, session[s].row)
        /\ UNCHANGED <<categories, brands, links, overtaken, goods, copied>>

(* The UPDATE, which waits for the row's lock, and its hook AfterUpdate.      *)
UpdateGoodsWrites(s) ==
    LET i == session[s].id
    IN  /\ session[s].pc = "changing"
        /\ ~Locked(i)
        /\ index[i] # NoDocument
        /\ index' = [index EXCEPT ![i] = Document(session[s].row)]
        /\ blurred' = blurred \ {i}
        /\ Go(s, "updated", i, session[s].row)
        /\ UNCHANGED <<categories, brands, links, overtaken, goods, copied>>

(* Mutant: the error of the hook is dropped and the row is committed.         *)
UpdateGoodsFailsAndCommits(s) ==
    LET i == session[s].id
    IN  /\ session[s].pc = "changing"
        /\ ~Locked(i)
        /\ goods' = Save(goods, i, session[s].row)
        /\ UNCHANGED <<index, blurred>>
        /\ Done(s)
        /\ KeepUp(s)
        /\ UNCHANGED <<categories, brands, links, copied>>

(* Elasticsearch has no such document (404), or answers with another error:   *)
(* rollback.                                                                  *)
UpdateGoodsFails(s) ==
    LET i == session[s].id
    IN  /\ session[s].pc = "changing"
        /\ ~Locked(i)
        /\ \/ UNCHANGED <<index, blurred>>
           \/ /\ index[i] # NoDocument
              /\ index' = [index EXCEPT ![i] = Document(session[s].row)]
              /\ blurred' = blurred \cup {i}
        /\ Done(s)
        /\ KeepUp(s)
        /\ UNCHANGED <<categories, brands, links, goods, copied>>

UpdateGoodsCommits(s) ==
    /\ session[s].pc = "updated"
    /\ goods' = Save(goods, session[s].id, session[s].row)
    /\ Done(s)
    /\ KeepUp(s)
    /\ UNCHANGED <<categories, brands, links, index, copied, blurred>>

UpdateGoodsCommitFails(s) ==
    /\ session[s].pc = "updated"
    /\ blurred' = blurred \cup {session[s].id}
    /\ Done(s)
    /\ KeepUp(s)
    /\ UNCHANGED <<categories, brands, links, goods, index, copied>>

-----------------------------------------------------------------------------
(* DeleteGoods deletes through an empty struct, so AfterDelete deletes the    *)
(* document of goods 0.  There is none: the error rolls the DELETE back, and  *)
(* the handler, which looks at RowsAffected alone, says it went well.         *)
DeleteGoods(s, i) ==
    /\ session[s] = Idle
    /\ i \in Live(goods)
    /\ ~Locked(i)
    /\ UNCHANGED catalogVars

-----------------------------------------------------------------------------
(* Mysql2Es, run by hand: it reads every goods and then indexes one by one.   *)
Mysql2Es ==
    /\ copied = <<>>
    /\ copied' = [i \in Live(goods) |-> goods[i]]
    /\ UNCHANGED <<taxonomyVars, goods, index, blurred>>

Mysql2EsIndexes ==
    \E i \in GoodsIds :
        /\ IsFirst(i, DOMAIN copied)
        /\ index' = [index EXCEPT ![i] = Document(copied[i])]
        /\ blurred' = IF copied[i] = goods[i] /\ ~Locked(i)
                      THEN blurred \ {i} ELSE blurred \cup {i}
        /\ copied' = [j \in DOMAIN copied \ {i} |-> copied[j]]
        /\ UNCHANGED <<taxonomyVars, goods>>

(* Elasticsearch answers with an error: panic.                                *)
Mysql2EsPanics ==
    /\ copied' = <<>>
    /\ UNCHANGED <<taxonomyVars, goods, index, blurred>>

GoodsNext ==
    \/ \E s \in Sessions :
          \/ \E k \in CategoryIds, b \in BrandIds, n \in Names : CreateGoods(s, k, b, n)
          \/ CreateGoodsInserts(s)
          \/ CreateGoodsFails(s)
          \/ CreateGoodsCommits(s)
          \/ CreateGoodsCommitFails(s)
          \/ \E i \in GoodsIds, n \in Names : UpdateGoods(s, i, n)
          \/ UpdateGoodsWrites(s)
          \/ UpdateGoodsFails(s)
          \/ UpdateGoodsCommits(s)
          \/ UpdateGoodsCommitFails(s)
          \/ \E i \in GoodsIds : DeleteGoods(s, i)
    \/ Mysql2Es
    \/ Mysql2EsIndexes
    \/ Mysql2EsPanics

(* goods_srv, with every call of Taxonomy beside those on goods.              *)
CatalogInit == TaxonomyInit /\ GoodsInit
CatalogNext == GoodsNext \/ (TaxonomyNext /\ UNCHANGED goodsVars)
CatalogSpec == CatalogInit /\ [][CatalogNext]_catalogVars

-----------------------------------------------------------------------------
(* What GoodsList answers.                                                    *)

(* The hits of a search for category k.                                       *)
Hits(k) == {i \in GoodsIds : index[i] # NoDocument /\ index[i].category = k}

(* The rows listed for a page of hits: Find with an empty list of ids has no  *)
(* condition and finds every goods.                                           *)
Listed(page) == IF page = {} THEN Live(goods) ELSE Live(goods) \cap page

-----------------------------------------------------------------------------
(* Properties.                                                                *)

(* What a call of a goods handler may hold.                                   *)
PendingGoods ==
    [pc : {"creating"}, id : {0}, row : GoodsRow]
        \cup [pc : {"inserted", "changing", "updated"}, id : GoodsIds, row : GoodsRow]

(* The types of the variables, and what a call holds at each point: the row   *)
(* it inserted is open, the row it updated is there and locked by it alone.   *)
CatalogTypeOK ==
    /\ categories \in [CategoryIds -> {Free, Present, Deleted}]
    /\ brands \in [BrandIds -> {Free, Present, Deleted}]
    /\ links \in [LinkIds -> Link \cup {Free}]
    /\ goods \in [GoodsIds -> GoodsRow \cup {Free, Deleted, [state |-> "open"]}]
    /\ index \in [GoodsIds -> {NoDocument} \cup [category : CategoryIds, brand : BrandIds, name : Names]]
    /\ DOMAIN copied \subseteq GoodsIds
    /\ \A i \in DOMAIN copied : copied[i] \in GoodsRow
    /\ blurred \subseteq GoodsIds
    /\ session \in [Sessions -> Pending \cup PendingGoods]
    /\ overtaken \subseteq {s \in Sessions : session[s] # Idle}
    /\ \A s \in Sessions : session[s].pc = "inserted" => goods[session[s].id].state = "open"
    /\ \A s, r \in Sessions :
          session[s].pc = "updated" /\ session[r].pc = "updated" /\ session[s].id = session[r].id => s = r
    /\ \A s \in Sessions : session[s].pc \in {"changing", "updated"} => session[s].id \in Live(goods)

(* Every goods has a document, the document says what the row says, and no    *)
(* document is without a goods: except while a transaction is between its     *)
(* hook and its commit, and for the goods whose last document came from a     *)
(* transaction that did not commit, from a write whose answer was lost or     *)
(* from a copy of Mysql2Es that was overtaken.  The hooks keep it so because  *)
(* they run while the transaction holds the row's lock.                       *)
IndexAgrees ==
    \A i \in GoodsIds \ blurred :
        /\ i \in Live(goods) /\ ~Locked(i) => index[i] = Document(goods[i])
        /\ index[i] # NoDocument => goods[i].state \in {"live", "open"}

(* A page of a search by category shows goods of that category only, whatever *)
(* failed before: a goods never changes its category, so that even the        *)
(* documents of transactions that did not commit name the right one.          *)
SearchIsTrue ==
    \A k \in CategoryIds : \A page \in SUBSET Hits(k) :
        page # {} => \A i \in Listed(page) : goods[i].category = k
=============================================================================
