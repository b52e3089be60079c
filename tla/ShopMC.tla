------------------------------- MODULE ShopMC -------------------------------
(* A small instance of everything beside the stock, the cart and the order:   *)
(* the catalogue of goods_srv, the handlers that edit rows, accounts, pages,  *)
(* the life of a process and the span of a client stream.  These parts share  *)
(* no state, so a behaviour is about one of them, chosen at the start, and    *)
(* the others rest.                                                           *)
EXTENDS GoodsIndex, Editing, Accounts, Pages, Service, ClientSpan

VARIABLE part

vars == <<part, catalogVars, editingVars, accountsVars, pagesVars, serviceVars, spanVars>>

MCPageSizes == {-1, 0, 1, 2, 3, 10, 99, 100, 101, 250}

(* Part "goods" starts with one goods, which is not under the first brand, so *)
(* that UpdateGoods moves it; only the first category and the first brand are *)
(* deleted in it, those that UpdateGoods looks for.                           *)
GoodsStart ==
    /\ Live(categories) = CategoryIds
    /\ Live(brands) = BrandIds
    /\ Live(goods) = {1}
    /\ goods[1].category = 1
    /\ goods[1].brand = 2

GoodsPartNext ==
    \/ GoodsNext
    \/ UNCHANGED goodsVars /\ \E s \in Sessions : DeleteCategory(s, 1)
    \/ UNCHANGED goodsVars /\ \E s \in Sessions : DeleteBrand(s, 1)

TaxonomyPartNext == TaxonomyNext /\ UNCHANGED goodsVars

(* The parts that rest are in the one state they start from.                  *)
CatalogRests ==
    /\ Live(categories) = {} /\ Live(brands) = {} /\ Live(goods) = {}

EditingRests == kind = "banner" /\ Live(entries) = {}

PagesRests == count = 0 /\ size = 0

Init ==
    /\ CatalogInit
    /\ EditingInit
    /\ AccountsInit
    /\ PagesInit
    /\ ServiceInit
    /\ SpanInit
    /\ \/ part = "goods" /\ GoodsStart /\ EditingRests /\ PagesRests
       \/ part = "taxonomy" /\ Live(goods) = {} /\ EditingRests /\ PagesRests
       \/ part = "editing" /\ CatalogRests /\ PagesRests
       \/ part = "pages" /\ CatalogRests /\ EditingRests
       \/ part \in {"accounts", "service", "span"} /\ CatalogRests /\ EditingRests /\ PagesRests

CatalogStep ==
    /\ \/ part = "goods" /\ GoodsPartNext
       \/ part = "taxonomy" /\ TaxonomyPartNext
    /\ UNCHANGED <<part, editingVars, accountsVars, pagesVars, serviceVars, spanVars>>

EditingStep ==
    /\ part = "editing"
    /\ EditingNext
    /\ UNCHANGED <<part, catalogVars, accountsVars, pagesVars, serviceVars, spanVars>>

AccountsStep ==
    /\ part = "accounts"
    /\ AccountsNext
    /\ UNCHANGED <<part, catalogVars, editingVars, pagesVars, serviceVars, spanVars>>

ServiceStep ==
    /\ part = "service"
    /\ ServiceNext
    /\ UNCHANGED <<part, catalogVars, editingVars, accountsVars, pagesVars, spanVars>>

SpanStep ==
    /\ part = "span"
    /\ SpanNext
    /\ UNCHANGED <<part, catalogVars, editingVars, accountsVars, pagesVars, serviceVars>>

Next ==
    \/ CatalogStep
    \/ EditingStep
    \/ AccountsStep
    \/ ServiceStep
    \/ SpanStep

Spec == Init /\ [][Next]_vars /\ ServiceFairness /\ SpanFairness
=============================================================================
