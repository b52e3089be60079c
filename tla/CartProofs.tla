----------------------------- MODULE CartProofs -----------------------------
(* Proofs about Cart: its types, that a goods has one row unless it is torn,  *)
(* that an order takes out what it orders, and that the handlers implement    *)
(* CartPromise, for every number of calls, goods and rows.                    *)
(*                                                                            *)
(* The inductive invariant says what each call still knows of the goods it    *)
(* read, as long as no other call has written that goods since.               *)
EXTENDS Cart, TLAPS

NewItem(g, n) == [state |-> "live", goods |-> g, nums |-> n, checked |-> FALSE]

(* The struct of c is the row of its goods with what the request adds or sets.*)
Adds(c, i) == \E n \in Amounts : image[c] = [rows[i] EXCEPT !.nums = @ + n]
Sets(c, i) == \E n \in Levels, checked \in BOOLEAN :
                 image[c] = [rows[i] EXCEPT !.checked = checked, !.nums = IF n > 0 THEN n ELSE @]

FreshImage(c, g) ==
    \/ /\ at[c] = 0
       /\ RowsOf(g) = {}
       /\ pc[c] = "adding"
       /\ \E n \in Amounts : image[c] = NewItem(g, n)
    \/ /\ at[c] \in RowIds
       /\ IsFirst(at[c], RowsOf(g))
       /\ \/ pc[c] = "adding" /\ Adds(c, at[c])
          \/ pc[c] = "setting" /\ Sets(c, at[c])

(* The row whose id c holds is of the goods in its struct, or was deleted.    *)
HoldsRow(c) ==
    at[c] # 0 => /\ pc[c] \in {"adding", "setting"}
                 /\ \/ rows[at[c]] = Deleted
                    \/ rows[at[c]] \in Item /\ rows[at[c]].goods = image[c].goods

CallOK(c) ==
    /\ HoldsRow(c)
    /\ pc[c] \in {"adding", "setting"} /\ image[c].goods \notin touched[c]
          => FreshImage(c, image[c].goods)
    /\ pc[c] = "placing"
          => \A g \in Goods \ touched[c] : GoodsNums(g, ordered[c][g])

CartInv ==
    /\ CartTypeOK
    /\ OneRowPerGoods
    /\ \A c \in Calls : CallOK(c)
    /\ \A c, d \in Calls : at[c] = at[d] /\ at[c] # 0 => image[c].goods = image[d].goods

(* What a step leaves alone of goods h.                                       *)
SameRows(h) ==
    \A i \in RowIds : \/ rows'[i] = rows[i]
                      \/ i \notin RowsOf(h) /\ i \notin RowsOf(h)'

-----------------------------------------------------------------------------
LEMMA ItemFacts ==
    ASSUME CartTypeOK
    PROVE  /\ Live(rows) = {i \in RowIds : rows[i] \in Item}
           /\ \A i \in RowIds : rows[i] \notin Item => rows[i] = Free \/ rows[i] = Deleted
           /\ Free \notin Item /\ Deleted \notin Item /\ Free # Deleted
  <1>1. rows \in [RowIds -> Item \cup {Free, Deleted}]
    BY DEF CartTypeOK
  <1>2. Free.state = "free" /\ Deleted.state = "deleted"
    BY DEF Free, Deleted
  <1>3. \A r \in Item : r.state = "live"
    BY DEF Item
  <1>4. Free \notin Item /\ Deleted \notin Item /\ Free # Deleted
    BY <1>2, <1>3
  <1>5. DOMAIN rows = RowIds
    BY <1>1
  <1>6. \A i \in RowIds : rows[i].state = "live" <=> rows[i] \in Item
    BY <1>1, <1>2, <1>3
  <1>. QED
    BY <1>1, <1>4, <1>5, <1>6 DEF Live

LEMMA ItemFactsAfter ==
    ASSUME CartTypeOK', NEW h, NEW i \in RowsOf(h)'
    PROVE  i \in RowIds /\ rows'[i] \in Item /\ rows'[i].goods = h /\ h \in Goods
  <1>1. rows' \in [RowIds -> Item \cup {Free, Deleted}]
    BY DEF CartTypeOK
  <1>2. i \in DOMAIN rows' /\ rows'[i].state = "live" /\ rows'[i].goods = h
    BY DEF RowsOf, Live
  <1>3. rows'[i] # Free /\ rows'[i] # Deleted
    BY <1>2 DEF Free, Deleted
  <1>. QED
    BY <1>1, <1>2, <1>3 DEF Item

(* A goods whose rows a step leaves alone looks the same after it.            *)
LEMMA SameGoods ==
    ASSUME CartTypeOK, CartTypeOK', NEW h \in Goods, SameRows(h)
    PROVE  /\ RowsOf(h)' = RowsOf(h)
           /\ \A i \in RowsOf(h) : rows'[i] = rows[i]
           /\ CheckedOf(h)' = CheckedOf(h)
           /\ Seen(h)' = Seen(h)
  <1>1. Live(rows) \subseteq RowIds /\ (Live(rows))' \subseteq RowIds
    BY ItemFacts DEF CartTypeOK, Live
  <1>2. \A i \in RowIds : i \in RowsOf(h) <=> rows[i].state = "live" /\ rows[i].goods = h
    BY DEF RowsOf, Live, CartTypeOK
  <1>3. \A i \in RowIds : i \in RowsOf(h)' <=> rows'[i].state = "live" /\ rows'[i].goods = h
    BY DEF RowsOf, Live, CartTypeOK
  <1>4. RowsOf(h) \subseteq RowIds /\ RowsOf(h)' \subseteq RowIds
    BY <1>1 DEF RowsOf
  <1>5. RowsOf(h)' = RowsOf(h)
    BY <1>2, <1>3, <1>4 DEF SameRows
  <1>6. \A i \in RowsOf(h) : rows'[i] = rows[i]
    BY <1>4, <1>5 DEF SameRows
  <1>7. CheckedOf(h) = {i \in RowsOf(h) : rows[i].checked}
    BY DEF CheckedOf, Checked, RowsOf
  <1>8. CheckedOf(h)' = {i \in RowsOf(h)' : rows'[i].checked}
    BY DEF CheckedOf, Checked, RowsOf
  <1>9. CheckedOf(h)' = CheckedOf(h)
    BY <1>5, <1>6, <1>7, <1>8
  <1>10. {j \in RowIds : IsFirst(j, RowsOf(h)')} = {j \in RowIds : IsFirst(j, RowsOf(h))}
    BY <1>5
  <1>11. Entries(h)' = Entries(h)
    BY <1>6, <1>5 DEF Entries, IsFirst
  <1>12. Seen(h)' = Seen(h)
    BY <1>5, <1>11 DEF Seen
  <1>. QED
    BY <1>5, <1>6, <1>9, <1>12

(* A call keeps what it knows when another call writes only goods it then     *)
(* counts as touched.                                                         *)
LEMMA OthersKeep ==
    ASSUME CartTypeOK, CartTypeOK', NEW d \in Calls, CallOK(d),
           pc'[d] = pc[d], at'[d] = at[d], image'[d] = image[d], ordered'[d] = ordered[d],
           pc[d] # "idle" => touched[d] \subseteq touched'[d],
           pc[d] # "idle" => \A h \in Goods \ touched'[d] : SameRows(h),
           at[d] # 0 => \/ rows'[at[d]] = rows[at[d]]
                        \/ rows'[at[d]] = Deleted
                        \/ rows'[at[d]] \in Item /\ rows'[at[d]].goods = image[d].goods
    PROVE  CallOK(d)'
  <1>1. HoldsRow(d)'
    BY DEF CallOK, HoldsRow
  <1>2. ASSUME pc[d] \in {"adding", "setting"}, image[d].goods \notin touched'[d]
        PROVE  FreshImage(d, image[d].goods)'
    <2>. DEFINE g == image[d].goods
    <2>1. g \in Goods /\ image[d] \in Item
      BY <1>2 DEF CartTypeOK, Item
    <2>2. FreshImage(d, g)
      BY <1>2 DEF CallOK
    <2>3. RowsOf(g)' = RowsOf(g) /\ \A i \in RowsOf(g) : rows'[i] = rows[i]
      BY <1>2, <2>1, SameGoods
    <2>4. CASE at[d] = 0 /\ RowsOf(g) = {} /\ pc[d] = "adding" /\ \E n \in Amounts : image[d] = NewItem(g, n)
      BY <2>3, <2>4 DEF FreshImage, NewItem
    <2>5. CASE /\ at[d] \in RowIds
               /\ IsFirst(at[d], RowsOf(g))
               /\ (pc[d] = "adding" /\ Adds(d, at[d])) \/ (pc[d] = "setting" /\ Sets(d, at[d]))
      <3>1. at[d] \in RowsOf(g) /\ rows'[at[d]] = rows[at[d]] /\ IsFirst(at[d], RowsOf(g)')
        BY <2>3, <2>5 DEF IsFirst
      <3>2. Adds(d, at[d]) => Adds(d, at[d])'
        BY <3>1 DEF Adds
      <3>3. Sets(d, at[d]) => Sets(d, at[d])'
        BY <3>1 DEF Sets
      <3>. QED
        BY <2>5, <3>1, <3>2, <3>3 DEF FreshImage, IsFirst
    <2>. QED
      BY <2>2, <2>4, <2>5 DEF FreshImage
  <1>3. ASSUME pc[d] = "placing", NEW g \in Goods \ touched'[d]
        PROVE  GoodsNums(g, ordered[d][g])'
    <2>1. GoodsNums(g, ordered[d][g])
      BY <1>3 DEF CallOK
    <2>2. CheckedOf(g)' = CheckedOf(g) /\ \A i \in RowsOf(g) : rows'[i] = rows[i]
      BY <1>3, SameGoods
    <2>3. CheckedOf(g) \subseteq RowsOf(g)
      BY DEF CheckedOf, Checked, RowsOf
    <2>. QED
      BY <2>1, <2>2, <2>3 DEF GoodsNums
  <1>. QED
    BY <1>1, <1>2, <1>3 DEF CallOK

LEMMA RowsOfFacts ==
    ASSUME CartTypeOK, NEW g, NEW i \in RowsOf(g)
    PROVE  i \in RowIds /\ rows[i] \in Item /\ rows[i].goods = g
  BY ItemFacts DEF RowsOf

-----------------------------------------------------------------------------
(* Types.                                                                     *)

LEMMA AnswerType ==
    ASSUME CartTypeOK, NEW c \in Calls, NEW W \in SUBSET Goods, Answer(c, W),
           rows' \in [RowIds -> Item \cup {Free, Deleted}], torn' \subseteq Goods
    PROVE  CartTypeOK'
  BY DEF CartTypeOK, Answer

LEMMA HoldType ==
    ASSUME CartTypeOK, NEW c \in Calls, NEW s \in {"adding", "setting"}, Hold(c, s),
           NEW i \in RowIds \cup {0}, NEW r \in Item,
           at' = [at EXCEPT ![c] = i], image' = [image EXCEPT ![c] = r], UNCHANGED ordered
    PROVE  CartTypeOK'
  <1>1. r # Free
    BY ItemFacts
  <1>. QED
    BY <1>1 DEF CartTypeOK, Hold

LEMMA CreateCartItemType ==
    ASSUME CartInv, NEW c \in Calls, NEW g \in Goods, NEW n \in Amounts, CreateCartItem(c, g, n)
    PROVE  CartTypeOK'
  <1>. CartTypeOK /\ HoldsRow(c) /\ n \in Int
    BY CartAssumption DEF CartInv, CallOK
  <1>1. CASE \E i \in RowIds :
               /\ IsFirst(i, RowsOf(g))
               /\ at' = [at EXCEPT ![c] = i]
               /\ image' = [image EXCEPT ![c] = [rows[i] EXCEPT !.nums = @ + n]]
    <2>1. PICK i \in RowIds :
               /\ IsFirst(i, RowsOf(g))
               /\ at' = [at EXCEPT ![c] = i]
               /\ image' = [image EXCEPT ![c] = [rows[i] EXCEPT !.nums = @ + n]]
      BY <1>1
    <2>2. rows[i] \in Item
      BY <2>1, RowsOfFacts DEF IsFirst
    <2>3. [rows[i] EXCEPT !.nums = @ + n] \in Item
      BY <2>2 DEF Item
    <2>. QED
      BY <2>1, <2>3, HoldType DEF CreateCartItem
  <1>2. CASE UNCHANGED at /\ image' = [image EXCEPT ![c] =
                [state |-> "live", goods |-> g, nums |-> n, checked |-> FALSE]]
    <2>1. [state |-> "live", goods |-> g, nums |-> n, checked |-> FALSE] \in Item
      BY DEF Item
    <2>2. at \in [Calls -> RowIds \cup {0}] /\ at[c] = 0
      BY DEF CreateCartItem, HoldsRow, CartTypeOK
    <2>3. at' = [at EXCEPT ![c] = 0]
      BY <1>2, <2>2
    <2>. QED
      BY <1>2, <2>1, <2>3, HoldType DEF CreateCartItem
  <1>. QED
    BY <1>1, <1>2 DEF CreateCartItem

LEMMA ReadFailsType ==
    ASSUME CartInv, NEW c \in Calls, NEW g \in Goods, NEW n \in Amounts,
           CreateCartItemReadFails(c, g, n)
    PROVE  CartTypeOK'
  <1>. CartTypeOK /\ n \in Int
    BY CartAssumption DEF CartInv
  <1>1. NewItem(g, n) \in Item
    BY DEF NewItem, Item
  <1>2. NewItem(g, n) # Free
    BY <1>1, ItemFacts
  <1>3. image' = [image EXCEPT ![c] = NewItem(g, n)]
    BY DEF CreateCartItemReadFails, NewItem
  <1>. QED
    BY <1>1, <1>2, <1>3 DEF CartTypeOK, CreateCartItemReadFails

LEMMA UpdateCartItemType ==
    ASSUME CartInv, NEW c \in Calls, NEW g \in Goods, NEW n \in Levels, NEW k \in BOOLEAN,
           UpdateCartItem(c, g, n, k)
    PROVE  CartTypeOK'
  <1>. CartTypeOK /\ n \in Int
    BY CartAssumption DEF CartInv
  <1>1. PICK i \in RowIds :
          /\ IsFirst(i, RowsOf(g))
          /\ at' = [at EXCEPT ![c] = i]
          /\ image' = [image EXCEPT ![c] = [rows[i] EXCEPT !.checked = k,
                                                           !.nums = IF n > 0 THEN n ELSE @]]
    BY DEF UpdateCartItem
  <1>2. rows[i] \in Item
    BY <1>1, RowsOfFacts DEF IsFirst
  <1>3. [rows[i] EXCEPT !.checked = k, !.nums = IF n > 0 THEN n ELSE @] \in Item
    BY <1>2 DEF Item
  <1>. QED
    BY <1>1, <1>3, HoldType DEF UpdateCartItem

LEMMA SaveItemType ==
    ASSUME CartTypeOK, NEW c \in Calls, pc[c] \in {"adding", "setting"}, SaveItem(c)
    PROVE  CartTypeOK' /\ image[c] \in Item /\ image[c].goods \in Goods
  <1>1. image[c] \in Item /\ image[c].goods \in Goods
    BY DEF CartTypeOK, Item
  <1>2. rows' \in [RowIds -> Item \cup {Free, Deleted}] /\ torn' \subseteq Goods
    BY <1>1 DEF SaveItem, Save, CartTypeOK
  <1>. QED
    BY <1>1, <1>2, AnswerType DEF SaveItem

LEMMA SoftDeleteType ==
    ASSUME CartTypeOK, NEW S
    PROVE  SoftDelete(rows, S) \in [RowIds -> Item \cup {Free, Deleted}]
  BY DEF CartTypeOK, SoftDelete

LEMMA PlaceOrderType ==
    ASSUME CartTypeOK, NEW c \in Calls, PlaceOrder(c)
    PROVE  CartTypeOK'
  <1>1. PICK amounts \in [Goods -> {0} \cup {rows[i].nums : i \in Checked}] :
          ordered' = [ordered EXCEPT ![c] = amounts]
    BY DEF PlaceOrder
  <1>2. \A i \in Checked : rows[i].nums \in Int
    BY ItemFacts DEF Checked, Item
  <1>3. amounts \in [Goods -> Int]
    BY <1>1, <1>2
  <1>. QED
    BY <1>1, <1>3 DEF CartTypeOK, PlaceOrder, Hold

LEMMA TypeStep ==
    ASSUME CartInv, [CartNext]_cartVars
    PROVE  CartTypeOK'
  <1>. CartTypeOK
    BY DEF CartInv
  <1>1. CASE UNCHANGED cartVars
    BY <1>1 DEF cartVars, CartTypeOK
  <1>2. ASSUME NEW c \in Calls, NEW g \in Goods, DeleteCartItem(c, g)
        PROVE  CartTypeOK'
    <2>1. torn' \subseteq Goods
      BY <1>2 DEF DeleteCartItem, CartTypeOK
    <2>. QED
      BY <1>2, <2>1, SoftDeleteType, AnswerType DEF DeleteCartItem
  <1>3. ASSUME NEW c \in Calls, PlaceOrderCommits(c)
        PROVE  CartTypeOK'
    <2>1. {rows[i].goods : i \in Checked} \subseteq Goods
      BY ItemFacts DEF Checked, Item
    <2>2. torn' \subseteq Goods
      BY <1>3 DEF PlaceOrderCommits, CartTypeOK
    <2>. QED
      BY <1>3, <2>1, <2>2, SoftDeleteType, AnswerType DEF PlaceOrderCommits
  <1>4. ASSUME NEW c \in Calls, SaveFails(c) \/ PlaceOrderRollsBack(c)
        PROVE  CartTypeOK'
    BY <1>4, AnswerType DEF SaveFails, PlaceOrderRollsBack, CartTypeOK
  <1>5. ASSUME NEW c \in Calls, CreateCartItemSaves(c) \/ UpdateCartItemSaves(c)
        PROVE  CartTypeOK'
    BY <1>5, SaveItemType DEF CreateCartItemSaves, UpdateCartItemSaves
  <1>. QED
    BY <1>1, <1>2, <1>3, <1>4, <1>5, CreateCartItemType, ReadFailsType, UpdateCartItemType,
       PlaceOrderType
       DEF CartNext

-----------------------------------------------------------------------------
(* The reads: they write nothing, and the call that reads knows what it read. *)

LEMMA ReadStep ==
    ASSUME CartInv, CartTypeOK', NEW c \in Calls, rows' = rows, torn' = torn, CallOK(c)',
           \A d \in Calls \ {c} : /\ pc'[d] = pc[d] /\ at'[d] = at[d] /\ image'[d] = image[d]
                                 /\ ordered'[d] = ordered[d] /\ touched'[d] = touched[d],
           at'[c] # 0 => rows[at'[c]] \in Item /\ rows[at'[c]].goods = image'[c].goods
    PROVE  CartInv'
  <1>. CartTypeOK /\ OneRowPerGoods
    BY DEF CartInv
  <1>1. OneRowPerGoods'
    BY DEF OneRowPerGoods, Live
  <1>2. ASSUME NEW d \in Calls \ {c}
        PROVE  CallOK(d)'
    <2>1. CallOK(d)
      BY DEF CartInv
    <2>2. \A h \in Goods : SameRows(h)
      BY DEF SameRows
    <2>. QED
      BY <2>1, <2>2, OthersKeep
  <1>3. ASSUME NEW d \in Calls \ {c}, at'[c] = at'[d], at'[c] # 0
        PROVE  image'[c].goods = image'[d].goods
    <2>1. HoldsRow(d) /\ at[d] = at'[c]
      BY <1>3 DEF CartInv, CallOK
    <2>2. rows[at[d]] # Deleted
      BY <1>3, <2>1, ItemFacts
    <2>. QED
      BY <1>3, <2>1, <2>2 DEF HoldsRow
  <1>4. \A d, e \in Calls : at'[d] = at'[e] /\ at'[d] # 0 => image'[d].goods = image'[e].goods
    <2>. SUFFICES ASSUME NEW d \in Calls, NEW e \in Calls, at'[d] = at'[e], at'[d] # 0
                  PROVE  image'[d].goods = image'[e].goods
      OBVIOUS
    <2>1. CASE d # c /\ e # c
      BY <2>1 DEF CartInv
    <2>. QED
      BY <1>3, <2>1
  <1>. QED
    BY <1>1, <1>2, <1>4 DEF CartInv

LEMMA CreateCartItemStep ==
    ASSUME CartInv, NEW c \in Calls, NEW g \in Goods, NEW n \in Amounts, CreateCartItem(c, g, n)
    PROVE  CartInv'
  <1>. CartTypeOK /\ HoldsRow(c)
    BY DEF CartInv, CallOK
  <1>1. CartTypeOK' /\ rows' = rows /\ torn' = torn /\ pc'[c] = "adding" /\ at[c] = 0
    BY CreateCartItemType DEF CreateCartItem, Hold, CartTypeOK, HoldsRow
  <1>2. RowsOf(g)' = RowsOf(g)
    BY <1>1 DEF RowsOf, Live
  <1>3. CASE \E i \in RowIds :
               /\ IsFirst(i, RowsOf(g))
               /\ at' = [at EXCEPT ![c] = i]
               /\ image' = [image EXCEPT ![c] = [rows[i] EXCEPT !.nums = @ + n]]
    <2>1. PICK i \in RowIds :
               /\ IsFirst(i, RowsOf(g))
               /\ at' = [at EXCEPT ![c] = i]
               /\ image' = [image EXCEPT ![c] = [rows[i] EXCEPT !.nums = @ + n]]
      BY <1>3
    <2>2. rows[i] \in Item /\ rows[i].goods = g
      BY <2>1, RowsOfFacts DEF IsFirst
    <2>3. at'[c] = i /\ image'[c] = [rows[i] EXCEPT !.nums = @ + n]
      BY <2>1 DEF CartTypeOK
    <2>4. image'[c].goods = g
      BY <2>2, <2>3 DEF Item
    <2>5. Adds(c, i)'
      BY <1>1, <2>3 DEF Adds
    <2>6. FreshImage(c, g)'
      BY <1>1, <1>2, <2>1, <2>3, <2>5 DEF FreshImage, Adds, IsFirst
    <2>7. CallOK(c)'
      BY <1>1, <2>2, <2>3, <2>4, <2>6 DEF CallOK, HoldsRow
    <2>. QED
      BY <1>1, <2>2, <2>3, <2>4, <2>7, ReadStep DEF CreateCartItem, Hold, CartTypeOK
  <1>4. CASE /\ RowsOf(g) = {}
             /\ UNCHANGED at
             /\ image' = [image EXCEPT ![c] =
                   [state |-> "live", goods |-> g, nums |-> n, checked |-> FALSE]]
    <2>1. at'[c] = 0 /\ image'[c] = NewItem(g, n) /\ image'[c].goods = g
      BY <1>1, <1>4 DEF CartTypeOK, NewItem
    <2>2. FreshImage(c, g)'
      BY <1>1, <1>2, <1>4, <2>1 DEF FreshImage, NewItem
    <2>3. CallOK(c)'
      BY <1>1, <2>1, <2>2 DEF CallOK, HoldsRow
    <2>. QED
      BY <1>1, <1>4, <2>1, <2>3, ReadStep DEF CreateCartItem, Hold, CartTypeOK
  <1>. QED
    BY <1>3, <1>4 DEF CreateCartItem

(* A call whose read failed counts the goods as touched: it knows nothing.    *)
LEMMA ReadFailsStep ==
    ASSUME CartInv, NEW c \in Calls, NEW g \in Goods, NEW n \in Amounts,
           CreateCartItemReadFails(c, g, n)
    PROVE  CartInv'
  <1>. CartTypeOK /\ HoldsRow(c)
    BY DEF CartInv, CallOK
  <1>1. CartTypeOK' /\ rows' = rows /\ torn' = torn /\ pc'[c] = "adding" /\ at[c] = 0
    BY ReadFailsType DEF CreateCartItemReadFails, CartTypeOK, HoldsRow
  <1>2. at'[c] = 0 /\ image'[c].goods = g /\ touched'[c] = {g}
    BY <1>1 DEF CreateCartItemReadFails, CartTypeOK
  <1>3. CallOK(c)'
    BY <1>1, <1>2 DEF CallOK, HoldsRow
  <1>. QED
    BY <1>1, <1>2, <1>3, ReadStep DEF CreateCartItemReadFails, CartTypeOK

LEMMA UpdateCartItemStep ==
    ASSUME CartInv, NEW c \in Calls, NEW g \in Goods, NEW n \in Levels, NEW k \in BOOLEAN,
           UpdateCartItem(c, g, n, k)
    PROVE  CartInv'
  <1>. CartTypeOK
    BY DEF CartInv
  <1>0. CartTypeOK'
    BY UpdateCartItemType
  <1>1. CartTypeOK' /\ rows' = rows /\ torn' = torn /\ pc'[c] = "setting"
    BY <1>0 DEF UpdateCartItem, Hold, CartTypeOK
  <1>2. RowsOf(g)' = RowsOf(g)
    BY <1>1 DEF RowsOf, Live
  <1>3. PICK i \in RowIds :
          /\ IsFirst(i, RowsOf(g))
          /\ at' = [at EXCEPT ![c] = i]
          /\ image' = [image EXCEPT ![c] = [rows[i] EXCEPT !.checked = k,
                                                           !.nums = IF n > 0 THEN n ELSE @]]
    BY DEF UpdateCartItem
  <1>4. rows[i] \in Item /\ rows[i].goods = g
    BY <1>3, RowsOfFacts DEF IsFirst
  <1>5. at'[c] = i /\ image'[c] = [rows[i] EXCEPT !.checked = k, !.nums = IF n > 0 THEN n ELSE @]
    BY <1>3 DEF CartTypeOK
  <1>6. image'[c].goods = g
    BY <1>4, <1>5 DEF Item
  <1>7. Sets(c, i)'
    BY <1>1, <1>5 DEF Sets
  <1>8. FreshImage(c, g)'
    BY <1>1, <1>2, <1>3, <1>5, <1>7 DEF FreshImage, Sets, IsFirst
  <1>9. CallOK(c)'
    BY <1>1, <1>4, <1>5, <1>6, <1>8 DEF CallOK, HoldsRow
  <1>. QED
    BY <1>1, <1>4, <1>5, <1>6, <1>9, ReadStep DEF UpdateCartItem, Hold, CartTypeOK

LEMMA PlaceOrderStep ==
    ASSUME CartInv, NEW c \in Calls, PlaceOrder(c)
    PROVE  CartInv'
  <1>. CartTypeOK /\ HoldsRow(c)
    BY DEF CartInv, CallOK
  <1>1. CartTypeOK' /\ rows' = rows /\ torn' = torn /\ pc'[c] = "placing" /\ at[c] = 0 /\ at'[c] = 0
    BY PlaceOrderType DEF PlaceOrder, Hold, CartTypeOK, HoldsRow
  <1>2. PICK amounts \in [Goods -> {0} \cup {rows[i].nums : i \in Checked}] :
          /\ \A g \in Goods : GoodsNums(g, amounts[g])
          /\ ordered' = [ordered EXCEPT ![c] = amounts]
    BY DEF PlaceOrder
  <1>3. ordered'[c] = amounts
    BY <1>2 DEF CartTypeOK
  <1>4. ASSUME NEW g \in Goods
        PROVE  GoodsNums(g, ordered[c][g])'
    <2>1. SameRows(g)
      BY <1>1 DEF SameRows
    <2>2. CheckedOf(g)' = CheckedOf(g)
      BY <1>1, <2>1, SameGoods
    <2>. QED
      BY <1>1, <1>2, <1>3, <2>2 DEF GoodsNums
  <1>5. CallOK(c)'
    BY <1>1, <1>4 DEF CallOK, HoldsRow
  <1>. QED
    BY <1>1, <1>2, <1>5, ReadStep DEF PlaceOrder, Hold, CartTypeOK

-----------------------------------------------------------------------------
(* The writes: whoever waits with a struct of a goods that is written counts  *)
(* it as touched from then on.                                                *)

LEMMA AnswerStep ==
    ASSUME CartInv, CartTypeOK', NEW c \in Calls, NEW W \in SUBSET Goods, Answer(c, W),
           \A h \in Goods \ W : SameRows(h),
           \A d \in Calls \ {c} : at[d] # 0 =>
              \/ rows'[at[d]] = rows[at[d]]
              \/ rows'[at[d]] = Deleted
              \/ rows'[at[d]] \in Item /\ rows'[at[d]].goods = image[d].goods
    PROVE  /\ \A d \in Calls : CallOK(d)'
           /\ \A d, e \in Calls : at'[d] = at'[e] /\ at'[d] # 0 => image'[d].goods = image'[e].goods
  <1>. CartTypeOK
    BY DEF CartInv
  <1>1. pc'[c] = "idle" /\ at'[c] = 0
    BY DEF Answer, CartTypeOK
  <1>2. CallOK(c)'
    BY <1>1 DEF CallOK, HoldsRow
  <1>3. ASSUME NEW d \in Calls \ {c}
        PROVE  /\ pc'[d] = pc[d] /\ at'[d] = at[d] /\ image'[d] = image[d] /\ ordered'[d] = ordered[d]
               /\ pc[d] # "idle" => touched'[d] = touched[d] \cup W
    BY <1>3 DEF Answer, CartTypeOK
  <1>4. ASSUME NEW d \in Calls \ {c}
        PROVE  CallOK(d)'
    <2>1. CallOK(d)
      BY DEF CartInv
    <2>2. pc[d] # "idle" => \A h \in Goods \ touched'[d] : SameRows(h)
      BY <1>3
    <2>. QED
      BY <1>3, <2>1, <2>2, OthersKeep
  <1>. QED
    BY <1>1, <1>2, <1>3, <1>4 DEF CartInv

LEMMA OneRowByGoods ==
    OneRowPerGoods <=> \A h : h \notin torn => \A i, j \in RowsOf(h) : i = j
  BY DEF OneRowPerGoods, RowsOf

LEMMA SaveItemStep ==
    ASSUME CartInv, NEW c \in Calls, pc[c] \in {"adding", "setting"}, SaveItem(c)
    PROVE  CartInv'
  <1>. DEFINE g == image[c].goods
  <1>. CartTypeOK /\ CallOK(c)
    BY DEF CartInv
  <1>1. CartTypeOK' /\ image[c] \in Item /\ g \in Goods
    BY SaveItemType
  <1>2. PICK i \in RowIds :
          /\ IF at[c] = 0 THEN IsNextId(i, rows) ELSE i = at[c]
          /\ rows' = Save(rows, i, image[c])
    BY DEF SaveItem
  <1>3. rows'[i] = image[c] /\ \A j \in RowIds \ {i} : rows'[j] = rows[j]
    BY <1>2 DEF Save, CartTypeOK
  <1>4. CASE at[c] = 0
    <2>1. rows[i].state = "free"
      BY <1>2, <1>4 DEF IsNextId, IsFirst
    <2>2. rows[i] = Free
      BY <2>1, ItemFacts DEF Item, Deleted
    <2>3. QED
      <3>1. \A d \in Calls : at[d] # i
        <4>. SUFFICES ASSUME NEW d \in Calls, at[d] = i
                      PROVE  FALSE
          OBVIOUS
        <4>1. at[d] # 0
          BY CartAssumption
        <4>2. HoldsRow(d)
          BY DEF CartInv, CallOK
        <4>. QED
          BY <2>2, <4>1, <4>2, ItemFacts DEF HoldsRow
      <3>2. \A h \in Goods \ {g} : SameRows(h)
        <4>. SUFFICES ASSUME NEW h \in Goods \ {g}
                      PROVE  SameRows(h)
          OBVIOUS
        <4>1. i \notin RowsOf(h)
          BY <2>2, RowsOfFacts, ItemFacts
        <4>2. i \notin RowsOf(h)'
          BY <1>3 DEF RowsOf
        <4>. QED
          BY <1>3, <4>1, <4>2 DEF SameRows
      <3>3. \A d \in Calls \ {c} : at[d] # 0 => rows'[at[d]] = rows[at[d]]
        BY <1>3, <3>1 DEF CartTypeOK
      <3>4. /\ \A d \in Calls : CallOK(d)'
            /\ \A d, e \in Calls : at'[d] = at'[e] /\ at'[d] # 0 => image'[d].goods = image'[e].goods
        BY <1>1, <3>2, <3>3, AnswerStep DEF SaveItem
      <3>5. ASSUME NEW h, h \notin torn', NEW j \in RowsOf(h)', NEW k \in RowsOf(h)'
            PROVE  j = k
        <4>1. h \in Goods
          BY <1>1, <3>5, ItemFactsAfter
        <4>2. h \notin torn
          BY <3>5 DEF SaveItem
        <4>3. CASE h # g
          BY <1>1, <3>2, <3>5, <4>1, <4>2, <4>3, SameGoods, OneRowByGoods DEF CartInv
        <4>4. CASE h = g
          <5>1. g \notin touched[c]
            BY <3>5, <4>4 DEF SaveItem
          <5>2. RowsOf(g) = {}
            BY <1>4, <5>1, CartAssumption DEF CallOK, FreshImage
          <5>3. j \in RowIds /\ k \in RowIds
            BY <1>1, <3>5, ItemFactsAfter
          <5>4. \A l \in RowIds \ {i} : l \notin RowsOf(h)'
            BY <1>3, <4>4, <5>2 DEF RowsOf, Live, CartTypeOK
          <5>. QED
            BY <3>5, <4>4, <5>3, <5>4
        <4>. QED
          BY <4>3, <4>4
      <3>6. OneRowPerGoods'
        BY <3>5 DEF OneRowPerGoods, RowsOf
      <3>. QED
        BY <1>1, <3>4, <3>6 DEF CartInv
  <1>5. CASE at[c] # 0
    <2>1. i = at[c]
      BY <1>2, <1>5
    <2>2. rows[i] = Deleted \/ (rows[i] \in Item /\ rows[i].goods = g)
      BY <1>5, <2>1 DEF CallOK, HoldsRow
    <2>3. \A h \in Goods \ {g} : SameRows(h)
      <3>. SUFFICES ASSUME NEW h \in Goods \ {g}
                    PROVE  SameRows(h)
        OBVIOUS
      <3>1. i \notin RowsOf(h)
        BY <2>2, RowsOfFacts, ItemFacts
      <3>2. i \notin RowsOf(h)'
        BY <1>3 DEF RowsOf
      <3>. QED
        BY <1>3, <3>1, <3>2 DEF SameRows
    <2>4. ASSUME NEW d \in Calls \ {c}, at[d] # 0
          PROVE  \/ rows'[at[d]] = rows[at[d]]
                 \/ rows'[at[d]] \in Item /\ rows'[at[d]].goods = image[d].goods
      <3>1. CASE at[d] = i
        BY <1>1, <1>3, <2>1, <2>4, <3>1 DEF CartInv
      <3>2. CASE at[d] # i
        BY <1>3, <2>4, <3>2 DEF CartTypeOK
      <3>. QED
        BY <3>1, <3>2
    <2>5. /\ \A d \in Calls : CallOK(d)'
          /\ \A d, e \in Calls : at'[d] = at'[e] /\ at'[d] # 0 => image'[d].goods = image'[e].goods
      BY <1>1, <2>3, <2>4, AnswerStep DEF SaveItem
    <2>6. ASSUME NEW h, h \notin torn', NEW j \in RowsOf(h)', NEW k \in RowsOf(h)'
          PROVE  j = k
      <3>1. h \in Goods
        BY <1>1, <2>6, ItemFactsAfter
      <3>2. h \notin torn
        BY <2>6 DEF SaveItem
      <3>3. CASE h # g
        BY <1>1, <2>3, <2>6, <3>1, <3>2, <3>3, SameGoods, OneRowByGoods DEF CartInv
      <3>4. CASE h = g
        <4>1. g \notin touched[c]
          BY <2>6, <3>4 DEF SaveItem
        <4>2. i \in RowsOf(g)
          BY <1>5, <2>1, <4>1 DEF CallOK, FreshImage, IsFirst
        <4>3. j \in RowIds /\ k \in RowIds
          BY <1>1, <2>6, ItemFactsAfter
        <4>4. \A l \in RowIds \ {i} : l \in RowsOf(h)' => l \in RowsOf(h)
          BY <1>3 DEF RowsOf, Live, CartTypeOK
        <4>. QED
          BY <2>6, <3>2, <3>4, <4>2, <4>3, <4>4, OneRowByGoods DEF CartInv
      <3>. QED
        BY <3>3, <3>4
    <2>7. OneRowPerGoods'
      BY <2>6 DEF OneRowPerGoods, RowsOf
    <2>. QED
      BY <1>1, <2>5, <2>7 DEF CartInv
  <1>. QED
    BY <1>4, <1>5

(* A soft delete of the rows S, of the goods W. *)
LEMMA SoftDeleteRows ==
    ASSUME CartTypeOK, NEW S, rows' = SoftDelete(rows, S)
    PROVE  /\ \A i \in RowIds : rows'[i] = IF i \in S THEN Deleted ELSE rows[i]
           /\ \A h : RowsOf(h)' = RowsOf(h) \ S
           /\ \A h : RowsOf(h) \cap S = {} => SameRows(h)
  <1>1. DOMAIN rows = RowIds
    BY DEF CartTypeOK
  <1>2. \A i \in RowIds : rows'[i] = IF i \in S THEN Deleted ELSE rows[i]
    BY <1>1 DEF SoftDelete
  <1>3. DOMAIN rows' = RowIds
    BY <1>1 DEF SoftDelete
  <1>4. \A h : RowsOf(h)' = RowsOf(h) \ S
    BY <1>1, <1>2, <1>3 DEF RowsOf, Live, Deleted
  <1>5. \A h : RowsOf(h) \cap S = {} => SameRows(h)
    BY <1>2, <1>4 DEF SameRows
  <1>. QED
    BY <1>2, <1>4, <1>5

LEMMA SoftDeleteStep ==
    ASSUME CartInv, CartTypeOK', NEW c \in Calls, NEW W \in SUBSET Goods, NEW S,
           Answer(c, W), rows' = SoftDelete(rows, S),
           \A h \in Goods \ W : RowsOf(h) \cap S = {},
           \A h \in torn \ torn' : RowsOf(h) \subseteq S
    PROVE  CartInv'
  <1>. CartTypeOK
    BY DEF CartInv
  <1>1. \A h \in Goods \ W : SameRows(h)
    BY SoftDeleteRows
  <1>2. \A d \in Calls : at[d] # 0 => rows'[at[d]] = rows[at[d]] \/ rows'[at[d]] = Deleted
    BY SoftDeleteRows DEF CartTypeOK
  <1>3. /\ \A d \in Calls : CallOK(d)'
        /\ \A d, e \in Calls : at'[d] = at'[e] /\ at'[d] # 0 => image'[d].goods = image'[e].goods
    BY <1>1, <1>2, AnswerStep
  <1>4. ASSUME NEW h, h \notin torn', NEW i \in RowsOf(h)', NEW j \in RowsOf(h)'
        PROVE  i = j
    <2>1. i \in RowsOf(h) \ S /\ j \in RowsOf(h) \ S
      BY SoftDeleteRows
    <2>2. h \notin torn
      BY <1>4, <2>1
    <2>. QED
      BY <2>1, <2>2, OneRowByGoods DEF CartInv
  <1>5. OneRowPerGoods'
    BY <1>4 DEF OneRowPerGoods, RowsOf
  <1>. QED
    BY <1>3, <1>5 DEF CartInv

LEMMA DeleteCartItemStep ==
    ASSUME CartInv, NEW c \in Calls, NEW g \in Goods, DeleteCartItem(c, g), CartTypeOK'
    PROVE  CartInv'
  <1>1. \A h \in Goods \ {g} : RowsOf(h) \cap RowsOf(g) = {}
    BY DEF RowsOf
  <1>2. \A h \in torn \ torn' : RowsOf(h) \subseteq RowsOf(g)
    BY DEF DeleteCartItem
  <1>. QED
    BY <1>1, <1>2, SoftDeleteStep DEF DeleteCartItem

LEMMA PlaceOrderCommitsStep ==
    ASSUME CartInv, NEW c \in Calls, PlaceOrderCommits(c), CartTypeOK'
    PROVE  CartInv'
  <1>. DEFINE W == {rows[i].goods : i \in Checked}
  <1>. CartTypeOK
    BY DEF CartInv
  <1>1. W \subseteq Goods
    BY ItemFacts DEF Checked, Item
  <1>2. \A h \in Goods \ W : RowsOf(h) \cap Checked = {}
    BY DEF RowsOf
  <1>3. \A h \in torn \ torn' : RowsOf(h) \subseteq Checked
    BY DEF PlaceOrderCommits
  <1>4. Answer(c, W) /\ rows' = SoftDelete(rows, Checked)
    BY DEF PlaceOrderCommits
  <1>. HIDE DEF W
  <1>. QED
    BY <1>1, <1>2, <1>3, <1>4, SoftDeleteStep

LEMMA NoWriteStep ==
    ASSUME CartInv, NEW c \in Calls, SaveFails(c) \/ PlaceOrderRollsBack(c), CartTypeOK'
    PROVE  CartInv'
  <1>. CartTypeOK
    BY DEF CartInv
  <1>1. rows' = rows /\ torn' = torn /\ Answer(c, {})
    BY DEF SaveFails, PlaceOrderRollsBack
  <1>2. \A h \in Goods \ {} : SameRows(h)
    BY <1>1 DEF SameRows
  <1>3. /\ \A d \in Calls : CallOK(d)'
        /\ \A d, e \in Calls : at'[d] = at'[e] /\ at'[d] # 0 => image'[d].goods = image'[e].goods
    BY <1>1, <1>2, AnswerStep
  <1>4. OneRowPerGoods'
    BY <1>1 DEF CartInv, OneRowPerGoods, Live
  <1>. QED
    BY <1>3, <1>4 DEF CartInv

LEMMA StutterStep ==
    ASSUME CartInv, UNCHANGED cartVars
    PROVE  CartInv'
  <1>. CartTypeOK
    BY DEF CartInv
  <1>1. CartTypeOK'
    BY DEF CartTypeOK, cartVars
  <1>2. OneRowPerGoods'
    BY DEF CartInv, OneRowPerGoods, Live, cartVars
  <1>3. \A h \in Goods : SameRows(h)
    BY DEF SameRows, cartVars
  <1>4. ASSUME NEW d \in Calls
        PROVE  CallOK(d)'
    <2>1. CallOK(d)
      BY DEF CartInv
    <2>. QED
      BY <1>1, <1>3, <2>1, OthersKeep DEF cartVars
  <1>5. \A c, d \in Calls : at'[c] = at'[d] /\ at'[c] # 0 => image'[c].goods = image'[d].goods
    BY DEF CartInv, cartVars
  <1>. QED
    BY <1>1, <1>2, <1>4, <1>5 DEF CartInv

LEMMA InitInv == CartInit => CartInv
  <1>. SUFFICES ASSUME CartInit
                PROVE  CartInv
    OBVIOUS
  <1>1. CartTypeOK
    BY DEF CartInit, CartTypeOK
  <1>2. Live(rows) = {}
    BY DEF CartInit, Live, Free
  <1>3. \A c \in Calls : pc[c] = "idle" /\ at[c] = 0
    BY DEF CartInit
  <1>. QED
    BY <1>1, <1>2, <1>3 DEF CartInv, OneRowPerGoods, CallOK, HoldsRow

LEMMA InvStep ==
    ASSUME CartInv, [CartNext]_cartVars
    PROVE  CartInv'
  <1>1. CartTypeOK'
    BY TypeStep
  <1>2. CASE UNCHANGED cartVars
    BY <1>2, StutterStep
  <1>3. ASSUME NEW c \in Calls, CreateCartItemSaves(c) \/ UpdateCartItemSaves(c)
        PROVE  CartInv'
    BY <1>3, SaveItemStep DEF CreateCartItemSaves, UpdateCartItemSaves
  <1>. QED
    BY <1>1, <1>2, <1>3, CreateCartItemStep, ReadFailsStep, UpdateCartItemStep, PlaceOrderStep,
       DeleteCartItemStep, PlaceOrderCommitsStep, NoWriteStep DEF CartNext

(* The invariant of the cart, for every number of calls, goods and rows.      *)
THEOREM CartInvariant == CartSpec => []CartInv
  BY InitInv, InvStep, PTL DEF CartSpec

(* The types of Cart, and that a call holds a struct exactly between its read *)
(* and its Save.                                                              *)
THEOREM CartTypeCorrect == CartSpec => []CartTypeOK
  <1>1. CartInv => CartTypeOK
    BY DEF CartInv
  <1>. QED
    BY <1>1, CartInvariant, PTL

(* CreateCartItem and UpdateCartItem leave one row per goods in the cart as   *)
(* long as none saves what an overlapping call has made stale.                *)
THEOREM OneRow == CartSpec => []OneRowPerGoods
  <1>1. CartInv => OneRowPerGoods
    BY DEF CartInv
  <1>. QED
    BY <1>1, CartInvariant, PTL

-----------------------------------------------------------------------------
(* Orders.                                                                    *)

LEMMA OrdersStep ==
    ASSUME CartInv, NEW c \in Calls, PlaceOrderCommits(c), NEW g \in Goods \ (torn \cup touched[c])
    PROVE  LET taken == RowsOf(g) \ Live(rows')
           IN  /\ \A i \in taken : rows[i].nums = ordered[c][g]
               /\ taken = {} => ordered[c][g] = 0
  <1>. DEFINE taken == RowsOf(g) \ Live(rows')
  <1>. CartTypeOK
    BY DEF CartInv
  <1>1. GoodsNums(g, ordered[c][g])
    BY DEF CartInv, CallOK, PlaceOrderCommits
  <1>2. /\ \A i \in RowIds : rows'[i] = IF i \in Checked THEN Deleted ELSE rows[i]
        /\ DOMAIN rows' = RowIds /\ DOMAIN rows = RowIds
    BY SoftDeleteRows DEF PlaceOrderCommits, SoftDelete, CartTypeOK
  <1>3. \A i \in RowIds : i \in Live(rows') <=> i \in Live(rows) /\ i \notin Checked
    BY <1>2 DEF Live, Deleted
  <1>4. RowsOf(g) \subseteq RowIds /\ RowsOf(g) \subseteq Live(rows)
    BY RowsOfFacts DEF RowsOf
  <1>5. taken = CheckedOf(g)
    BY <1>3, <1>4 DEF CheckedOf, Checked, RowsOf
  <1>6. \A i, j \in CheckedOf(g) : i = j
    BY OneRowByGoods DEF CartInv, CheckedOf, Checked, RowsOf
  <1>. QED
    BY <1>1, <1>5, <1>6 DEF GoodsNums

(* An order that commits takes out of the cart what it ordered, of every      *)
(* goods that no overlapping call has written or torn.                        *)
THEOREM OrdersTake == CartSpec => OrdersWhatItTakes
  <1>1. CartInv /\ [CartNext]_cartVars =>
           [\A c \in Calls : PlaceOrderCommits(c) =>
              \A g \in Goods \ (torn \cup touched[c]) :
                 LET taken == RowsOf(g) \ Live(rows')
                 IN  /\ \A i \in taken : rows[i].nums = ordered[c][g]
                     /\ taken = {} => ordered[c][g] = 0]_cartVars
    BY OrdersStep
  <1>. QED
    BY <1>1, CartInvariant, PTL DEF CartSpec, OrdersWhatItTakes
-----------------------------------------------------------------------------
(* The handlers keep CartPromise.                                             *)

Shows(i) == [nums |-> rows[i].nums, checked |-> rows[i].checked]

LEMMA SeenRow ==
    ASSUME CartTypeOK, NEW g, NEW i \in RowsOf(g), \A j \in RowsOf(g) : j = i
    PROVE  Seen(g) = Shows(i) /\ Seen(g) # None
  <1>1. i \in RowIds /\ i \in Int /\ rows[i] \in Item
    BY RowsOfFacts, CartAssumption
  <1>2. {j \in RowIds : IsFirst(j, RowsOf(g))} = {i}
    <2>1. i <= i
      BY <1>1
    <2>2. \A j \in RowsOf(g) : i <= j
      BY <2>1
    <2>. QED
      BY <1>1, <2>2 DEF IsFirst
  <1>3. Entries(g) = {Shows(i)}
    BY <1>2 DEF Entries, Shows
  <1>4. Seen(g) = Shows(i)
    BY <1>3 DEF Seen, OneOf
  <1>5. Shows(i) \in [nums : Int, checked : BOOLEAN]
    BY <1>1 DEF Shows, Item
  <1>. QED
    BY <1>4, <1>5, CartAssumption

LEMMA SeenRowAfter ==
    ASSUME CartTypeOK', NEW g, NEW i \in RowIds, RowsOf(g)' = {i}
    PROVE  Seen(g)' = [nums |-> rows'[i].nums, checked |-> rows'[i].checked]
  <1>1. i \in Int
    BY CartAssumption
  <1>2. {j \in RowIds : IsFirst(j, RowsOf(g)')} = {i}
    BY <1>1 DEF IsFirst
  <1>3. Entries(g)' = {[nums |-> rows'[i].nums, checked |-> rows'[i].checked]}
    BY <1>2 DEF Entries, IsFirst
  <1>. QED
    BY <1>3 DEF Seen, OneOf

(* What a Save does to a goods that nobody else wrote: the rows it leaves.    *)
LEMMA FreshSave ==
    ASSUME CartInv, CartTypeOK', NEW c \in Calls, pc[c] \in {"adding", "setting"}, SaveItem(c),
           NEW g \in Goods, g = image[c].goods, g \notin touched[c], g \notin torn
    PROVE  \E i \in RowIds :
              /\ rows'[i] = image[c]
              /\ RowsOf(g)' = {i}
              /\ \/ RowsOf(g) = {} /\ pc[c] = "adding" /\ \E n \in Amounts : image[c] = NewItem(g, n)
                 \/ /\ RowsOf(g) = {i}
                    /\ (pc[c] = "adding" /\ Adds(c, i)) \/ (pc[c] = "setting" /\ Sets(c, i))
  <1>. CartTypeOK /\ OneRowPerGoods
    BY DEF CartInv
  <1>1. PICK i \in RowIds :
          /\ IF at[c] = 0 THEN IsNextId(i, rows) ELSE i = at[c]
          /\ rows' = Save(rows, i, image[c])
    BY DEF SaveItem
  <1>2. rows'[i] = image[c] /\ \A j \in RowIds \ {i} : rows'[j] = rows[j]
    BY <1>1 DEF Save, CartTypeOK
  <1>3. FreshImage(c, g) /\ image[c] \in Item /\ image[c].state = "live"
    BY SaveItemType DEF CartInv, CallOK, Item
  <1>4. DOMAIN rows = RowIds /\ DOMAIN rows' = RowIds
    BY DEF CartTypeOK
  <1>5. i \in RowsOf(g)' /\ \A j \in RowIds \ {i} : j \in RowsOf(g)' <=> j \in RowsOf(g)
    BY <1>2, <1>3, <1>4 DEF RowsOf, Live
  <1>6. RowsOf(g) \subseteq RowIds /\ RowsOf(g)' \subseteq RowIds
    BY <1>4 DEF RowsOf, Live
  <1>7. CASE at[c] = 0
    <2>1. /\ RowsOf(g) = {}
          /\ pc[c] = "adding"
          /\ \E n \in Amounts : image[c] = NewItem(g, n)
      BY <1>3, <1>7, CartAssumption DEF FreshImage
    <2>2. RowsOf(g)' = {i}
      BY <1>5, <1>6, <2>1
    <2>. QED
      BY <1>2, <2>1, <2>2
  <1>8. CASE at[c] # 0
    <2>0. i = at[c]
      BY <1>1, <1>8
    <2>4. \/ at[c] = 0
          \/ /\ IsFirst(at[c], RowsOf(g))
             /\ \/ pc[c] = "adding" /\ Adds(c, at[c])
                \/ pc[c] = "setting" /\ Sets(c, at[c])
      BY <1>3 DEF FreshImage
    <2>1. /\ IsFirst(i, RowsOf(g))
          /\ (pc[c] = "adding" /\ Adds(c, i)) \/ (pc[c] = "setting" /\ Sets(c, i))
      BY <1>8, <2>0, <2>4 DEF Adds, Sets
    <2>2. RowsOf(g) = {i}
      BY <2>1, OneRowByGoods DEF IsFirst
    <2>3. RowsOf(g)' = {i}
      BY <1>5, <1>6, <2>2
    <2>. QED
      BY <1>2, <2>1, <2>2, <2>3
  <1>. QED
    BY <1>7, <1>8

(* A Save writes rows of its goods only.                                      *)
LEMMA SaveKeepsOthers ==
    ASSUME CartInv, NEW c \in Calls, pc[c] \in {"adding", "setting"}, SaveItem(c),
           NEW h \in Goods \ {image[c].goods}
    PROVE  SameRows(h)
  <1>. CartTypeOK
    BY DEF CartInv
  <1>1. PICK i \in RowIds :
          /\ IF at[c] = 0 THEN IsNextId(i, rows) ELSE i = at[c]
          /\ rows' = Save(rows, i, image[c])
    BY DEF SaveItem
  <1>2. rows'[i] = image[c] /\ \A j \in RowIds \ {i} : rows'[j] = rows[j]
    BY <1>1 DEF Save, CartTypeOK
  <1>3. rows[i] \in Item => rows[i].goods = image[c].goods
    <2>1. CASE at[c] = 0
      BY <1>1, <2>1 DEF IsNextId, IsFirst, Item
    <2>2. CASE at[c] # 0
      BY <1>1, <2>2, ItemFacts DEF CartInv, CallOK, HoldsRow
    <2>. QED
      BY <2>1, <2>2
  <1>4. i \notin RowsOf(h) /\ i \notin RowsOf(h)'
    BY <1>2, <1>3, RowsOfFacts DEF RowsOf
  <1>. QED
    BY <1>2, <1>4 DEF SameRows

LEMMA SaveKeepsPromise ==
    ASSUME CartInv, CartTypeOK', NEW c \in Calls, pc[c] \in {"adding", "setting"}, SaveItem(c),
           NEW g \in Goods, g = image[c].goods
    PROVE  Promise!Next
  <1>. CartTypeOK
    BY DEF CartInv
  <1>0. g \in Goods /\ image[c] \in Item
    BY SaveItemType
  <1>1. \A h \in Goods \ {g} : Seen(h)' = Seen(h)
    BY SaveKeepsOthers, SameGoods
  <1>2. CASE g \in touched[c] \/ g \in torn
    <2>1. torn' = torn \cup {g}
      BY <1>2 DEF SaveItem
    <2>. QED
      BY <1>0, <1>1, <2>1 DEF Promise!Next, Promise!Call, Promise!Tear
  <1>3. CASE g \notin touched[c] /\ g \notin torn
    <2>1. torn' = torn
      BY <1>3 DEF SaveItem
    <2>2. PICK i \in RowIds :
              /\ rows'[i] = image[c]
              /\ RowsOf(g)' = {i}
              /\ \/ RowsOf(g) = {} /\ pc[c] = "adding" /\ \E n \in Amounts : image[c] = NewItem(g, n)
                 \/ /\ RowsOf(g) = {i}
                    /\ (pc[c] = "adding" /\ Adds(c, i)) \/ (pc[c] = "setting" /\ Sets(c, i))
      BY <1>3, FreshSave
    <2>3. Seen(g)' = [nums |-> image[c].nums, checked |-> image[c].checked]
      BY <2>2, SeenRowAfter
    <2>4. CASE RowsOf(g) = {} /\ \E n \in Amounts : image[c] = NewItem(g, n)
      <3>1. PICK n \in Amounts : image[c] = NewItem(g, n)
        BY <2>4
      <3>2. Seen(g) = None
        BY <2>4 DEF Seen
      <3>3. Seen(g)' = [nums |-> n, checked |-> FALSE]
        BY <2>3, <3>1 DEF NewItem
      <3>4. Promise!Add(g, n)
        BY <1>0, <2>1, <3>2, <3>3 DEF Promise!Add
      <3>. QED
        BY <1>0, <1>1, <3>4 DEF Promise!Next, Promise!Call
    <2>5. CASE RowsOf(g) = {i}
      <3>1. Seen(g) = Shows(i) /\ Seen(g) # None /\ rows[i] \in Item
        BY <2>5, SeenRow, RowsOfFacts
      <3>2. CASE Adds(c, i)
        <4>1. PICK n \in Amounts : image[c] = [rows[i] EXCEPT !.nums = @ + n]
          BY <3>2 DEF Adds
        <4>2. Seen(g)' = [Seen(g) EXCEPT !.nums = @ + n]
          BY <2>3, <3>1, <4>1 DEF Shows, Item
        <4>3. Promise!Add(g, n)
          BY <1>0, <2>1, <3>1, <4>2 DEF Promise!Add
        <4>. QED
          BY <1>0, <1>1, <4>3 DEF Promise!Next, Promise!Call
      <3>3. CASE Sets(c, i)
        <4>1. PICK n \in Levels, k \in BOOLEAN :
                 image[c] = [rows[i] EXCEPT !.checked = k, !.nums = IF n > 0 THEN n ELSE @]
          BY <3>3 DEF Sets
        <4>2. Seen(g)' = [nums |-> IF n > 0 THEN n ELSE Seen(g).nums, checked |-> k]
          BY <2>3, <3>1, <4>1 DEF Shows, Item
        <4>3. Promise!Set(g, n, k)
          BY <1>0, <2>1, <3>1, <4>2 DEF Promise!Set
        <4>. QED
          BY <1>0, <1>1, <4>3 DEF Promise!Next, Promise!Call
      <3>. QED
        BY <2>2, <2>5, <3>2, <3>3
    <2>. QED
      BY <2>2, <2>4, <2>5
  <1>. QED
    BY <1>2, <1>3
LEMMA DeleteKeepsPromise ==
    ASSUME CartInv, CartTypeOK', NEW c \in Calls, NEW g \in Goods, DeleteCartItem(c, g)
    PROVE  Promise!Next
  <1>. CartTypeOK
    BY DEF CartInv
  <1>1. rows' = SoftDelete(rows, RowsOf(g)) /\ torn' = torn \ {g}
    BY DEF DeleteCartItem
  <1>2. RowsOf(g)' = {} /\ \A h \in Goods \ {g} : SameRows(h)
    <2>1. \A h \in Goods \ {g} : RowsOf(h) \cap RowsOf(g) = {}
      BY DEF RowsOf
    <2>2. \A h : RowsOf(h)' = RowsOf(h) \ RowsOf(g)
      BY <1>1, SoftDeleteRows
    <2>3. \A h : RowsOf(h) \cap RowsOf(g) = {} => SameRows(h)
      BY <1>1, SoftDeleteRows
    <2>. QED
      BY <2>1, <2>2, <2>3
  <1>3. Seen(g)' = None /\ \A h \in Goods \ {g} : Seen(h)' = Seen(h)
    BY <1>2, SameGoods DEF Seen
  <1>. QED
    BY <1>1, <1>3 DEF Promise!Next, Promise!Call, Promise!Remove

LEMMA OrderKeepsPromise ==
    ASSUME CartInv, CartTypeOK', NEW c \in Calls, PlaceOrderCommits(c)
    PROVE  Promise!Next
  <1>. CartTypeOK
    BY DEF CartInv
  <1>1. /\ rows' = SoftDelete(rows, Checked)
        /\ torn' = {h \in torn : RowsOf(h) \ Checked # {}}
    BY DEF PlaceOrderCommits
  <1>2. ASSUME NEW g \in Goods \ torn
        PROVE  Seen(g)' = IF Seen(g) # None /\ Seen(g).checked THEN None ELSE Seen(g)
    <2>1. CASE RowsOf(g) = {}
      <3>1. Seen(g) = None /\ RowsOf(g)' = {}
        BY <1>1, <2>1, SoftDeleteRows DEF Seen
      <3>. QED
        BY <3>1 DEF Seen
    <2>2. ASSUME NEW i \in RowsOf(g)
          PROVE  Seen(g)' = IF Seen(g) # None /\ Seen(g).checked THEN None ELSE Seen(g)
      <3>1. RowsOf(g) = {i}
        BY OneRowByGoods DEF CartInv
      <3>2. Seen(g) = Shows(i) /\ Seen(g) # None /\ Shows(i).checked = rows[i].checked
        BY <3>1, SeenRow DEF Shows
      <3>3. i \in Checked <=> rows[i].checked
        BY <2>2 DEF Checked, RowsOf
      <3>4. CASE rows[i].checked
        <4>1. RowsOf(g)' = {}
          BY <1>1, <3>1, <3>3, <3>4, SoftDeleteRows
        <4>. QED
          BY <3>2, <3>4, <4>1 DEF Seen
      <3>5. CASE ~rows[i].checked
        <4>1. SameRows(g)
          BY <1>1, <3>1, <3>3, <3>5, SoftDeleteRows
        <4>. QED
          BY <3>2, <3>5, <4>1, SameGoods
      <3>. QED
        BY <3>4, <3>5
    <2>. QED
      BY <2>1, <2>2
  <1>3. ASSUME NEW g \in torn \ torn'
        PROVE  g \in Goods /\ Seen(g)' = None
    <2>1. RowsOf(g)' = {} /\ g \in Goods
      BY <1>1, SoftDeleteRows DEF CartTypeOK
    <2>. QED
      BY <2>1 DEF Seen
  <1>. QED
    BY <1>1, <1>2, <1>3 DEF Promise!Next, Promise!Settle

LEMMA CartStepKeepsPromise ==
    ASSUME CartInv, [CartNext]_cartVars
    PROVE  [Promise!Next]_Promise!pvars
  <1>. CartTypeOK /\ CartTypeOK'
    BY TypeStep DEF CartInv
  <1>1. CASE UNCHANGED <<rows, torn>>
    <2>1. \A h \in Goods : SameRows(h)
      BY <1>1 DEF SameRows
    <2>2. \A h \in Goods : Seen(h)' = Seen(h)
      BY <2>1, SameGoods
    <2>. QED
      BY <1>1, <2>2 DEF Promise!pvars
  <1>2. ASSUME NEW c \in Calls, CreateCartItemSaves(c) \/ UpdateCartItemSaves(c)
        PROVE  Promise!Next
    <2>1. pc[c] \in {"adding", "setting"} /\ SaveItem(c)
      BY <1>2 DEF CreateCartItemSaves, UpdateCartItemSaves
    <2>2. image[c].goods \in Goods
      BY <2>1, SaveItemType
    <2>. QED
      BY <2>1, <2>2, SaveKeepsPromise
  <1>3. ASSUME NEW c \in Calls, NEW g \in Goods, DeleteCartItem(c, g)
        PROVE  Promise!Next
    BY <1>3, DeleteKeepsPromise
  <1>4. ASSUME NEW c \in Calls, PlaceOrderCommits(c)
        PROVE  Promise!Next
    BY <1>4, OrderKeepsPromise
  <1>. QED
    BY <1>1, <1>2, <1>3, <1>4
       DEF CartNext, cartVars, CreateCartItem, CreateCartItemReadFails, UpdateCartItem, SaveFails,
           PlaceOrder, PlaceOrderRollsBack, Hold

(* On every goods that is not torn the handlers of the cart, which read and   *)
(* save in two steps, do what CartPromise says in one.                        *)
THEOREM CartImplementsPromise == CartSpec => CartKeepsPromise
  <1>1. CartInit => Promise!Init
    <2>. SUFFICES ASSUME CartInit
                  PROVE  Promise!Init
      OBVIOUS
    <2>1. \A g \in Goods : RowsOf(g) = {}
      BY DEF CartInit, RowsOf, Live, Free
    <2>2. \A g \in Goods : Seen(g) = None
      BY <2>1 DEF Seen
    <2>. QED
      BY <2>2 DEF CartInit, Promise!Init
  <1>2. CartInv /\ [CartNext]_cartVars => [Promise!Next]_Promise!pvars
    BY CartStepKeepsPromise
  <1>. QED
    BY <1>1, <1>2, CartInvariant, PTL DEF CartSpec, CartKeepsPromise, Promise!Spec
=============================================================================
