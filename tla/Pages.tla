------------------------------- MODULE Pages --------------------------------
(* How lists are cut into pages: Paginate, the same in goods_srv, order_srv   *)
(* and user_srv.  Rows are counted from 1 in the order the list has them.     *)
EXTENDS Integers, FiniteSets

CONSTANTS
    RowCounts,      \* how many rows a list may have
    PageSizes       \* the page sizes a request may name

ASSUME PagesAssumption == RowCounts \subseteq Nat /\ PageSizes \subseteq Int

VARIABLES
    count,          \* the rows of the list at hand
    size            \* the page size of the requests

pagesVars == <<count, size>>

PagesInit == count \in RowCounts /\ size \in PageSizes

(* Without a usable size a page has 10 rows, and never more than 100.         *)
Limit(pageSize) ==
    IF pageSize > 100 THEN 100 ELSE IF pageSize <= 0 THEN 10 ELSE pageSize

(* Mutant: pages are counted from 0.                                          *)
OffsetFromZero(page, pageSize) == IF page <= 0 THEN 0 ELSE page * Limit(pageSize)

(* Paginate: page 1 is the first, and stands for every page before it.        *)
Offset(page, pageSize) == IF page <= 0 THEN 0 ELSE (page - 1) * Limit(pageSize)

OnPage(k, page, pageSize) ==
    Offset(page, pageSize) < k /\ k <= Offset(page, pageSize) + Limit(pageSize)

-----------------------------------------------------------------------------
(* Properties.                                                                *)

(* Every row of a list is on one page and no other, whatever size is asked    *)
(* for, and pages up to 0 are page 1.                                         *)
PagesPartition ==
    \A k \in 1..count :
        /\ Cardinality({page \in 1..count : OnPage(k, page, size)}) = 1
        /\ \A page \in {-1, 0} : OnPage(k, page, size) <=> OnPage(k, 1, size)
=============================================================================
