-------------------------------- MODULE Gorm --------------------------------
(* Tables as the handlers use them through GORM on MySQL.  Every model of the *)
(* repository embeds BaseModel with a gorm.DeletedAt, so Delete only marks a  *)
(* row (a soft delete) and every query of a handler skips the marked rows.    *)
(*                                                                            *)
(* A table is a function from ids to rows, and a row has a state: "free" (no  *)
(* row yet), "live" or "deleted".                                             *)
EXTENDS Integers

Free == [state |-> "free"]

(* The table keeps what a deleted row held, but no query of a handler returns *)
(* it again.                                                                  *)
Deleted == [state |-> "deleted"]

Live(table) == {i \in DOMAIN table : table[i].state = "live"}

(* i is what First finds when the rows S match: the lowest id.                *)
IsFirst(i, S) == i \in S /\ \A j \in S : i <= j

(* i is the id AUTO_INCREMENT gives to the next row.                          *)
IsNextId(i, table) == IsFirst(i, {j \in DOMAIN table : table[j].state = "free"})

(* Save of a struct whose id is i: UPDATE ... WHERE id = i AND deleted_at IS  *)
(* NULL, and when that finds no row INSERT ... ON DUPLICATE KEY UPDATE of     *)
(* every column, deleted_at too.  Either way the row becomes what the struct  *)
(* says, even when the row was deleted after it was read.                     *)
Save(table, i, row) == [table EXCEPT ![i] = row]

(* Delete of the rows S: their deleted_at is set.                             *)
SoftDelete(table, S) ==
    [i \in DOMAIN table |-> IF i \in S THEN Deleted ELSE table[i]]
=============================================================================
