---------------------------- MODULE EditPromise -----------------------------
(* What a handler that edits a row promises, one atomic step per call: the    *)
(* row becomes what the request makes of it, and a row that was deleted stays *)
(* deleted.  The promise is kept for each row on which no call saved what an  *)
(* overlapping call had made stale (torn); of a torn row nothing is promised  *)
(* until it is deleted.  Editing.tla implements this.                         *)
CONSTANTS
    Ids,            \* ids of the table
    Requests,       \* what a request may ask
    Blank,          \* a field that is empty
    Absent          \* no such row

VARIABLES
    table,          \* which table it is; it never changes
    rows,           \* each row, or Absent
    torn            \* rows of which nothing is promised

(* What the handler of the table makes of a row.                              *)
Edited(row, request) ==
    [f \in DOMAIN row |->
        IF table = "user" THEN request[f]
        ELSE IF table = "address" THEN IF row[f] = Blank THEN Blank ELSE request[f]
        ELSE IF request[f] = Blank THEN row[f] ELSE request[f]]

Init ==
    /\ table \in {"category", "banner", "address", "user"}
    /\ rows \in [Ids -> Requests \cup {Absent}]
    /\ torn = {}

Create(i) == rows[i] = Absent /\ rows'[i] \in Requests /\ UNCHANGED torn

Edit(i) ==
    /\ rows[i] # Absent
    /\ \E request \in Requests : rows'[i] = Edited(rows[i], request)
    /\ UNCHANGED torn

Remove(i) == table # "user" /\ rows'[i] = Absent /\ torn' = torn \ {i}

(* A call that saves what is stale may do anything to row i, which is torn.   *)
Tear(i) == torn' = torn \cup {i}

Next ==
    \E i \in Ids :
        /\ \A j \in Ids \ {i} : rows'[j] = rows[j]
        /\ UNCHANGED table
        /\ Create(i) \/ Edit(i) \/ Remove(i) \/ Tear(i)

Spec == Init /\ [][Next]_<<table, rows, torn>>
=============================================================================
