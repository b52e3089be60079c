------------------------------- MODULE Editing ------------------------------
(* The four handlers that read a row, change the fields the request names and *)
(* save the whole struct, without a transaction: UpdateCategory, UpdateBanner *)
(* (goods_srv), UpdateAddress (userop_srv) and UpdateUser (user_srv), with    *)
(* the calls that create and delete such rows.  They differ in which fields   *)
(* they take from the request.  Rows have an owner only in table address,     *)
(* where the id of another user's row finds nothing.                          *)
EXTENDS Gorm

CONSTANTS
    Editors,        \* calls that may run at a time
    EditIds,        \* ids of the table (a bound)
    Fields,         \* fields a handler may write
    Words,          \* what a field may hold
    Blank,          \* the empty field: "", 0 or FALSE
    Absent          \* no such row, as the promise sees it

ASSUME EditingAssumption ==
    /\ EditIds \subseteq Int \ {0}
    /\ Blank \in Words
    /\ Absent \notin [Fields -> Words]

VARIABLES
    kind,           \* the table the calls are about
    entries,        \* its rows
    editor,         \* what each call has read and not saved yet
    shaken,         \* calls on whose row another call wrote since they read it
    tornEntries     \* rows on which a call saved what another had made stale

editingVars == <<kind, entries, editor, shaken, tornEntries>>

Requests == [Fields -> Words]

Entry == [state : {"live"}, fields : Requests]

Rest == [at |-> 0]

EditingInit ==
    /\ kind \in {"category", "banner", "address", "user"}
    /\ entries \in [EditIds -> {Free} \cup Entry]
    /\ \A i, j \in EditIds : i < j /\ entries[i] = Free => entries[j] = Free
    /\ editor = [e \in Editors |-> Rest]
    /\ shaken = {}
    /\ tornEntries = {}

(* Call e wrote row i.                                                        *)
Wrote(e, i) == shaken' = (shaken \ {e}) \cup {d \in Editors \ {e} : editor[d].at = i}

-----------------------------------------------------------------------------
(* Mutant: the fields are assigned without looking whether they are there.    *)
TakingAll(fields, request) == request

(* UpdateCategory and UpdateBanner: a field the request leaves out is kept.   *)
KeepingLeftOut(fields, request) ==
    [f \in Fields |-> IF request[f] = Blank THEN fields[f] ELSE request[f]]

(* UpdateAddress looks at the stored field: an empty one stays empty, a full  *)
(* one takes what the request has, nothing if it left the field out.          *)
GuardedByStored(fields, request) ==
    [f \in Fields |-> IF fields[f] = Blank THEN Blank ELSE request[f]]

(* UpdateUser takes every field, left out or not.                             *)
Merged(fields, request) ==
    CASE kind \in {"category", "banner"} -> KeepingLeftOut(fields, request)
      [] kind = "address" -> GuardedByStored(fields, request)
      [] kind = "user" -> request

(* CreateCategory, CreateBanner, CreateAddress, CreateUser.                   *)
CreateEntry(fields) ==
    /\ \E i \in EditIds :
          /\ IsNextId(i, entries)
          /\ entries' = Save(entries, i, [state |-> "live", fields |-> fields])
    /\ UNCHANGED <<kind, editor, shaken, tornEntries>>

(* DeleteCategory, DeleteBanner, DeleteAddress.  Users are never deleted.     *)
DeleteEntry(i) ==
    /\ kind # "user"
    /\ i \in Live(entries)
    /\ entries' = SoftDelete(entries, {i})
    /\ tornEntries' = tornEntries \ {i}
    /\ shaken' = shaken \cup {d \in Editors : editor[d].at = i}
    /\ UNCHANGED <<kind, editor>>

(* Update... reads the row, and answers NotFound if there is none.            *)
ReadEntry(e, i, request) ==
    /\ editor[e] = Rest
    /\ i \in Live(entries)
    /\ editor' = [editor EXCEPT ![e] =
          [at |-> i, image |-> [entries[i] EXCEPT !.fields = Merged(@, request)]]]
    /\ UNCHANGED <<kind, entries, shaken, tornEntries>>

(* The Save at its end.                                                       *)
SaveEntry(e) ==
    LET i == editor[e].at
    IN  /\ editor[e] # Rest
        /\ entries' = Save(entries, i, editor[e].image)
        /\ tornEntries' = IF e \in shaken THEN tornEntries \cup {i} ELSE tornEntries
        /\ Wrote(e, i)
        /\ editor' = [editor EXCEPT ![e] = Rest]
        /\ UNCHANGED kind

(* The database refuses; only UpdateUser tells the client.                    *)
SaveEntryFails(e) ==
    /\ editor[e] # Rest
    /\ editor' = [editor EXCEPT ![e] = Rest]
    /\ shaken' = shaken \ {e}
    /\ UNCHANGED <<kind, entries, tornEntries>>

EditingNext ==
    \/ \E fields \in Requests : CreateEntry(fields)
    \/ \E i \in EditIds : DeleteEntry(i)
    \/ \E e \in Editors, i \in EditIds, request \in Requests : ReadEntry(e, i, request)
    \/ \E e \in Editors : SaveEntry(e)
    \/ \E e \in Editors : SaveEntryFails(e)

EditingSpec == EditingInit /\ [][EditingNext]_editingVars

-----------------------------------------------------------------------------
(* Properties.                                                                *)

Shown(i) == IF i \in Live(entries) THEN entries[i].fields ELSE Absent

EditPromise == INSTANCE EditPromise WITH
    Ids <- EditIds, table <- kind, torn <- tornEntries,
    rows <- [i \in EditIds |-> Shown(i)]

(* On a row that is not torn every call is one atomic edit: no field goes     *)
(* back to what it was before another call, and no deleted row comes back.    *)
(* Save writes every column and revives deleted rows, so this rests on the    *)
(* calls not overlapping.                                                     *)
EditsKeepPromise == EditPromise!Spec
=============================================================================
