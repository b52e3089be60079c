----------------------------- MODULE RowsProofs -----------------------------
(* Proofs about the handlers that write one row of one table: that a mobile   *)
(* never has two users and favourites are what was asked for (Accounts), that *)
(* an edit is atomic on a row that is not torn (Editing).  For any number of  *)
(* calls, rows and fields.  And about the pages rows are listed on (Pages),   *)
(* of any size.                                                               *)
EXTENDS Accounts, Editing, Pages, FiniteSetTheorems, TLAPS

-----------------------------------------------------------------------------
(* Accounts.                                                                  *)

(* The types of the variables.  A row of table userfav is never "deleted".    *)
AccountsTypes ==
    /\ users \in [UserIds -> User \cup {Free}]
    /\ asks \in [Registrations -> User \cup {Free}]
    /\ welcomed \in [Mobiles -> {0, 1}]
    /\ favs \in [FavKeys -> {"free", "live"}]
    /\ wanted \subseteq FavKeys

AccountsInv == AccountsTypes /\ RegisteredOnce /\ FavsAsAsked

LEMMA RowStates == Free.state = "free" /\ \A u \in User : u.state = "live" /\ u # Free
  BY DEF Free, User

LEMMA InitInv == AccountsInit => AccountsInv
  BY DEF AccountsInit, AccountsInv, AccountsTypes, RegisteredOnce, FavsAsAsked, Live,
         MobileTaken, Free

(* A new row takes a free id, and the mobile it holds is its own.             *)
LEMMA RowAdded ==
  ASSUME AccountsInv,
         NEW r \in Registrations,
         asks[r] # Free,
         ~MobileTaken(asks[r].mobile),
         NEW i \in UserIds,
         IsNextId(i, users),
         users' = Save(users, i, asks[r])
  PROVE  /\ users' \in [UserIds -> User \cup {Free}]
         /\ Live(users)' = Live(users) \cup {i}
         /\ users'[i].mobile = asks[r].mobile
         /\ \A j \in Live(users) : users'[j] = users[j]
         /\ \A j, k \in Live(users)' : users'[j].mobile = users'[k].mobile => j = k
PROOF
<1>1. asks[r] \in User /\ asks[r].state = "live"
  BY RowStates DEF AccountsInv, AccountsTypes
<1>2. users' = [users EXCEPT ![i] = asks[r]]
  BY DEF Save
<1>3. users' \in [UserIds -> User \cup {Free}]
  BY <1>1, <1>2 DEF AccountsInv, AccountsTypes
<1>4. users[i].state = "free"
  BY DEF IsNextId, IsFirst
<1>5. Live(users)' = Live(users) \cup {i}
  BY <1>1, <1>2 DEF Live, AccountsInv, AccountsTypes
<1>6. \A j \in Live(users) : j # i /\ users'[j] = users[j] /\ users[j].mobile # asks[r].mobile
  BY <1>2, <1>4 DEF Live, AccountsInv, AccountsTypes, MobileTaken
<1>7. users'[i].mobile = asks[r].mobile
  BY <1>2 DEF AccountsInv, AccountsTypes
<1>8. \A j, k \in Live(users) : users[j].mobile = users[k].mobile => j = k
  BY DEF AccountsInv, RegisteredOnce
<1> QED BY <1>3, <1>5, <1>6, <1>7, <1>8

LEMMA StepInv == AccountsInv /\ [AccountsNext]_accountsVars => AccountsInv'
PROOF
<1> SUFFICES ASSUME AccountsInv, [AccountsNext]_accountsVars PROVE AccountsInv'
  OBVIOUS
<1> USE DEF AccountsInv
<1>1. ASSUME NEW r \in Registrations, NEW m \in Mobiles, CreateUser(r, m)
      PROVE  AccountsInv'
  <2>1. [state |-> "live", mobile |-> m] \in User
    BY DEF User
  <2> QED BY <1>1, <2>1 DEF CreateUser, AccountsTypes, RegisteredOnce, FavsAsAsked, Live, MobileTaken
<1>2. ASSUME NEW r \in Registrations, CreateUserInserts(r)
      PROVE  AccountsInv'
  <2> DEFINE m == asks[r].mobile
  <2>1. asks[r] # Free /\ ~MobileTaken(m)
    BY <1>2 DEF CreateUserInserts
  <2>2. PICK i \in UserIds : IsNextId(i, users) /\ users' = Save(users, i, asks[r])
    BY <1>2 DEF CreateUserInserts
  <2>3. asks[r] \in User /\ m \in Mobiles
    BY <2>1 DEF AccountsTypes, User
  <2>4. /\ users' \in [UserIds -> User \cup {Free}]
        /\ Live(users)' = Live(users) \cup {i}
        /\ users'[i].mobile = m
        /\ \A j \in Live(users) : users'[j] = users[j]
        /\ \A j, k \in Live(users)' : users'[j].mobile = users'[k].mobile => j = k
    BY <2>1, <2>2, RowAdded
  <2>5. welcomed[m] = 0
    BY <2>1, <2>3 DEF RegisteredOnce, AccountsTypes
  <2>6. welcomed' = [welcomed EXCEPT ![m] = 1]
    BY <1>2, <2>5 DEF CreateUserInserts
  <2>7. \A n \in Mobiles : welcomed'[n] = 1 => \E j \in Live(users)' : users'[j].mobile = n
    <3> SUFFICES ASSUME NEW n \in Mobiles, welcomed'[n] = 1
                 PROVE  \E j \in Live(users)' : users'[j].mobile = n
      OBVIOUS
    <3>1. CASE n = m
      BY <2>4, <3>1
    <3>2. CASE n # m
      BY <2>4, <2>6, <3>2 DEF RegisteredOnce, AccountsTypes, MobileTaken
    <3> QED BY <3>1, <3>2
  <2>8. welcomed' \in [Mobiles -> {0, 1}]
    BY <2>6 DEF AccountsTypes
  <2>9. RegisteredOnce'
    BY <2>4, <2>7, <2>8 DEF RegisteredOnce, MobileTaken
  <2> QED BY <1>2, <2>4, <2>8, <2>9 DEF CreateUserInserts, AccountsTypes, FavsAsAsked
<1>3. ASSUME NEW r \in Registrations, CreateUserFails(r)
      PROVE  AccountsInv'
  <2>1. CASE UNCHANGED users
    BY <1>3, <2>1 DEF CreateUserFails, AccountsTypes, RegisteredOnce, FavsAsAsked, Live, MobileTaken
  <2>2. CASE ~UNCHANGED users
    <3>1. PICK i \in UserIds : IsNextId(i, users) /\ users' = Save(users, i, asks[r])
      BY <1>3, <2>2 DEF CreateUserFails
    <3>2. /\ users' \in [UserIds -> User \cup {Free}]
          /\ Live(users)' = Live(users) \cup {i}
          /\ \A j \in Live(users) : users'[j] = users[j]
          /\ \A j, k \in Live(users)' : users'[j].mobile = users'[k].mobile => j = k
      BY <1>3, <2>2, <3>1, RowAdded DEF CreateUserFails
    <3>3. RegisteredOnce'
      BY <1>3, <3>2 DEF CreateUserFails, RegisteredOnce, MobileTaken
    <3> QED BY <1>3, <3>2, <3>3 DEF CreateUserFails, AccountsTypes, FavsAsAsked
  <2> QED BY <2>1, <2>2
<1>4. ASSUME NEW k \in FavKeys, AddUserFav(k)
      PROVE  AccountsInv'
  BY <1>4 DEF AddUserFav, AccountsTypes, RegisteredOnce, FavsAsAsked, Live, MobileTaken
<1>5. ASSUME NEW k \in FavKeys, DeleteUserFav(k)
      PROVE  AccountsInv'
  BY <1>5 DEF DeleteUserFav, AccountsTypes, RegisteredOnce, FavsAsAsked, Live, MobileTaken
<1>6. CASE UNCHANGED accountsVars \/ \E k \in FavKeys : AddUserFavFails(k)
  BY <1>6 DEF AddUserFavFails, accountsVars, AccountsTypes, RegisteredOnce, FavsAsAsked, Live, MobileTaken
<1> QED BY <1>1, <1>2, <1>3, <1>4, <1>5, <1>6 DEF AccountsNext

(* However many calls overlap, a mobile has one user and is welcomed once.    *)
THEOREM OneUserPerMobile == AccountsSpec => []RegisteredOnce
<1>1. AccountsInv => RegisteredOnce
  BY DEF AccountsInv
<1> QED BY <1>1, InitInv, StepInv, PTL DEF AccountsSpec

(* Favourites are what the last call that went through asked for.             *)
THEOREM FavouritesAsAsked == AccountsSpec => []FavsAsAsked
<1>1. AccountsInv => FavsAsAsked
  BY DEF AccountsInv
<1> QED BY <1>1, InitInv, StepInv, PTL DEF AccountsSpec

-----------------------------------------------------------------------------
(* Editing.                                                                   *)

Kinds == {"category", "banner", "address", "user"}

Held == [at : EditIds, image : Entry]

EditingTypes ==
    /\ kind \in Kinds
    /\ entries \in [EditIds -> Entry \cup {Free, Deleted}]
    /\ editor \in [Editors -> Held \cup {Rest}]
    /\ shaken \subseteq Editors
    /\ tornEntries \subseteq EditIds

(* A call on whose row nobody wrote since it read holds an edit of the row.   *)
HoldsEdit(e) ==
    \E request \in Requests :
        /\ entries[editor[e].at] \in Entry
        /\ editor[e].image = [entries[editor[e].at] EXCEPT !.fields = Merged(@, request)]

EditingInv ==
    /\ EditingTypes
    /\ \A e \in Editors \ shaken : editor[e] # Rest => HoldsEdit(e)

LEMMA EntryFacts ==
  ASSUME EditingTypes
  PROVE  /\ \A x \in Entry : x.state = "live" /\ x.fields \in Requests /\ x # Free /\ x # Deleted
         /\ Free.state = "free" /\ Deleted.state = "deleted" /\ Free # Deleted
         /\ \A i \in EditIds : i \in Live(entries) <=> entries[i] \in Entry
         /\ Live(entries) \subseteq EditIds
         /\ Rest.at = 0 /\ \A x \in Held : x # Rest /\ x.at \in EditIds /\ x.at # 0 /\ x.image \in Entry
<1>1. /\ \A x \in Entry : x.state = "live" /\ x.fields \in Requests
      /\ Free.state = "free" /\ Deleted.state = "deleted"
  BY DEF Entry, Free, Deleted
<1>2. \A i \in EditIds : i \in Live(entries) <=> entries[i] \in Entry
  BY <1>1 DEF EditingTypes, Live
<1>3. \A x \in Held : x.at \in EditIds /\ x.at # 0 /\ x.image \in Entry
  BY EditingAssumption DEF Held
<1> QED BY <1>1, <1>2, <1>3 DEF Rest, EditingTypes, Live

LEMMA MergedIsRequest ==
  ASSUME EditingTypes, NEW fields \in Requests, NEW request \in Requests
  PROVE  Merged(fields, request) \in Requests
<1>1. KeepingLeftOut(fields, request) \in Requests /\ GuardedByStored(fields, request) \in Requests
  BY EditingAssumption DEF KeepingLeftOut, GuardedByStored, Requests
<1> QED BY <1>1 DEF Merged, EditingTypes, Kinds

LEMMA EditingInvInit == EditingInit => EditingInv
  BY DEF EditingInit, EditingInv, EditingTypes, Kinds

LEMMA EditingInvNext == EditingInv /\ [EditingNext]_editingVars => EditingInv'
<1> SUFFICES ASSUME EditingInv, [EditingNext]_editingVars PROVE EditingInv'
  OBVIOUS
<1> EditingTypes
  BY DEF EditingInv
<1>1. ASSUME NEW fields \in Requests, CreateEntry(fields) PROVE EditingInv'
  <2>1. PICK i \in EditIds : /\ entries[i].state = "free"
                             /\ entries' = [entries EXCEPT ![i] = [state |-> "live", fields |-> fields]]
    BY <1>1 DEF CreateEntry, IsNextId, IsFirst, Save
  <2>2. UNCHANGED <<kind, editor, shaken, tornEntries>>
    BY <1>1 DEF CreateEntry
  <2>3. [state |-> "live", fields |-> fields] \in Entry
    BY DEF Entry
  <2>4. EditingTypes'
    BY <2>1, <2>2, <2>3 DEF EditingTypes
  <2>5. ASSUME NEW e \in Editors \ shaken', editor'[e] # Rest PROVE HoldsEdit(e)'
    <3>1. HoldsEdit(e) /\ editor'[e] = editor[e]
      BY <2>2, <2>5 DEF EditingInv
    <3>2. entries[editor[e].at] \in Entry /\ editor[e].at # i
      BY <2>1, <3>1, EntryFacts DEF HoldsEdit
    <3>3. entries'[editor[e].at] = entries[editor[e].at]
      BY <2>1, <3>2
    <3> QED BY <2>2, <3>1, <3>3 DEF HoldsEdit, Merged
  <2> QED BY <2>4, <2>5 DEF EditingInv
<1>2. ASSUME NEW i \in EditIds, DeleteEntry(i) PROVE EditingInv'
  <2>1. /\ entries' = SoftDelete(entries, {i})
        /\ shaken' = shaken \cup {d \in Editors : editor[d].at = i}
        /\ UNCHANGED <<kind, editor>>
        /\ tornEntries' = tornEntries \ {i}
    BY <1>2 DEF DeleteEntry
  <2>2. EditingTypes'
    BY <2>1 DEF EditingTypes, SoftDelete
  <2>3. ASSUME NEW e \in Editors \ shaken', editor'[e] # Rest PROVE HoldsEdit(e)'
    <3>1. HoldsEdit(e) /\ editor'[e] = editor[e] /\ editor[e].at # i /\ editor[e].at \in EditIds
      BY <2>1, <2>3, EntryFacts DEF EditingInv, EditingTypes
    <3>2. entries'[editor[e].at] = entries[editor[e].at]
      BY <2>1, <3>1 DEF SoftDelete, EditingTypes
    <3> QED BY <2>1, <3>1, <3>2 DEF HoldsEdit, Merged
  <2> QED BY <2>2, <2>3 DEF EditingInv
<1>3. ASSUME NEW e \in Editors, NEW i \in EditIds, NEW request \in Requests, ReadEntry(e, i, request)
      PROVE  EditingInv'
  <2> DEFINE x == [at |-> i, image |-> [entries[i] EXCEPT !.fields = Merged(@, request)]]
  <2>1. /\ editor' = [editor EXCEPT ![e] = x]
        /\ UNCHANGED <<kind, entries, shaken, tornEntries>>
        /\ entries[i] \in Entry
    BY <1>3, EntryFacts DEF ReadEntry
  <2>2. [entries[i] EXCEPT !.fields = Merged(@, request)] \in Entry
    BY <2>1, MergedIsRequest DEF Entry
  <2>3. x \in Held
    BY <2>2 DEF Held
  <2>4. x.at = i /\ x.image = [entries[i] EXCEPT !.fields = Merged(@, request)]
    OBVIOUS
  <2> HIDE DEF x
  <2>5. EditingTypes'
    BY <2>1, <2>3 DEF EditingTypes
  <2>6. ASSUME NEW d \in Editors \ shaken', editor'[d] # Rest PROVE HoldsEdit(d)'
    <3>1. CASE d = e
      BY <2>1, <2>4, <3>1 DEF HoldsEdit, Merged, EditingTypes
    <3>2. CASE d # e
      <4>1. editor'[d] = editor[d] /\ HoldsEdit(d)
        BY <2>1, <2>6, <3>2 DEF EditingInv, EditingTypes
      <4> QED BY <2>1, <4>1 DEF HoldsEdit, Merged
    <3> QED BY <3>1, <3>2
  <2> QED BY <2>5, <2>6 DEF EditingInv
<1>4. ASSUME NEW e \in Editors, SaveEntry(e) PROVE EditingInv'
  <2>1. PICK i \in EditIds : i = editor[e].at /\ editor[e].image \in Entry
    BY <1>4, EntryFacts DEF SaveEntry, EditingTypes
  <2>2. /\ entries' = [entries EXCEPT ![i] = editor[e].image]
        /\ tornEntries' \subseteq tornEntries \cup {i}
        /\ shaken' = (shaken \ {e}) \cup {d \in Editors \ {e} : editor[d].at = i}
        /\ editor' = [editor EXCEPT ![e] = Rest]
        /\ UNCHANGED kind
    BY <1>4, <2>1 DEF SaveEntry, Save, Wrote
  <2>3. EditingTypes'
    BY <2>1, <2>2 DEF EditingTypes
  <2>4. ASSUME NEW d \in Editors \ shaken', editor'[d] # Rest PROVE HoldsEdit(d)'
    <3>1. d # e /\ editor'[d] = editor[d] /\ d \notin shaken /\ editor[d].at # i
      BY <2>2, <2>4 DEF EditingTypes
    <3>2. HoldsEdit(d) /\ entries'[editor[d].at] = entries[editor[d].at]
      BY <2>2, <2>4, <3>1 DEF EditingInv, EditingTypes
    <3> QED BY <2>2, <3>1, <3>2 DEF HoldsEdit, Merged
  <2> QED BY <2>3, <2>4 DEF EditingInv
<1>5. ASSUME NEW e \in Editors, SaveEntryFails(e) PROVE EditingInv'
  <2>1. /\ editor' = [editor EXCEPT ![e] = Rest]
        /\ shaken' = shaken \ {e}
        /\ UNCHANGED <<kind, entries, tornEntries>>
    BY <1>5 DEF SaveEntryFails
  <2>2. EditingTypes'
    BY <2>1 DEF EditingTypes
  <2>3. ASSUME NEW d \in Editors \ shaken', editor'[d] # Rest PROVE HoldsEdit(d)'
    <3>1. d # e /\ editor'[d] = editor[d] /\ d \notin shaken
      BY <2>1, <2>3 DEF EditingTypes
    <3> QED BY <2>1, <2>3, <3>1 DEF HoldsEdit, Merged, EditingInv
  <2> QED BY <2>2, <2>3 DEF EditingInv
<1>6. CASE UNCHANGED editingVars
  <2>1. UNCHANGED <<kind, entries, editor, shaken, tornEntries>>
    BY <1>6 DEF editingVars
  <2>2. \A e \in Editors : HoldsEdit(e) => HoldsEdit(e)'
    BY <2>1 DEF HoldsEdit, Merged
  <2>3. EditingTypes'
    BY <2>1 DEF EditingTypes
  <2> QED BY <2>1, <2>2, <2>3 DEF EditingInv
<1> QED BY <1>1, <1>2, <1>3, <1>4, <1>5, <1>6 DEF EditingNext
LEMMA EditingInvariant == EditingSpec => []EditingInv
  BY EditingInvInit, EditingInvNext, PTL DEF EditingSpec

LEMMA EditedIsMerged ==
  ASSUME EditingTypes, NEW fields \in Requests, NEW request \in Requests
  PROVE  Merged(fields, request) = EditPromise!Edited(fields, request)
<1>1. DOMAIN fields = Fields /\ request = [f \in Fields |-> request[f]]
  BY DEF Requests
<1>2. CASE kind \in {"category", "banner"}
  BY <1>1, <1>2 DEF Merged, KeepingLeftOut, EditPromise!Edited
<1>3. CASE kind = "address"
  BY <1>1, <1>3 DEF Merged, GuardedByStored, EditPromise!Edited
<1>4. CASE kind = "user"
  BY <1>1, <1>4 DEF Merged, EditPromise!Edited
<1> QED BY <1>2, <1>3, <1>4 DEF EditingTypes, Kinds

(* What a Save makes of the row of a call that is not shaken.                 *)
LEMMA UnshakenSave ==
  ASSUME EditingInv, NEW e \in Editors, e \notin shaken, SaveEntry(e),
         NEW i \in EditIds, i = editor[e].at
  PROVE  /\ entries[i] \in Entry
         /\ UNCHANGED tornEntries
         /\ \E request \in Requests :
               entries'[i] = [entries[i] EXCEPT !.fields = Merged(entries[i].fields, request)]
<1>1. editor[e] # Rest /\ HoldsEdit(e)
  BY DEF SaveEntry, EditingInv
<1>2. entries' = [entries EXCEPT ![i] = editor[e].image]
  BY DEF SaveEntry, Save
<1>3. entries'[i] = editor[e].image
  BY <1>2 DEF EditingInv, EditingTypes
<1>4. UNCHANGED tornEntries
  BY DEF SaveEntry
<1> QED BY <1>1, <1>3, <1>4 DEF HoldsEdit

LEMMA ShownFacts ==
  ASSUME EditingTypes
  PROVE  \A i \in EditIds : Shown(i) = IF entries[i] \in Entry THEN entries[i].fields ELSE Absent
  BY EntryFacts DEF Shown

LEMMA ShownFactsAfter ==
  ASSUME EditingTypes'
  PROVE  \A i \in EditIds : Shown(i)' = IF entries'[i] \in Entry THEN entries'[i].fields ELSE Absent
<1>1. \A x \in Entry : x.state = "live"
  BY DEF Entry
<1>2. \A i \in EditIds : i \in Live(entries)' <=> entries'[i] \in Entry
  BY <1>1 DEF EditingTypes, Live, Free, Deleted
<1> QED BY <1>2 DEF Shown

LEMMA EditingStepKeepsPromise ==
  ASSUME EditingInv, [EditingNext]_editingVars
  PROVE  [EditPromise!Next]_<<kind, [i \in EditIds |-> Shown(i)], tornEntries>>
<1> EditingTypes /\ EditingTypes'
  BY EditingInvNext DEF EditingInv
<1> DEFINE Others(i) == \A j \in EditIds \ {i} : Shown(j)' = Shown(j)
<1>1. ASSUME NEW fields \in Requests, CreateEntry(fields) PROVE EditPromise!Next
  <2>1. PICK i \in EditIds : /\ entries[i].state = "free"
                             /\ entries' = [entries EXCEPT ![i] = [state |-> "live", fields |-> fields]]
    BY <1>1 DEF CreateEntry, IsNextId, IsFirst, Save
  <2>2. [state |-> "live", fields |-> fields] \in Entry /\ entries[i] \notin Entry
    BY <2>1, EntryFacts DEF Entry
  <2>3. Others(i) /\ Shown(i) = Absent /\ Shown(i)' = fields
    BY <2>1, <2>2, ShownFacts, ShownFactsAfter DEF EditingTypes
  <2>4. UNCHANGED <<kind, tornEntries>>
    BY <1>1 DEF CreateEntry
  <2> QED BY <2>3, <2>4 DEF EditPromise!Next, EditPromise!Create
<1>2. ASSUME NEW i \in EditIds, DeleteEntry(i) PROVE EditPromise!Next
  <2>1. /\ \A j \in EditIds : entries'[j] = IF j = i THEN Deleted ELSE entries[j]
        /\ kind # "user" /\ tornEntries' = tornEntries \ {i} /\ UNCHANGED kind
    BY <1>2 DEF DeleteEntry, SoftDelete, EditingTypes
  <2>2. Others(i) /\ Shown(i)' = Absent
    BY <2>1, EntryFacts, ShownFacts, ShownFactsAfter
  <2> QED BY <2>1, <2>2 DEF EditPromise!Next, EditPromise!Remove
<1>3. ASSUME NEW e \in Editors, SaveEntry(e) PROVE EditPromise!Next
  <2>1. PICK i \in EditIds : i = editor[e].at
    BY <1>3, EntryFacts DEF SaveEntry, EditingTypes
  <2>2. UNCHANGED kind /\ \A j \in EditIds \ {i} : entries'[j] = entries[j]
    BY <1>3, <2>1 DEF SaveEntry, Save, EditingTypes
  <2>3. Others(i)
    BY <2>2, ShownFacts, ShownFactsAfter
  <2>4. CASE e \in shaken
    <3>1. tornEntries' = tornEntries \cup {i}
      BY <1>3, <2>1, <2>4 DEF SaveEntry
    <3> QED BY <2>2, <2>3, <3>1 DEF EditPromise!Next, EditPromise!Tear
  <2>5. CASE e \notin shaken
    <3>1. PICK request \in Requests :
             /\ entries[i] \in Entry /\ UNCHANGED tornEntries
             /\ entries'[i] = [entries[i] EXCEPT !.fields = Merged(entries[i].fields, request)]
      BY <1>3, <2>1, <2>5, UnshakenSave
    <3>2. entries[i].fields \in Requests
      BY <3>1, EntryFacts
    <3>3. entries'[i] \in Entry /\ entries'[i].fields = Merged(entries[i].fields, request)
      BY <3>1, <3>2, MergedIsRequest DEF Entry
    <3>4. /\ Shown(i) = entries[i].fields
          /\ Shown(i)' = Merged(entries[i].fields, request)
          /\ Shown(i) # Absent
      BY <3>1, <3>2, <3>3, ShownFacts, ShownFactsAfter, EditingAssumption DEF Requests
    <3>5. Shown(i)' = EditPromise!Edited(Shown(i), request)
      BY <3>2, <3>4, EditedIsMerged
    <3> QED BY <2>2, <2>3, <3>1, <3>4, <3>5 DEF EditPromise!Next, EditPromise!Edit
  <2> QED BY <2>4, <2>5
<1>4. CASE UNCHANGED <<kind, entries, tornEntries>>
  <2>1. \A i \in EditIds : Shown(i)' = Shown(i)
    BY <1>4, ShownFacts, ShownFactsAfter
  <2> QED BY <1>4, <2>1
<1> QED BY <1>1, <1>2, <1>3, <1>4
     DEF EditingNext, ReadEntry, SaveEntryFails, editingVars

(* On a row that is not torn, a handler that reads, merges and saves makes    *)
(* the edit EditPromise describes in one step.                                *)
THEOREM EditsAreAtomic == EditingSpec => EditsKeepPromise
<1>1. EditingInit => EditPromise!Init
  <2> SUFFICES ASSUME EditingInit PROVE EditPromise!Init
    OBVIOUS
  <2>1. EditingTypes
    BY EditingInvInit DEF EditingInv
  <2>2. \A i \in EditIds : Shown(i) \in Requests \cup {Absent}
    BY <2>1, ShownFacts, EntryFacts
  <2> QED BY <2>2 DEF EditingInit, EditPromise!Init
<1>2. EditingInv /\ [EditingNext]_editingVars
         => [EditPromise!Next]_<<kind, [i \in EditIds |-> Shown(i)], tornEntries>>
  BY EditingStepKeepsPromise
<1> QED BY <1>1, <1>2, EditingInvariant, PTL DEF EditingSpec, EditsKeepPromise, EditPromise!Spec

-----------------------------------------------------------------------------
(* Pages.                                                                     *)

(* A page has from 1 to 100 rows.                                             *)
LEMMA LimitIsSize == ASSUME NEW s \in Int PROVE Limit(s) \in 1..100
  BY DEF Limit

(* Pages do not overlap: a later one starts where an earlier one has ended.   *)
LEMMA PagesApart ==
  ASSUME NEW n \in Nat, NEW p \in 1..n, NEW q \in 1..n, p < q, NEW l \in 1..100
  PROVE  /\ (p - 1) * l \in Nat /\ (q - 1) * l \in Nat
         /\ (p - 1) * l + l <= (q - 1) * l
PROOF
<1>1. PICK d \in Nat : q = p + d + 1
  <2>1. q - p - 1 \in Nat /\ q = p + (q - p - 1) + 1
    OBVIOUS
  <2> QED BY <2>1
<1>2. d * l \in Nat /\ (p - 1) * l \in Nat
  OBVIOUS
<1>3. (q - 1) * l = (p - 1) * l + l + d * l
  BY <1>1
<1> QED BY <1>2, <1>3

(* Page p of l rows holds row k.                                              *)
Holds(l, p, k) == (p - 1) * l < k /\ k <= (p - 1) * l + l

(* Every row is on a page, and no later than on the page of its own number.   *)
LEMMA EveryRowHasAPage ==
  ASSUME NEW l \in 1..100, NEW k \in Nat, k >= 1
  PROVE  \E p \in 1..k : Holds(l, p, k)
PROOF
<1> DEFINE m == (k - 1) \div l
<1>1. m \in Int /\ m * l <= k - 1 /\ k - 1 < m * l + l
  OBVIOUS
<1> HIDE DEF m
<1>2. m >= 0 /\ m <= k - 1
  <2>1. m >= 0
    <3>1. SUFFICES ASSUME m < 0 PROVE FALSE
      BY <1>1
    <3>2. (0 - m - 1) * l >= 0
      BY <1>1, <3>1
    <3>3. m * l + l = 0 - (0 - m - 1) * l
      BY <1>1
    <3> QED BY <1>1, <3>2, <3>3
  <2>2. m * l >= m
    BY <1>1, <2>1
  <2> QED BY <1>1, <2>1, <2>2
<1>3. PICK p \in 1..k : p - 1 = m
  <2>1. m + 1 \in 1..k /\ (m + 1) - 1 = m
    BY <1>1, <1>2
  <2> QED BY <2>1
<1>4. (p - 1) * l = m * l
  BY <1>3
<1>5. Holds(l, p, k)
  BY <1>1, <1>4 DEF Holds
<1> QED BY <1>5

(* Whatever the size of the pages and however many rows there are, every row  *)
(* is on one page of a list and on no other.                                  *)
THEOREM PagesArePartition == PagesInit => PagesPartition
<1> SUFFICES ASSUME PagesInit, NEW k \in 1..count
             PROVE  /\ Cardinality({page \in 1..count : OnPage(k, page, size)}) = 1
                    /\ \A page \in {-1, 0} : OnPage(k, page, size) <=> OnPage(k, 1, size)
  BY DEF PagesPartition
<1>1. count \in Nat /\ size \in Int
  BY PagesAssumption DEF PagesInit
<1> DEFINE l == Limit(size)
           P == {page \in 1..count : OnPage(k, page, size)}
<1>2. l \in 1..100
  BY <1>1, LimitIsSize
<1> HIDE DEF l
<1>3. \A page \in 1..count :
        OnPage(k, page, size) <=> Holds(l, page, k)
  BY <1>1 DEF OnPage, Offset, Holds, l
<1>4. PICK p \in 1..k : Holds(l, p, k)
  <2>1. k \in Nat /\ k >= 1
    BY <1>1
  <2> QED BY <1>2, <2>1, EveryRowHasAPage
<1>5. p \in 1..count
  BY <1>1
<1>6. ASSUME NEW q \in 1..count, OnPage(k, q, size), q # p PROVE FALSE
  <2>1. (q - 1) * l < k /\ k <= (q - 1) * l + l
    BY <1>3, <1>6 DEF Holds
  <2>2. (p - 1) * l \in Int /\ (q - 1) * l \in Int
    BY <1>2, <1>5
  <2>3. CASE p < q
    <3>1. (p - 1) * l + l <= (q - 1) * l
      BY <1>1, <1>2, <1>5, <2>3, PagesApart
    <3> QED BY <1>1, <1>2, <1>4, <2>1, <2>2, <3>1 DEF Holds
  <2>4. CASE q < p
    <3>1. (q - 1) * l + l <= (p - 1) * l
      BY <1>1, <1>2, <1>5, <2>4, PagesApart
    <3> QED BY <1>1, <1>2, <1>4, <2>1, <2>2, <3>1 DEF Holds
  <2> QED BY <1>5, <1>6, <2>3, <2>4
<1>7. P = {p}
  BY <1>3, <1>4, <1>5, <1>6
<1>8. Cardinality(P) = 1
  BY <1>7, FS_Singleton
<1>9. \A page \in {-1, 0} : OnPage(k, page, size) <=> OnPage(k, 1, size)
  <2>1. \A page \in {-1, 0} : Offset(page, size) = 0
    BY DEF Offset
  <2>2. Offset(1, size) = 0
    BY <1>2 DEF Offset, l
  <2> QED BY <2>1, <2>2 DEF OnPage
<1> QED BY <1>8, <1>9
=============================================================================
