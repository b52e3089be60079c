------------------------------ MODULE Accounts ------------------------------
(* Users who register (user_srv/handler/user.go, CreateUser) and what they    *)
(* mark as favourites (userop_srv/handler/userfav.go).  Both lean on a unique *)
(* index: CreateUser reads and then creates, AddUserFav just creates.         *)
EXTENDS Gorm

CONSTANTS
    Registrations,  \* calls of CreateUser that may run at a time
    Mobiles,        \* mobile numbers
    UserIds,        \* ids of table user (a bound)
    FavKeys         \* pairs of a user and a goods: the keys of idx_user_goods

ASSUME AccountsAssumption == UserIds \subseteq Int

VARIABLES
    users,          \* table user
    asks,           \* the mobile each call has looked up and not created yet, or Free
    welcomed,       \* how often a client was told that its user was created
    favs,           \* the state of the row of each key in table userfav
    wanted          \* keys whose last call that went through asked for them

accountsVars == <<users, asks, welcomed, favs, wanted>>

User == [state : {"live"}, mobile : Mobiles]

AccountsInit ==
    /\ users = [i \in UserIds |-> Free]
    /\ asks = [r \in Registrations |-> Free]
    /\ welcomed = [m \in Mobiles |-> 0]
    /\ favs = [k \in FavKeys |-> "free"]
    /\ wanted = {}

(* Mutant: the index on the mobile is not unique.                             *)
MobileTakenNever(m) == FALSE

(* The unique index on the mobile has m.                                      *)
MobileTaken(m) == \E i \in Live(users) : users[i].mobile = m

-----------------------------------------------------------------------------
(* CreateUser looks the mobile up and refuses one that is taken.  A read that *)
(* fails goes on as if there were none, which then is as if the mobile had    *)
(* been taken right after the read.                                           *)
CreateUser(r, m) ==
    /\ asks[r] = Free
    /\ m \notin {users[i].mobile : i \in Live(users)}
    /\ asks' = [asks EXCEPT ![r] = [state |-> "live", mobile |-> m]]
    /\ UNCHANGED <<users, welcomed, favs, wanted>>

(* The INSERT, which the index refuses for a mobile taken in the meantime.    *)
CreateUserInserts(r) ==
    /\ asks[r] # Free
    /\ ~MobileTaken(asks[r].mobile)
    /\ \E i \in UserIds :
          /\ IsNextId(i, users)
          /\ users' = Save(users, i, asks[r])
    /\ welcomed' = [welcomed EXCEPT ![asks[r].mobile] = @ + 1]
    /\ asks' = [asks EXCEPT ![r] = Free]
    /\ UNCHANGED <<favs, wanted>>

(* The INSERT fails, or it is done and the answer is lost: Internal.          *)
CreateUserFails(r) ==
    /\ asks[r] # Free
    /\ \/ UNCHANGED users
       \/ /\ ~MobileTaken(asks[r].mobile)
          /\ \E i \in UserIds :
                /\ IsNextId(i, users)
                /\ users' = Save(users, i, asks[r])
    /\ asks' = [asks EXCEPT ![r] = Free]
    /\ UNCHANGED <<welcomed, favs, wanted>>

-----------------------------------------------------------------------------
(* AddUserFav: an INSERT.  The index has one row for each key, deleted or     *)
(* not, and the error of a second one is dropped.                             *)
AddUserFav(k) ==
    /\ favs' = [favs EXCEPT ![k] = IF @ = "free" THEN "live" ELSE @]
    /\ wanted' = wanted \cup {k}
    /\ UNCHANGED <<users, asks, welcomed>>

(* The INSERT fails for another reason and is not done.  That error is        *)
(* dropped too: the client is told OK, but the call did not go through.       *)
AddUserFavFails(k) ==
    /\ favs[k] = "free"
    /\ UNCHANGED accountsVars

(* Mutant: a soft delete, as everywhere else.                                 *)
DeleteUserFavSoftly(k) ==
    /\ favs[k] = "live"
    /\ favs' = [favs EXCEPT ![k] = "deleted"]
    /\ wanted' = wanted \ {k}
    /\ UNCHANGED <<users, asks, welcomed>>

(* DeleteUserFav is Unscoped: the row goes for good, and its key with it.     *)
DeleteUserFav(k) ==
    /\ favs[k] = "live"
    /\ favs' = [favs EXCEPT ![k] = "free"]
    /\ wanted' = wanted \ {k}
    /\ UNCHANGED <<users, asks, welcomed>>

AccountsNext ==
    \/ \E r \in Registrations, m \in Mobiles : CreateUser(r, m)
    \/ \E r \in Registrations : CreateUserInserts(r)
    \/ \E r \in Registrations : CreateUserFails(r)
    \/ \E k \in FavKeys : AddUserFav(k)
    \/ \E k \in FavKeys : AddUserFavFails(k)
    \/ \E k \in FavKeys : DeleteUserFav(k)

AccountsSpec == AccountsInit /\ [][AccountsNext]_accountsVars

-----------------------------------------------------------------------------
(* Properties.                                                                *)

(* However many calls of CreateUser overlap, a mobile has one user, and one   *)
(* client at most was told that it created it.                                *)
RegisteredOnce ==
    /\ \A i, j \in Live(users) : users[i].mobile = users[j].mobile => i = j
    /\ \A m \in Mobiles : welcomed[m] \in {0, 1}
    /\ \A m \in Mobiles : welcomed[m] = 1 => MobileTaken(m)

(* A goods is a favourite exactly if the last call about it that went through *)
(* asked for it: also a favourite that was deleted can be added again, which  *)
(* the silent refusal of a second row would hide.                             *)
FavsAsAsked == \A k \in FavKeys : favs[k] = "live" <=> k \in wanted
=============================================================================
