------------------------------- MODULE Accounts -------------------------------
(***************************************************************************)
(* Accounts, their API keys and tokens: provisioning, creation, renaming   *)
(* and deletion of users, the consent that lets admins look at a user's    *)
(* decks, and the two ways to a token (services/user.py,                   *)
(* services/api_key.py, services/auth.py and the routes that call them).   *)
(*                                                                         *)
(* A request is one transaction that begins with its authentication: that  *)
(* SELECT loads the row of the account, and the request writes later only  *)
(* those columns that it changes with respect to what was loaded.  UPDATE, *)
(* DELETE and the entries in the unique index of the names wait for        *)
(* transactions that touched the same row or name; the look-up of a name   *)
(* does not.  Every token is taken to be still valid.                      *)
(***************************************************************************)
EXTENDS Naturals, FiniteSets

CONSTANTS Users,      \* user ids: each is generated once
          Names,      \* display names, trimmed and in lower case
          Clients,    \* connections
          Ops,        \* the kinds of requests they make
          Bootstrap,  \* the account scripts/bootstrap_admin.py makes
          NoUser, NoName

AllOps == {"provision", "create", "rename", "grant", "revoke", "delete", "token"}

ASSUME OpsAssumption == Ops \subseteq AllOps
ASSUME UsersAssumption == Bootstrap \in Users /\ NoUser \notin Users
ASSUME NamesAssumption == NoName \notin Names

VARIABLES user,     \* [Users -> the row of the account and the scope of its key]
          token,    \* [Users -> the widest scope of the tokens issued to it]
          made,     \* ids generated so far
          wish,     \* [Users -> did the last consent request to commit grant?] (history)
          crossed,  \* users whose last consent request met the opposite one (history)
          feud,     \* has an admin been deleted by one deleted before? (history)
          tx        \* [Clients -> the request in progress]

vars == <<user, token, made, wish, crossed, feud, tx>>
data == <<user, token, wish, crossed, feud>>

(* key: the scope of the API key provisioned with it, or "none".            *)
NoRow == [alive |-> FALSE, name |-> NoName, admin |-> FALSE, password |-> FALSE,
          key |-> "none", granted |-> FALSE, stamped |-> FALSE]

(* by: who asks; id: the account concerned; granted and stamped: as loaded; *)
(* row, named, keyed: has it written the row, the name, locked the key?     *)
Rest == [op |-> "none", at |-> "idle", by |-> NoUser, id |-> NoUser, name |-> NoName,
         admin |-> FALSE, granted |-> FALSE, stamped |-> FALSE,
         row |-> FALSE, named |-> FALSE, keyed |-> NoUser]

Init ==
  /\ user = [u \in Users |-> IF u = Bootstrap
                             THEN [NoRow EXCEPT !.alive = TRUE, !.key = "admin"] ELSE NoRow]
  /\ token = [u \in Users |-> "none"]
  /\ made = {Bootstrap} /\ wish = [u \in Users |-> FALSE]
  /\ crossed = {} /\ feud = FALSE
  /\ tx = [r \in Clients |-> Rest]

-----------------------------------------------------------------------------
Update(r, request) == tx' = [tx EXCEPT ![r] = request]
Finish(r) == Update(r, Rest)
Go(r, stage) == Update(r, [tx[r] EXCEPT !.at = stage])

(* An account other than the one concerned has the name.                    *)
Taken(r) == \E u \in Users \ {tx[r].id} : user[u].alive /\ user[u].name = tx[r].name

(* get_current_user_from_token, and require_user_scope for an admin.        *)
SignedIn(u) == user[u].alive /\ token[u] # "none"
AdminSignedIn(u) == user[u].alive /\ token[u] = "admin"

Begin(r, request) ==
  /\ request.op \in Ops /\ tx[r].at = "idle"
  /\ Update(r, request)
  /\ UNCHANGED data

(* Registration by anybody, or by an admin who may choose the role.         *)
BeginProvision(r, by, u, n, admin) ==
  /\ u \notin made /\ made' = made \cup {u}
  /\ IF by = NoUser THEN ~admin ELSE AdminSignedIn(by)
  /\ Begin(r, [Rest EXCEPT !.op = "provision", !.at = "check", !.id = u, !.name = n,
                           !.admin = admin])

(* POST /v1/users presents an API key, not a token.                         *)
BeginCreate(r, by, u, n) ==
  /\ u \notin made /\ made' = made \cup {u}
  /\ user[by].key # "none"
  /\ Begin(r, [Rest EXCEPT !.op = "create", !.at = "key used", !.by = by, !.id = u,
                           !.name = n])

BeginRename(r, u, n) ==
  /\ SignedIn(u) /\ user[u].name # n
  /\ Begin(r, [Rest EXCEPT !.op = "rename", !.at = "write", !.id = u, !.name = n])
  /\ UNCHANGED made

(* grant_admin_access and revoke_admin_access.                              *)
BeginConsent(r, u, op) ==
  /\ SignedIn(u)
  /\ Begin(r, [Rest EXCEPT !.op = op, !.at = "write", !.id = u,
                           !.granted = user[u].granted, !.stamped = user[u].stamped])
  /\ UNCHANGED made

(* MUTANT of BeginDelete: an admin may delete the own account.              *)
BeginDeleteAny(r, by, u) ==
  /\ AdminSignedIn(by) /\ user[u].alive
  /\ Begin(r, [Rest EXCEPT !.op = "delete", !.at = "write", !.by = by, !.id = u])
  /\ UNCHANGED made

BeginDelete(r, by, u) ==
  /\ AdminSignedIn(by) /\ by # u /\ user[u].alive
  /\ Begin(r, [Rest EXCEPT !.op = "delete", !.at = "write", !.by = by, !.id = u])
  /\ UNCHANGED made

(* POST /v1/auth/token with the key of one account and the id of another,   *)
(* or of the same.                                                          *)
BeginToken(r, by, u) ==
  /\ user[by].key # "none"
  /\ Begin(r, [Rest EXCEPT !.op = "token", !.at = "key used", !.by = by, !.id = u])
  /\ UNCHANGED made

-----------------------------------------------------------------------------
(* provision_user looks the name up: 409 if an account has it.              *)
CheckName(r) ==
  /\ tx[r].at = "check"
  /\ IF Taken(r) THEN Finish(r) ELSE Go(r, "write")
  /\ UNCHANGED <<data, made>>

RowFree(r) == \A s \in Clients \ {r} : ~(tx[s].row /\ tx[s].id = tx[r].id)
KeyFree(r, u) == \A s \in Clients \ {r} : tx[s].keyed # u

(* The entries of the index that an open transaction adds or removes.       *)
NamesOfTx(s) ==
  IF ~tx[s].row THEN {}
  ELSE ({user[tx[s].id].name} \cup (IF tx[s].named THEN {tx[s].name} ELSE {})) \ {NoName}

NameFree(r) == \A s \in Clients \ {r} : tx[r].name \notin NamesOfTx(s)

(* validate_api_key flushes last_used_at; a key that is gone by then is an  *)
(* error, and so is one of no admin for a creation.                         *)
UseKey(r) ==
  /\ tx[r].at = "key used"
  /\ KeyFree(r, tx[r].by)
  /\ IF \/ user[tx[r].by].key = "none"
        \/ tx[r].op = "create" /\ user[tx[r].by].key # "admin"
     THEN Finish(r)
     ELSE Update(r, [tx[r] EXCEPT !.keyed = tx[r].by,
                            !.at = IF tx[r].op = "token" THEN "commit" ELSE "write"])
  /\ UNCHANGED <<data, made>>

(* MUTANT of WriteName: the names have no unique index.                     *)
WriteNameWithoutIndex(r) ==
  /\ tx[r].at = "write" /\ tx[r].op \in {"provision", "create", "rename"}
  /\ RowFree(r)
  /\ IF tx[r].op = "rename" /\ ~user[tx[r].id].alive
     THEN Finish(r)
     ELSE Update(r, [tx[r] EXCEPT !.row = TRUE, !.named = TRUE,
                       !.at = IF tx[r].op = "provision" THEN "key" ELSE "commit"])
  /\ UNCHANGED <<data, made>>

(* The INSERT of the account or the UPDATE of its name.  A name that is     *)
(* taken is a 409 for provisioning and a 500 for the others; an UPDATE of   *)
(* an account that is gone is an error too.                                 *)
WriteName(r) ==
  /\ tx[r].at = "write" /\ tx[r].op \in {"provision", "create", "rename"}
  /\ RowFree(r) /\ NameFree(r)
  /\ IF Taken(r) \/ (tx[r].op = "rename" /\ ~user[tx[r].id].alive)
     THEN Finish(r)
     ELSE Update(r, [tx[r] EXCEPT !.row = TRUE, !.named = TRUE,
                       !.at = IF tx[r].op = "provision" THEN "key" ELSE "commit"])
  /\ UNCHANGED <<data, made>>

(* MUTANT of WriteKey: the account is committed ahead of its key.           *)
WriteKeyLater(r) ==
  /\ tx[r].at = "key"
  /\ user' = [user EXCEPT ![tx[r].id].alive = TRUE, ![tx[r].id].name = tx[r].name,
                          ![tx[r].id].admin = tx[r].admin]
  /\ Go(r, "commit")
  /\ UNCHANGED <<token, wish, crossed, feud, made>>

(* create_api_key in the transaction of the account.                        *)
WriteKey(r) ==
  /\ tx[r].at = "key"
  /\ Go(r, "commit")
  /\ UNCHANGED <<data, made>>

Consents == {"grant", "revoke"}

(* A revocation that found nothing to revoke writes nothing.                *)
Idle(r) == tx[r].op = "revoke" /\ ~tx[r].granted /\ ~tx[r].stamped

WriteConsent(r) ==
  /\ tx[r].at = "write" /\ tx[r].op \in Consents
  /\ Idle(r) \/ RowFree(r)
  /\ IF ~Idle(r) /\ ~user[tx[r].id].alive
     THEN Finish(r)
     ELSE Update(r, [tx[r] EXCEPT !.row = ~Idle(r), !.at = "commit"])
  /\ UNCHANGED <<data, made>>

(* DELETE of the account; that it is gone by now is only a warning.         *)
WriteDelete(r) ==
  /\ tx[r].at = "write" /\ tx[r].op = "delete"
  /\ RowFree(r)
  /\ Update(r, [tx[r] EXCEPT !.row = TRUE, !.at = "cascade"])
  /\ UNCHANGED <<data, made>>

(* The foreign key of the API keys deletes them along: it waits for a key   *)
(* that is being used.                                                      *)
Cascade(r) ==
  /\ tx[r].at = "cascade"
  /\ KeyFree(r, tx[r].id)
  /\ Update(r, [tx[r] EXCEPT !.keyed = tx[r].id, !.at = "commit"])
  /\ UNCHANGED <<data, made>>

-----------------------------------------------------------------------------
CommitAccount(r) ==
  /\ tx[r].at = "commit" /\ tx[r].op \in {"provision", "create"}
  /\ user' = [user EXCEPT ![tx[r].id] =
       [NoRow EXCEPT !.alive = TRUE, !.name = tx[r].name, !.admin = tx[r].admin,
                     !.password = tx[r].op = "provision",
                     !.key = IF tx[r].op = "create" THEN "none"
                             ELSE IF tx[r].admin THEN "admin" ELSE "user"]]
  /\ Finish(r)
  /\ UNCHANGED <<token, wish, crossed, feud, made>>

CommitRename(r) ==
  /\ tx[r].at = "commit" /\ tx[r].op = "rename"
  /\ user' = [user EXCEPT ![tx[r].id].name = tx[r].name]
  /\ Finish(r)
  /\ UNCHANGED <<token, wish, crossed, feud, made>>

(* MUTANT of Consented: a revocation leaves the time of the grant.          *)
ConsentedBackwards(r) ==
  LET u == user[tx[r].id]
      wanted == tx[r].op = "grant"
  IN [u EXCEPT !.granted = IF tx[r].granted # wanted THEN wanted ELSE @,
               !.stamped = IF wanted THEN TRUE ELSE @]

(* Both columns; granted only where it differs from what was loaded.  A     *)
(* grant always has a new time, a revocation clears the one it has loaded.  *)
Consented(r) ==
  LET u == user[tx[r].id]
      wanted == tx[r].op = "grant"
  IN [u EXCEPT !.granted = IF tx[r].granted # wanted THEN wanted ELSE @,
               !.stamped = IF wanted THEN TRUE ELSE IF tx[r].stamped THEN FALSE ELSE @]

(* The opposite request has committed since the row was loaded.             *)
Crossing(r) ==
  LET u == user[tx[r].id]
      wanted == tx[r].op = "grant"
  IN /\ <<u.granted, u.stamped>> # <<tx[r].granted, tx[r].stamped>>
     /\ <<u.granted, u.stamped>> # <<wanted, wanted>>

CommitConsent(r) ==
  LET u == tx[r].id
  IN /\ tx[r].at = "commit" /\ tx[r].op \in Consents
     /\ user' = IF Idle(r) THEN user ELSE [user EXCEPT ![u] = Consented(r)]
     /\ wish' = [wish EXCEPT ![u] = user[u].alive /\ tx[r].op = "grant"]
     /\ crossed' = IF Crossing(r) /\ user[u].alive THEN crossed \cup {u} ELSE crossed \ {u}
     /\ Finish(r)
     /\ UNCHANGED <<token, feud, made>>

(* The tokens of an account that is gone are refused from now on.           *)
CommitDelete(r) ==
  /\ tx[r].at = "commit" /\ tx[r].op = "delete"
  /\ user' = [user EXCEPT ![tx[r].id] = NoRow]
  /\ wish' = [wish EXCEPT ![tx[r].id] = FALSE]
  /\ crossed' = crossed \ {tx[r].id}
  /\ token' = [token EXCEPT ![tx[r].id] = "none"]
  /\ feud' = (feud \/ (~user[tx[r].by].alive /\ user[tx[r].id].key = "admin"))
  /\ Finish(r)
  /\ UNCHANGED made

Wider(s, t) == IF "admin" \in {s, t} THEN "admin" ELSE "user"

(* get_access_token: 401 for an unknown account, 403 for another's key.     *)
CommitToken(r) ==
  LET u == tx[r].id
  IN /\ tx[r].at = "commit" /\ tx[r].op = "token"
     /\ token' = IF user[u].alive /\ u = tx[r].by
                 THEN [token EXCEPT ![u] = Wider(@, user[u].key)] ELSE token
     /\ Finish(r)
     /\ UNCHANGED <<user, wish, crossed, feud, made>>

(* scopes_for_role                                                          *)
ScopesForRole(u) == IF user[u].admin /\ user[u].granted THEN "admin" ELSE "user"

(* POST /v1/auth/login: one SELECT, by name.                                *)
Login(u) ==
  /\ user[u].alive /\ user[u].password /\ user[u].name # NoName
  /\ token' = [token EXCEPT ![u] = Wider(@, ScopesForRole(u))]
  /\ UNCHANGED <<user, wish, crossed, feud, made, tx>>

-----------------------------------------------------------------------------
(* s holds what r waits for; PostgreSQL aborts one request of a cycle.      *)
Blocks(s, r) ==
  /\ s # r
  /\ \/ /\ tx[r].at = "write" /\ ~Idle(r)
        /\ \/ tx[s].row /\ tx[s].id = tx[r].id
           \/ tx[r].op \notin Consents \cup {"delete"} /\ tx[r].name \in NamesOfTx(s)
     \/ tx[r].at = "key used" /\ tx[s].keyed = tx[r].by
     \/ tx[r].at = "cascade" /\ tx[s].keyed = tx[r].id

Stuck(S) == S # {} /\ \A r \in S : \E s \in S : Blocks(s, r)
Cycle(S) == Stuck(S) /\ \A T \in SUBSET S : Stuck(T) => T = S

DeadlockVictim(r) ==
  /\ \E S \in SUBSET Clients : r \in S /\ Cycle(S)
  /\ Finish(r)
  /\ UNCHANGED <<data, made>>

(* The connection breaks or the process stops before COMMIT.                *)
Lose(r) ==
  /\ tx[r].at # "idle"
  /\ Finish(r)
  /\ UNCHANGED <<data, made>>

Arrive(r) ==
  \/ \E by \in Users \cup {NoUser}, u \in Users, n \in Names, admin \in BOOLEAN :
       BeginProvision(r, by, u, n, admin)
  \/ \E by, u \in Users, n \in Names : BeginCreate(r, by, u, n)
  \/ \E u \in Users, n \in Names : BeginRename(r, u, n)
  \/ \E u \in Users, op \in Consents : BeginConsent(r, u, op)
  \/ \E by, u \in Users : BeginDelete(r, by, u) \/ BeginToken(r, by, u)

Proceed(r) ==
  \/ CheckName(r) \/ UseKey(r) \/ WriteName(r) \/ WriteKey(r) \/ WriteConsent(r)
  \/ WriteDelete(r) \/ Cascade(r) \/ CommitAccount(r) \/ CommitRename(r) \/ CommitConsent(r)
  \/ CommitDelete(r) \/ CommitToken(r) \/ DeadlockVictim(r)

Next ==
  \/ \E r \in Clients : Arrive(r) \/ Proceed(r) \/ Lose(r)
  \/ \E u \in Users : Login(u)

Spec == Init /\ [][Next]_vars

-----------------------------------------------------------------------------
Rows == [alive : BOOLEAN, name : Names \cup {NoName}, admin : BOOLEAN, password : BOOLEAN,
         key : {"none", "user", "admin"}, granted : BOOLEAN, stamped : BOOLEAN]

Requests == [op : AllOps \cup {"none"},
             at : {"idle", "check", "key used", "write", "key", "cascade", "commit"},
             by : Users \cup {NoUser}, id : Users \cup {NoUser}, name : Names \cup {NoName},
             admin : BOOLEAN, granted : BOOLEAN, stamped : BOOLEAN,
             row : BOOLEAN, named : BOOLEAN, keyed : Users \cup {NoUser}]

(* Every variable stays within its type; no two requests have written the   *)
(* same account or hold the same key.                                       *)
TypeOK ==
  /\ user \in [Users -> Rows]
  /\ token \in [Users -> {"none", "user", "admin"}]
  /\ made \subseteq Users /\ crossed \subseteq Users /\ feud \in BOOLEAN
  /\ wish \in [Users -> BOOLEAN]
  /\ tx \in [Clients -> Requests]
  /\ \A r, s \in Clients : r # s =>
       /\ ~(tx[r].row /\ tx[s].row /\ tx[r].id = tx[s].id)
       /\ tx[r].keyed = NoUser \/ tx[r].keyed # tx[s].keyed

(* However registrations, creations and renamings interleave between the    *)
(* look-up of a name and its writing (user.py:301-320), no two accounts     *)
(* have the same normalized display name.                                   *)
NamesDiffer ==
  \A u, v \in Users : u # v /\ user[u].alive /\ user[v].alive =>
    user[u].name = NoName \/ user[u].name # user[v].name

(* An account that was provisioned has its API key, of the scope of its     *)
(* role, from its first moment to its last, whatever breaks off in between  *)
(* (user.py:320-345), and no key outlives its account.                      *)
KeyedAccounts ==
  \A u \in Users : /\ user[u].password => user[u].key = (IF user[u].admin THEN "admin" ELSE "user")
                   /\ user[u].admin => user[u].key = "admin"
                   /\ user[u].key # "none" => user[u].alive

(* The consent an account shows (granted, and since when) is that of the    *)
(* last request about it that was committed, unless the opposite request    *)
(* was committed between its authentication and its own commit              *)
(* (provision.py:138-140, 162-164).                                         *)
ConsentTells ==
  \A u \in Users : user[u].alive /\ u \notin crossed =>
    user[u].granted = wish[u] /\ user[u].stamped = wish[u]

(* There is an admin left unless an admin was deleted by another who had    *)
(* been deleted since the request was authenticated (admin.py:148: nobody   *)
(* deletes the own account).                                                *)
SomeAdminLeft == feud \/ \E u \in Users : user[u].alive /\ user[u].key = "admin"

(* Revoking consent revokes "any admin's ability to view decks"             *)
(* (provision.py:155), until it is granted again.                           *)
RevocationHolds == \A u \in Users : ~wish[u] => ~user[u].granted
=============================================================================
