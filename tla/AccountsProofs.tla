---------------------------- MODULE AccountsProofs ----------------------------
(***************************************************************************)
(* What Accounts promises, for any number of accounts, names, connections  *)
(* and any mix of requests.                                                *)
(***************************************************************************)
EXTENDS Accounts, TLAPS

Naming == {"provision", "create", "rename"}

(* What a request in progress has done by the stage it has reached.         *)
Shape(q) ==
  /\ q.named => q.row /\ q.name \in Names /\ q.at \in {"key", "commit"} /\ q.op \in Naming
  /\ q.row => q.at \in {"key", "cascade", "commit"}
  /\ q.at # "idle" => q.id \in Users
  /\ q.at \in {"check", "write"} /\ q.op \in Naming => q.name \in Names
  /\ q.at = "check" => q.op = "provision"
  /\ q.at = "key used" => q.op \in {"create", "token"} /\ q.by \in Users
                          /\ (q.op = "create" => q.name \in Names)
  /\ q.at = "key" => q.op = "provision" /\ q.named
  /\ q.at = "cascade" => q.op = "delete"
  /\ q.at = "commit" /\ q.op \in Naming => q.named
  /\ q.op = "create" => ~q.admin

(* An account about to be: its id is used by nothing else yet.              *)
Pending(q) == q.at # "idle" /\ q.op \in {"provision", "create"}
Fresh(q) == Pending(q) => q.id \in made /\ ~user[q.id].alive

Deleting(q) == q.at # "idle" /\ q.op = "delete"
ByAdmin(q) ==
  Deleting(q) => q.by \in made /\ q.by # q.id /\ (user[q.by].alive => user[q.by].key = "admin")

(* The name it has entered into the index is no other account's.            *)
Reserved(q) ==
  q.named => \A u \in Users \ {q.id} : user[u].alive => user[u].name # q.name

Sound(q) == Shape(q) /\ Fresh(q) /\ ByAdmin(q) /\ Reserved(q)

(* What the locks and the generated ids keep apart.                         *)
Apart(p, q) ==
  /\ ~(p.row /\ q.row /\ p.id = q.id)
  /\ p.keyed = NoUser \/ p.keyed # q.keyed
  /\ p.named /\ q.named => p.name # q.name
  /\ Pending(p) /\ Pending(q) => p.id # q.id
  /\ Pending(p) /\ Deleting(q) => q.by # p.id

Typed ==
  /\ user \in [Users -> Rows]
  /\ token \in [Users -> {"none", "user", "admin"}]
  /\ made \subseteq Users /\ crossed \subseteq Users /\ feud \in BOOLEAN
  /\ wish \in [Users -> BOOLEAN]
  /\ tx \in [Clients -> Requests]

AllSound == \A r \in Clients : Sound(tx[r])
AllApart == \A r, s \in Clients : r # s => Apart(tx[r], tx[s])

(* A token is of an account that exists, an admin's of one with such a key. *)
TokensRight == \A u \in Users : /\ token[u] # "none" => user[u].alive
                                /\ token[u] = "admin" => user[u].key = "admin"
AllMade == \A u \in Users : user[u].alive => u \in made
NoOrphanWish == \A u \in Users : ~user[u].alive => ~wish[u]

OfRows == NamesDiffer /\ KeyedAccounts /\ ConsentTells /\ SomeAdminLeft /\ TokensRight
          /\ AllMade /\ NoOrphanWish

IInv == Typed /\ AllSound /\ AllApart /\ OfRows

LEMMA RestTyped == Rest \in Requests
  BY DEF Rest, Requests, AllOps

LEMMA InitIInv == Init => IInv
<1> SUFFICES ASSUME Init PROVE IInv
  OBVIOUS
<1>1. Typed
  BY RestTyped, UsersAssumption DEF Init, Typed, NoRow, Rows
<1>2. AllSound /\ AllApart
  BY DEF Init, AllSound, AllApart, Rest, Sound, Shape, Fresh, Pending, ByAdmin, Deleting,
         Reserved, Apart, Naming
<1>3. \A u \in Users : /\ user[u].alive <=> u = Bootstrap
                       /\ user[u].key = IF u = Bootstrap THEN "admin" ELSE "none"
                       /\ ~user[u].admin /\ ~user[u].password
                       /\ user[u].granted = FALSE /\ user[u].stamped = FALSE
  BY DEF Init, NoRow
<1>4. OfRows
  BY <1>3, UsersAssumption
     DEF Init, OfRows, NamesDiffer, KeyedAccounts, ConsentTells, SomeAdminLeft, TokensRight,
         AllMade, NoOrphanWish
<1>5. QED
  BY <1>1, <1>2, <1>4 DEF IInv

-----------------------------------------------------------------------------
(* Steps that change one request and no account.                            *)

LEMMA QuietStep ==
  ASSUME IInv, NEW r \in Clients, NEW q \in Requests,
         Update(r, q), UNCHANGED data, made \subseteq made', made' \subseteq Users,
         Shape(q), Reserved(q), ByAdmin(q),
         Pending(q) => q.id \in made' /\ ~user[q.id].alive,
         \A s \in Clients \ {r} : Apart(q, tx[s]) /\ Apart(tx[s], q)
  PROVE  IInv'
<1>1. tx' = [tx EXCEPT ![r] = q] /\ tx \in [Clients -> Requests]
  BY DEF IInv, Typed, Update
<1>2. tx'[r] = q /\ \A s \in Clients \ {r} : tx'[s] = tx[s]
  BY <1>1
<1>3. Typed'
  BY <1>1 DEF IInv, Typed, data
<1>4. AllSound'
  <2> SUFFICES ASSUME NEW s \in Clients PROVE Sound(tx[s])'
    BY DEF AllSound
  <2>1. CASE s = r
    BY <2>1, <1>2 DEF data, Sound, Shape, Fresh, Pending, ByAdmin, Deleting, Reserved
  <2>2. CASE s # r
    <3>1. Sound(tx[s]) /\ tx'[s] = tx[s] /\ user' = user
      BY <2>2, <1>2 DEF IInv, AllSound, data
    <3>2. Shape(tx[s])'
      BY <3>1 DEF Sound, Shape
    <3>3. Fresh(tx[s])' /\ ByAdmin(tx[s])'
      BY <3>1 DEF Sound, Fresh, Pending, ByAdmin, Deleting
    <3>4. Reserved(tx[s])'
      BY <3>1 DEF Sound, Reserved
    <3>5. QED
      BY <3>2, <3>3, <3>4 DEF Sound
  <2>3. QED
    BY <2>1, <2>2
<1>5. AllApart'
  <2> SUFFICES ASSUME NEW s \in Clients, NEW t \in Clients, s # t
               PROVE  Apart(tx'[s], tx'[t])
    BY DEF AllApart, Apart, Pending, Deleting
  <2>1. Apart(tx[s], tx[t])
    BY DEF IInv, AllApart
  <2>2. QED
    BY <2>1, <1>2
<1>6. OfRows'
  BY DEF IInv, OfRows, data, NamesDiffer, KeyedAccounts, ConsentTells, SomeAdminLeft,
         TokensRight, AllMade, NoOrphanWish
<1>7. QED
  BY <1>3, <1>4, <1>5, <1>6 DEF IInv

(* A request at rest is in nobody's way.                                    *)
LEMMA RestHolds ==
  /\ Shape(Rest) /\ Reserved(Rest) /\ ByAdmin(Rest) /\ Fresh(Rest) /\ ~Pending(Rest)
  /\ \A q \in Requests : Apart(Rest, q) /\ Apart(q, Rest)
  BY DEF Rest, Shape, Reserved, ByAdmin, Fresh, Pending, Deleting, Apart, Naming, Requests

LEMMA FinishStep ==
  ASSUME IInv, NEW r \in Clients, Finish(r), UNCHANGED <<data, made>>
  PROVE  IInv'
<1>1. \A s \in Clients \ {r} : Apart(Rest, tx[s]) /\ Apart(tx[s], Rest)
  BY RestHolds DEF IInv, Typed
<1>2. made \subseteq made' /\ made' \subseteq Users
  BY DEF IInv, Typed
<1>3. QED
  BY <1>1, <1>2, RestHolds, RestTyped, QuietStep DEF Finish

-----------------------------------------------------------------------------
(* A request that arrives has written and locked nothing; the id it makes   *)
(* is new, and an admin who deletes is there.                               *)
LEMMA ArrivalApart ==
  ASSUME IInv, NEW q, NEW r \in Clients,
         ~q.row, ~q.named, q.keyed = NoUser,
         Pending(q) => q.id \notin made, Deleting(q) => user[q.by].alive
  PROVE  \A s \in Clients \ {r} : Apart(q, tx[s]) /\ Apart(tx[s], q)
<1> SUFFICES ASSUME NEW s \in Clients \ {r} PROVE Apart(q, tx[s]) /\ Apart(tx[s], q)
  OBVIOUS
<1>1. Fresh(tx[s]) /\ ByAdmin(tx[s])
  BY DEF IInv, AllSound, Sound
<1>2. QED
  BY <1>1 DEF Apart, Fresh, ByAdmin

LEMMA ArriveStep ==
  ASSUME IInv, NEW r \in Clients, Arrive(r)
  PROVE  IInv'
<1>1. ASSUME NEW by \in Users \cup {NoUser}, NEW u \in Users, NEW n \in Names,
             NEW admin \in BOOLEAN, BeginProvision(r, by, u, n, admin)
      PROVE  IInv'
  <2> DEFINE q == [Rest EXCEPT !.op = "provision", !.at = "check", !.id = u, !.name = n,
                               !.admin = admin]
  <2>1. q \in Requests
    BY DEF Rest, Requests, AllOps
  <2>2. Shape(q) /\ Reserved(q) /\ ByAdmin(q)
    BY DEF Rest, Shape, Reserved, ByAdmin, Deleting, Naming
  <2>3. u \notin made /\ made' = made \cup {u} /\ Update(r, q) /\ UNCHANGED data
    BY <1>1 DEF BeginProvision, Begin
  <2>4. q.id = u /\ ~q.row /\ ~q.named /\ q.keyed = NoUser /\ ~Deleting(q)
    BY DEF Rest, Deleting
  <2>5. ~user[u].alive
    BY <2>3 DEF IInv, OfRows, AllMade
  <2> HIDE DEF q
  <2>6. \A s \in Clients \ {r} : Apart(q, tx[s]) /\ Apart(tx[s], q)
    BY <2>3, <2>4, ArrivalApart
  <2>7. made \subseteq made' /\ made' \subseteq Users
    BY <2>3 DEF IInv, Typed
  <2>8. QED
    BY <2>1, <2>2, <2>3, <2>4, <2>5, <2>6, <2>7, QuietStep
<1>2. ASSUME NEW by \in Users, NEW u \in Users, NEW n \in Names, BeginCreate(r, by, u, n)
      PROVE  IInv'
  <2> DEFINE q == [Rest EXCEPT !.op = "create", !.at = "key used", !.by = by, !.id = u,
                               !.name = n]
  <2>1. q \in Requests
    BY DEF Rest, Requests, AllOps
  <2>2. Shape(q) /\ Reserved(q) /\ ByAdmin(q)
    BY DEF Rest, Shape, Reserved, ByAdmin, Deleting, Naming
  <2>3. u \notin made /\ made' = made \cup {u} /\ Update(r, q) /\ UNCHANGED data
    BY <1>2 DEF BeginCreate, Begin
  <2>4. q.id = u /\ ~q.row /\ ~q.named /\ q.keyed = NoUser /\ ~Deleting(q)
    BY DEF Rest, Deleting
  <2>5. ~user[u].alive
    BY <2>3 DEF IInv, OfRows, AllMade
  <2> HIDE DEF q
  <2>6. \A s \in Clients \ {r} : Apart(q, tx[s]) /\ Apart(tx[s], q)
    BY <2>3, <2>4, ArrivalApart
  <2>7. made \subseteq made' /\ made' \subseteq Users
    BY <2>3 DEF IInv, Typed
  <2>8. QED
    BY <2>1, <2>2, <2>3, <2>4, <2>5, <2>6, <2>7, QuietStep
<1>3. ASSUME NEW q \in Requests, Update(r, q), UNCHANGED <<data, made>>,
             Shape(q), ByAdmin(q), ~Pending(q), ~q.row, ~q.named, q.keyed = NoUser,
             Deleting(q) => user[q.by].alive
      PROVE  IInv'
  <2>1. \A s \in Clients \ {r} : Apart(q, tx[s]) /\ Apart(tx[s], q)
    BY <1>3, ArrivalApart
  <2>2. made \subseteq made' /\ made' \subseteq Users
    BY <1>3 DEF IInv, Typed
  <2>3. QED
    BY <1>3, <2>1, <2>2, QuietStep DEF Reserved
<1>4. ASSUME NEW u \in Users, NEW n \in Names, BeginRename(r, u, n)
      PROVE  IInv'
  <2> DEFINE q == [Rest EXCEPT !.op = "rename", !.at = "write", !.id = u, !.name = n]
  <2>1. /\ q \in Requests
        /\ Shape(q) /\ ByAdmin(q) /\ ~Pending(q) /\ ~q.row /\ ~q.named /\ q.keyed = NoUser
        /\ ~Deleting(q)
    BY DEF Rest, Requests, AllOps, Shape, ByAdmin, Pending, Deleting, Naming
  <2>2. Update(r, q) /\ UNCHANGED <<data, made>>
    BY <1>4 DEF BeginRename, Begin
  <2> HIDE DEF q
  <2>3. QED
    BY <2>1, <2>2, <1>3
<1>5. ASSUME NEW u \in Users, NEW op \in Consents, BeginConsent(r, u, op)
      PROVE  IInv'
  <2> DEFINE q == [Rest EXCEPT !.op = op, !.at = "write", !.id = u,
                               !.granted = user[u].granted, !.stamped = user[u].stamped]
  <2>1. user[u].granted \in BOOLEAN /\ user[u].stamped \in BOOLEAN
    BY DEF IInv, Typed, Rows
  <2>2. /\ q \in Requests
        /\ Shape(q) /\ ByAdmin(q) /\ ~Pending(q) /\ ~q.row /\ ~q.named /\ q.keyed = NoUser
        /\ ~Deleting(q)
    BY <2>1 DEF Consents, Rest, Requests, AllOps, Shape, ByAdmin, Pending, Deleting, Naming
  <2>3. Update(r, q) /\ UNCHANGED <<data, made>>
    BY <1>5 DEF BeginConsent, Begin
  <2> HIDE DEF q
  <2>4. QED
    BY <2>2, <2>3, <1>3
<1>6. ASSUME NEW by \in Users, NEW u \in Users, BeginDelete(r, by, u)
      PROVE  IInv'
  <2> DEFINE q == [Rest EXCEPT !.op = "delete", !.at = "write", !.by = by, !.id = u]
  <2>1. user[by].alive /\ user[by].key = "admin" /\ by \in made /\ by # u
    BY <1>6 DEF BeginDelete, AdminSignedIn, IInv, OfRows, TokensRight, AllMade
  <2>2. /\ q \in Requests
        /\ Shape(q) /\ ~Pending(q) /\ ~q.row /\ ~q.named /\ q.keyed = NoUser
        /\ q.by = by /\ q.id = u
    BY DEF Rest, Requests, AllOps, Shape, Pending, Naming
  <2>3. Update(r, q) /\ UNCHANGED <<data, made>>
    BY <1>6 DEF BeginDelete, Begin
  <2> HIDE DEF q
  <2>4. ByAdmin(q)
    BY <2>1, <2>2 DEF ByAdmin
  <2>5. QED
    BY <2>1, <2>2, <2>3, <2>4, <1>3
<1>7. ASSUME NEW by \in Users, NEW u \in Users, BeginToken(r, by, u)
      PROVE  IInv'
  <2> DEFINE q == [Rest EXCEPT !.op = "token", !.at = "key used", !.by = by, !.id = u]
  <2>1. /\ q \in Requests
        /\ Shape(q) /\ ByAdmin(q) /\ ~Pending(q) /\ ~q.row /\ ~q.named /\ q.keyed = NoUser
        /\ ~Deleting(q)
    BY DEF Rest, Requests, AllOps, Shape, ByAdmin, Pending, Deleting, Naming
  <2>2. Update(r, q) /\ UNCHANGED <<data, made>>
    BY <1>7 DEF BeginToken, Begin
  <2> HIDE DEF q
  <2>3. QED
    BY <2>1, <2>2, <1>3
<1>8. QED
  BY <1>1, <1>2, <1>4, <1>5, <1>6, <1>7 DEF Arrive

-----------------------------------------------------------------------------
(* A request goes on: the rows, names and keys it takes are free.           *)
LEMMA AdvanceStep ==
  ASSUME IInv, NEW r \in Clients, NEW q \in Requests,
         Update(r, q), UNCHANGED <<data, made>>,
         tx[r].at # "idle", q.at # "idle",
         q.op = tx[r].op, q.id = tx[r].id, q.by = tx[r].by, q.name = tx[r].name,
         Shape(q),
         q.row => tx[r].row \/ RowFree(r),
         q.keyed = tx[r].keyed \/ KeyFree(r, q.keyed),
         q.named => tx[r].named \/ (NameFree(r) /\ ~Taken(r))
  PROVE  IInv'
<1>1. Sound(tx[r])
  BY DEF IInv, AllSound
<1>2. Reserved(q)
  BY <1>1 DEF Sound, Reserved, Taken
<1>3. ByAdmin(q) /\ (Pending(q) => q.id \in made /\ ~user[q.id].alive)
  BY <1>1 DEF Sound, ByAdmin, Deleting, Pending, Fresh
<1>4. made \subseteq made' /\ made' \subseteq Users
  BY DEF IInv, Typed
<1>5. ASSUME NEW s \in Clients \ {r}
      PROVE  Apart(q, tx[s]) /\ Apart(tx[s], q)
  <2>1. Apart(tx[r], tx[s]) /\ Apart(tx[s], tx[r]) /\ Shape(tx[s])
    BY DEF IInv, AllApart, AllSound, Sound
  <2>2. ~(q.row /\ tx[s].row /\ q.id = tx[s].id)
    BY <2>1 DEF Apart, RowFree
  <2>3. q.keyed = NoUser \/ q.keyed # tx[s].keyed
    BY <2>1 DEF Apart, KeyFree
  <2>4. q.named /\ tx[s].named => q.name # tx[s].name
    <3> SUFFICES ASSUME q.named, tx[s].named, ~tx[r].named PROVE q.name # tx[s].name
      BY <2>1 DEF Apart
    <3>1. tx[s].row /\ tx[s].name # NoName
      BY <2>1, NamesAssumption DEF Shape
    <3>2. tx[s].name \in NamesOfTx(s)
      BY <3>1 DEF NamesOfTx
    <3>3. QED
      BY <3>2 DEF NameFree
  <2>5. /\ Pending(q) <=> Pending(tx[r])
        /\ Deleting(q) <=> Deleting(tx[r])
    BY DEF Pending, Deleting
  <2>6. QED
    BY <2>1, <2>2, <2>3, <2>4, <2>5 DEF Apart
<1>6. QED
  BY <1>2, <1>3, <1>4, <1>5, QuietStep

(* The steps between arrival and commit, and those that break off.          *)
LEMMA MiddleStep ==
  ASSUME IInv, NEW r \in Clients,
         \/ CheckName(r) \/ UseKey(r) \/ WriteName(r) \/ WriteKey(r) \/ WriteConsent(r)
         \/ WriteDelete(r) \/ Cascade(r) \/ DeadlockVictim(r) \/ Lose(r)
  PROVE  IInv'
<1>1. tx[r] \in Requests /\ Shape(tx[r])
  BY DEF IInv, Typed, AllSound, Sound
<1>2. ASSUME NEW stage \in {"write", "commit"}, Go(r, stage), UNCHANGED <<data, made>>,
             \/ tx[r].at = "check" /\ stage = "write"
             \/ tx[r].at = "key" /\ stage = "commit"
      PROVE  IInv'
  <2> DEFINE q == [tx[r] EXCEPT !.at = stage]
  <2>1. q \in Requests /\ q.at = stage
    BY <1>1 DEF Requests
  <2>2. /\ q.op = tx[r].op /\ q.id = tx[r].id /\ q.by = tx[r].by /\ q.name = tx[r].name
        /\ q.row = tx[r].row /\ q.named = tx[r].named /\ q.keyed = tx[r].keyed
        /\ q.admin = tx[r].admin
    BY <1>1 DEF Requests
  <2>3. Update(r, q)
    BY <1>2 DEF Go
  <2> HIDE DEF q
  <2>4. Shape(q)
    BY <1>1, <1>2, <2>1, <2>2 DEF Shape, Naming
  <2>5. QED
    BY <1>2, <2>1, <2>2, <2>3, <2>4, AdvanceStep
<1>3. CASE CheckName(r)
  <2>1. CASE Finish(r)
    BY <2>1, <1>3, FinishStep DEF CheckName
  <2>2. CASE Go(r, "write")
    BY <2>2, <1>3, <1>2 DEF CheckName
  <2>3. QED
    BY <2>1, <2>2, <1>3 DEF CheckName
<1>4. CASE UseKey(r)
  <2> DEFINE stage == IF tx[r].op = "token" THEN "commit" ELSE "write"
             q == [tx[r] EXCEPT !.keyed = tx[r].by, !.at = stage]
  <2>1. CASE Finish(r)
    BY <2>1, <1>4, FinishStep DEF UseKey
  <2>2. CASE Update(r, q)
    <3>1. stage \in {"commit", "write"} /\ tx[r].by \in Users /\ tx[r].at = "key used"
      BY <1>1, <1>4 DEF UseKey, Shape
    <3>2. q \in Requests /\ q.at = stage /\ q.keyed = tx[r].by
      BY <1>1, <3>1 DEF Requests
    <3>3. /\ q.op = tx[r].op /\ q.id = tx[r].id /\ q.by = tx[r].by /\ q.name = tx[r].name
          /\ q.row = tx[r].row /\ q.named = tx[r].named /\ q.admin = tx[r].admin
      BY <1>1 DEF Requests
    <3>4. \/ tx[r].op = "token" /\ stage = "commit"
          \/ tx[r].op = "create" /\ stage = "write"
      BY <1>1, <3>1 DEF Shape
    <3> HIDE DEF q, stage
    <3>5. Shape(q)
      BY <1>1, <3>1, <3>2, <3>3, <3>4 DEF Shape, Naming
    <3>6. KeyFree(r, q.keyed) /\ UNCHANGED <<data, made>>
      BY <1>4, <3>2 DEF UseKey
    <3>7. QED
      BY <2>2, <3>1, <3>2, <3>3, <3>5, <3>6, AdvanceStep
  <2>3. QED
    BY <2>1, <2>2, <1>4 DEF UseKey
<1>5. CASE WriteName(r)
  <2> DEFINE stage == IF tx[r].op = "provision" THEN "key" ELSE "commit"
             q == [tx[r] EXCEPT !.row = TRUE, !.named = TRUE, !.at = stage]
  <2>1. CASE Finish(r)
    BY <2>1, <1>5, FinishStep DEF WriteName
  <2>2. CASE ~Taken(r) /\ Update(r, q)
    <3>1. /\ stage \in {"key", "commit"} /\ (tx[r].op = "provision" <=> stage = "key")
          /\ tx[r].at = "write" /\ tx[r].op \in Naming
      BY <1>5 DEF WriteName, Naming
    <3>2. q \in Requests /\ q.at = stage /\ q.row /\ q.named
      BY <1>1, <3>1 DEF Requests
    <3>3. /\ q.op = tx[r].op /\ q.id = tx[r].id /\ q.by = tx[r].by /\ q.name = tx[r].name
          /\ q.keyed = tx[r].keyed /\ q.admin = tx[r].admin
      BY <1>1 DEF Requests
    <3> HIDE DEF q, stage
    <3>4. Shape(q)
      BY <1>1, <3>1, <3>2, <3>3 DEF Shape, Naming
    <3>5. RowFree(r) /\ NameFree(r) /\ UNCHANGED <<data, made>>
      BY <1>5 DEF WriteName
    <3>6. QED
      BY <2>2, <3>1, <3>2, <3>3, <3>4, <3>5, AdvanceStep
  <2>3. QED
    BY <2>1, <2>2, <1>5 DEF WriteName
<1>6. CASE WriteKey(r)
  BY <1>6, <1>2 DEF WriteKey
<1>7. CASE WriteConsent(r)
  <2> DEFINE q == [tx[r] EXCEPT !.row = ~Idle(r), !.at = "commit"]
  <2>1. CASE Finish(r)
    BY <2>1, <1>7, FinishStep DEF WriteConsent
  <2>2. CASE Update(r, q)
    <3>1. tx[r].at = "write" /\ tx[r].op \in Consents /\ (Idle(r) \/ RowFree(r))
      BY <1>7 DEF WriteConsent
    <3>2. (~Idle(r)) \in BOOLEAN
      OBVIOUS
    <3>3. q \in Requests /\ q.at = "commit" /\ q.row = ~Idle(r)
      BY <1>1, <3>2 DEF Requests
    <3>4. /\ q.op = tx[r].op /\ q.id = tx[r].id /\ q.by = tx[r].by /\ q.name = tx[r].name
          /\ q.named = tx[r].named /\ q.keyed = tx[r].keyed /\ q.admin = tx[r].admin
      BY <1>1 DEF Requests
    <3> HIDE DEF q
    <3>5. Shape(q)
      BY <1>1, <3>1, <3>3, <3>4 DEF Shape, Naming, Consents
    <3>6. q.row => RowFree(r)
      BY <3>1, <3>3
    <3>7. UNCHANGED <<data, made>>
      BY <1>7 DEF WriteConsent
    <3>8. QED
      BY <2>2, <3>1, <3>3, <3>4, <3>5, <3>6, <3>7, AdvanceStep
  <2>3. QED
    BY <2>1, <2>2, <1>7 DEF WriteConsent
<1>8. CASE WriteDelete(r)
  <2> DEFINE q == [tx[r] EXCEPT !.row = TRUE, !.at = "cascade"]
  <2>1. q \in Requests /\ q.at = "cascade"
    BY <1>1 DEF Requests
  <2>2. /\ q.op = tx[r].op /\ q.id = tx[r].id /\ q.by = tx[r].by /\ q.name = tx[r].name
        /\ q.named = tx[r].named /\ q.keyed = tx[r].keyed /\ q.admin = tx[r].admin
    BY <1>1 DEF Requests
  <2>3. Update(r, q)
    BY <1>8 DEF WriteDelete
  <2> HIDE DEF q
  <2>4. Shape(q)
    BY <1>1, <1>8, <2>1, <2>2 DEF WriteDelete, Shape, Naming
  <2>5. QED
    BY <1>8, <2>1, <2>2, <2>3, <2>4, AdvanceStep DEF WriteDelete
<1>9. CASE Cascade(r)
  <2> DEFINE q == [tx[r] EXCEPT !.keyed = tx[r].id, !.at = "commit"]
  <2>1. q \in Requests /\ q.at = "commit" /\ q.keyed = tx[r].id
    BY <1>1 DEF Requests
  <2>2. /\ q.op = tx[r].op /\ q.id = tx[r].id /\ q.by = tx[r].by /\ q.name = tx[r].name
        /\ q.named = tx[r].named /\ q.row = tx[r].row /\ q.admin = tx[r].admin
    BY <1>1 DEF Requests
  <2>3. Update(r, q)
    BY <1>9 DEF Cascade
  <2> HIDE DEF q
  <2>4. Shape(q)
    BY <1>1, <1>9, <2>1, <2>2 DEF Cascade, Shape, Naming
  <2>5. QED
    BY <1>9, <2>1, <2>2, <2>3, <2>4, AdvanceStep DEF Cascade
<1>10. CASE DeadlockVictim(r) \/ Lose(r)
  BY <1>10, FinishStep DEF DeadlockVictim, Lose
<1>11. QED
  BY <1>3, <1>4, <1>5, <1>6, <1>7, <1>8, <1>9, <1>10

-----------------------------------------------------------------------------
(* A commit: the other requests find the accounts as they relied on them.   *)
LEMMA CommitStep ==
  ASSUME IInv, NEW r \in Clients, Finish(r), made' = made, OfRows',
         user' \in [Users -> Rows], token' \in [Users -> {"none", "user", "admin"}],
         crossed' \subseteq Users, feud' \in BOOLEAN, wish' \in [Users -> BOOLEAN],
         \A s \in Clients \ {r} :
           /\ Pending(tx[s]) => ~user'[tx[s].id].alive
           /\ Deleting(tx[s]) /\ user'[tx[s].by].alive => user'[tx[s].by].key = "admin"
           /\ tx[s].named => \A u \in Users \ {tx[s].id} :
                               user'[u].alive => user'[u].name # tx[s].name
  PROVE  IInv'
<1>1. tx' = [tx EXCEPT ![r] = Rest] /\ tx \in [Clients -> Requests]
  BY DEF IInv, Typed, Finish, Update
<1>2. tx'[r] = Rest /\ \A s \in Clients \ {r} : tx'[s] = tx[s]
  BY <1>1
<1>3. Typed'
  BY <1>1, RestTyped DEF IInv, Typed
<1>4. AllSound'
  <2> SUFFICES ASSUME NEW s \in Clients PROVE Sound(tx[s])'
    BY DEF AllSound
  <2>1. CASE s = r
    BY <2>1, <1>2 DEF Rest, Sound, Shape, Fresh, Pending, ByAdmin, Deleting, Reserved, Naming
  <2>2. CASE s # r
    <3>1. Sound(tx[s]) /\ tx'[s] = tx[s]
      BY <2>2, <1>2 DEF IInv, AllSound
    <3>2. Shape(tx[s])'
      BY <3>1 DEF Sound, Shape
    <3>3. Fresh(tx[s])' /\ ByAdmin(tx[s])'
      BY <3>1, <2>2 DEF Sound, Fresh, Pending, ByAdmin, Deleting
    <3>4. Reserved(tx[s])'
      BY <3>1, <2>2 DEF Reserved
    <3>5. QED
      BY <3>2, <3>3, <3>4 DEF Sound
  <2>3. QED
    BY <2>1, <2>2
<1>5. AllApart'
  <2> SUFFICES ASSUME NEW s \in Clients, NEW t \in Clients, s # t
               PROVE  Apart(tx'[s], tx'[t])
    BY DEF AllApart, Apart, Pending, Deleting
  <2>1. Apart(tx[s], tx[t]) /\ tx[s] \in Requests /\ tx[t] \in Requests
    BY DEF IInv, AllApart, Typed
  <2>2. QED
    BY <2>1, <1>2, RestHolds
<1>6. QED
  BY <1>3, <1>4, <1>5 DEF IInv

(* One row changes.                                                         *)
LEMMA OneRow ==
  ASSUME Typed, NEW u \in Users, NEW row, user' = [user EXCEPT ![u] = row]
  PROVE  user'[u] = row /\ \A v \in Users \ {u} : user'[v] = user[v]
  BY DEF Typed

LEMMA CommitAccountStep ==
  ASSUME IInv, NEW r \in Clients, CommitAccount(r)
  PROVE  IInv'
<1> DEFINE q == tx[r]
           row == [NoRow EXCEPT !.alive = TRUE, !.name = q.name, !.admin = q.admin,
                     !.password = q.op = "provision",
                     !.key = IF q.op = "create" THEN "none"
                             ELSE IF q.admin THEN "admin" ELSE "user"]
<1>1. /\ q.at = "commit" /\ q.op \in {"provision", "create"}
      /\ user' = [user EXCEPT ![q.id] = row] /\ Finish(r)
      /\ UNCHANGED <<token, wish, crossed, feud, made>>
  BY DEF CommitAccount
<1>2. /\ q \in Requests /\ Sound(q)
  BY DEF IInv, Typed, AllSound
<1>3. /\ q.id \in Users /\ q.named /\ q.name \in Names /\ q.id \in made
      /\ ~user[q.id].alive /\ (q.op = "create" => ~q.admin) /\ Pending(q)
  BY <1>1, <1>2 DEF Sound, Shape, Fresh, Pending, Naming
<1>4. user'[q.id] = row /\ \A v \in Users \ {q.id} : user'[v] = user[v]
  BY <1>1, <1>3, OneRow DEF IInv
<1>5. /\ row.alive /\ row.name = q.name /\ row.admin = q.admin
      /\ row.password = (q.op = "provision") /\ row.granted = FALSE /\ row.stamped = FALSE
      /\ row.key = IF q.op = "create" THEN "none" ELSE IF q.admin THEN "admin" ELSE "user"
  BY DEF NoRow
<1>6. row \in Rows
  <2>1. (q.op = "provision") \in BOOLEAN /\ q.admin \in BOOLEAN
    BY <1>2 DEF Requests
  <2>2. QED
    BY <2>1, <1>3 DEF NoRow, Rows
<1> HIDE DEF row
<1>7. NamesDiffer'
  BY <1>2, <1>3, <1>4, <1>5 DEF IInv, OfRows, NamesDiffer, Sound, Reserved
<1>8. KeyedAccounts'
  <2> SUFFICES ASSUME NEW u \in Users
               PROVE  /\ user'[u].password =>
                           user'[u].key = (IF user'[u].admin THEN "admin" ELSE "user")
                      /\ user'[u].admin => user'[u].key = "admin"
                      /\ user'[u].key # "none" => user'[u].alive
    BY DEF KeyedAccounts
  <2>1. CASE u = q.id
    BY <2>1, <1>1, <1>3, <1>4, <1>5
  <2>2. CASE u # q.id
    BY <2>2, <1>4 DEF IInv, OfRows, KeyedAccounts
  <2>3. QED
    BY <2>1, <2>2
<1>9. /\ ~wish[q.id] /\ token[q.id] = "none"
  BY <1>3 DEF IInv, OfRows, NoOrphanWish, TokensRight
<1>10. ConsentTells'
  <2> SUFFICES ASSUME NEW u \in Users, user'[u].alive, u \notin crossed
               PROVE  user'[u].granted = wish[u] /\ user'[u].stamped = wish[u]
    BY <1>1 DEF ConsentTells
  <2>1. CASE u = q.id
    <3>1. wish[u] = FALSE
      BY <2>1, <1>9 DEF IInv, Typed
    <3>2. QED
      BY <2>1, <3>1, <1>4, <1>5
  <2>2. CASE u # q.id
    BY <2>2, <1>4 DEF IInv, OfRows, ConsentTells
  <2>3. QED
    BY <2>1, <2>2
<1>11. SomeAdminLeft'
  BY <1>1, <1>3, <1>4 DEF IInv, OfRows, SomeAdminLeft
<1>12. TokensRight' /\ AllMade' /\ NoOrphanWish'
  BY <1>1, <1>3, <1>4, <1>5, <1>9 DEF IInv, OfRows, TokensRight, AllMade, NoOrphanWish
<1>13. ASSUME NEW s \in Clients \ {r}
       PROVE  /\ Pending(tx[s]) => ~user'[tx[s].id].alive
              /\ Deleting(tx[s]) /\ user'[tx[s].by].alive => user'[tx[s].by].key = "admin"
              /\ tx[s].named => \A u \in Users \ {tx[s].id} :
                                  user'[u].alive => user'[u].name # tx[s].name
  <2>1. Apart(q, tx[s]) /\ Sound(tx[s])
    BY DEF IInv, AllApart, AllSound
  <2>2. Pending(tx[s]) => ~user'[tx[s].id].alive
    BY <2>1, <1>3, <1>4 DEF Apart, Sound, Fresh, Shape, Pending
  <2>3. Deleting(tx[s]) /\ user'[tx[s].by].alive => user'[tx[s].by].key = "admin"
    <3> SUFFICES ASSUME Deleting(tx[s]), user'[tx[s].by].alive
                 PROVE  user'[tx[s].by].key = "admin"
      OBVIOUS
    <3>1. tx[s].by \in Users /\ tx[s].by # q.id
      BY <2>1, <1>3 DEF Apart, Sound, ByAdmin, IInv, Typed
    <3>2. QED
      BY <3>1, <2>1, <1>4 DEF Sound, ByAdmin
  <2>4. tx[s].named => \A u \in Users \ {tx[s].id} :
                         user'[u].alive => user'[u].name # tx[s].name
    BY <2>1, <1>3, <1>4, <1>5 DEF Apart, Sound, Reserved
  <2>5. QED
    BY <2>2, <2>3, <2>4
<1>14. user' \in [Users -> Rows]
  BY <1>1, <1>6 DEF IInv, Typed
<1>15. /\ OfRows' /\ token' \in [Users -> {"none", "user", "admin"}] /\ crossed' \subseteq Users
       /\ feud' \in BOOLEAN /\ wish' \in [Users -> BOOLEAN]
  BY <1>1, <1>7, <1>8, <1>10, <1>11, <1>12 DEF OfRows, IInv, Typed
<1>16. QED
  BY <1>1, <1>13, <1>14, <1>15, CommitStep

LEMMA CommitRenameStep ==
  ASSUME IInv, NEW r \in Clients, CommitRename(r)
  PROVE  IInv'
<1> DEFINE q == tx[r]
           row == [user[q.id] EXCEPT !.name = q.name]
<1>1. /\ q.at = "commit" /\ q.op = "rename" /\ Finish(r)
      /\ UNCHANGED <<token, wish, crossed, feud, made>>
  BY DEF CommitRename
<1>2. q \in Requests /\ Sound(q)
  BY DEF IInv, Typed, AllSound
<1>3. q.id \in Users /\ q.named /\ q.name \in Names
  BY <1>1, <1>2 DEF Sound, Shape, Naming
<1>4. user' = [user EXCEPT ![q.id] = row] /\ user[q.id] \in Rows
  BY <1>3 DEF CommitRename, IInv, Typed
<1>5. user'[q.id] = row /\ \A v \in Users \ {q.id} : user'[v] = user[v]
  BY <1>4, <1>3, OneRow DEF IInv
<1>6. /\ row \in Rows /\ row.name = q.name
      /\ row.alive = user[q.id].alive /\ row.admin = user[q.id].admin
      /\ row.password = user[q.id].password /\ row.key = user[q.id].key
      /\ row.granted = user[q.id].granted /\ row.stamped = user[q.id].stamped
  BY <1>3, <1>4 DEF Rows
<1> HIDE DEF row
<1>7. \A v \in Users : /\ user'[v].alive = user[v].alive /\ user'[v].admin = user[v].admin
                       /\ user'[v].password = user[v].password /\ user'[v].key = user[v].key
                       /\ user'[v].granted = user[v].granted
                       /\ user'[v].stamped = user[v].stamped
  BY <1>5, <1>6
<1>8. NamesDiffer'
  BY <1>2, <1>3, <1>5, <1>6 DEF IInv, OfRows, NamesDiffer, Sound, Reserved
<1>9. KeyedAccounts' /\ ConsentTells' /\ SomeAdminLeft' /\ TokensRight' /\ AllMade'
      /\ NoOrphanWish'
  BY <1>1, <1>7 DEF IInv, OfRows, KeyedAccounts, ConsentTells, SomeAdminLeft, TokensRight,
                    AllMade, NoOrphanWish
<1>10. ASSUME NEW s \in Clients \ {r}
       PROVE  /\ Pending(tx[s]) => ~user'[tx[s].id].alive
              /\ Deleting(tx[s]) /\ user'[tx[s].by].alive => user'[tx[s].by].key = "admin"
              /\ tx[s].named => \A u \in Users \ {tx[s].id} :
                                  user'[u].alive => user'[u].name # tx[s].name
  <2>1. Apart(q, tx[s]) /\ Sound(tx[s])
    BY DEF IInv, AllApart, AllSound
  <2>2. Pending(tx[s]) => ~user'[tx[s].id].alive
    BY <2>1, <1>7 DEF Sound, Fresh, Shape, Pending
  <2>3. Deleting(tx[s]) /\ user'[tx[s].by].alive => user'[tx[s].by].key = "admin"
    BY <2>1, <1>7 DEF Sound, ByAdmin, IInv, Typed
  <2>4. tx[s].named => \A u \in Users \ {tx[s].id} :
                         user'[u].alive => user'[u].name # tx[s].name
    BY <2>1, <1>3, <1>5, <1>6 DEF Apart, Sound, Reserved
  <2>5. QED
    BY <2>2, <2>3, <2>4
<1>11. user' \in [Users -> Rows]
  BY <1>4, <1>6 DEF IInv, Typed
<1>12. /\ OfRows' /\ token' \in [Users -> {"none", "user", "admin"}] /\ crossed' \subseteq Users
       /\ feud' \in BOOLEAN /\ wish' \in [Users -> BOOLEAN]
  BY <1>1, <1>8, <1>9 DEF OfRows, IInv, Typed
<1>13. QED
  BY <1>1, <1>10, <1>11, <1>12, CommitStep

(* A request that met no opposite one leaves what it wanted.                *)
LEMMA ConsentArrives ==
  ASSUME Typed, NEW r \in Clients, tx[r].id \in Users, tx[r].op \in Consents, ~Crossing(r)
  PROVE  LET row == IF Idle(r) THEN user[tx[r].id] ELSE Consented(r)
         IN row.granted = (tx[r].op = "grant") /\ row.stamped = (tx[r].op = "grant")
<1> DEFINE u == user[tx[r].id]
           q == tx[r]
           wanted == q.op = "grant"
<1>1. /\ u \in Rows /\ q \in Requests
      /\ u.granted \in BOOLEAN /\ u.stamped \in BOOLEAN /\ wanted \in BOOLEAN
      /\ q.granted \in BOOLEAN /\ q.stamped \in BOOLEAN
  BY DEF Typed, Rows, Requests
<1>2. \/ u.granted = q.granted /\ u.stamped = q.stamped
      \/ u.granted = wanted /\ u.stamped = wanted
  BY DEF Crossing
<1>3. q.op = "revoke" <=> ~wanted
  BY DEF Consents
<1>4. CASE Idle(r)
  BY <1>1, <1>2, <1>3, <1>4 DEF Idle
<1>5. CASE ~Idle(r)
  <2>1. /\ Consented(r).granted = IF q.granted # wanted THEN wanted ELSE u.granted
        /\ Consented(r).stamped = IF wanted THEN TRUE ELSE IF q.stamped THEN FALSE
                                  ELSE u.stamped
    BY <1>1 DEF Consented, Rows
  <2>2. Consented(r).granted = wanted
    BY <2>1, <1>1, <1>2
  <2>3. Consented(r).stamped = wanted
    BY <2>1, <1>1, <1>2
  <2>4. QED
    BY <2>2, <2>3, <1>5
<1>6. QED
  BY <1>4, <1>5

LEMMA CommitConsentStep ==
  ASSUME IInv, NEW r \in Clients, CommitConsent(r)
  PROVE  IInv'
<1> DEFINE q == tx[r]
           wanted == q.op = "grant"
           row == IF Idle(r) THEN user[q.id] ELSE Consented(r)
<1>1. /\ q.at = "commit" /\ q.op \in Consents /\ Finish(r)
      /\ UNCHANGED <<token, feud, made>>
      /\ wish' = [wish EXCEPT ![q.id] = user[q.id].alive /\ wanted]
      /\ crossed' = IF Crossing(r) /\ user[q.id].alive THEN crossed \cup {q.id}
                    ELSE crossed \ {q.id}
  BY DEF CommitConsent
<1>2. q \in Requests /\ Sound(q)
  BY DEF IInv, Typed, AllSound
<1>3. q.id \in Users /\ user[q.id] \in Rows
  BY <1>1, <1>2 DEF Sound, Shape, IInv, Typed
<1>4. user' = [user EXCEPT ![q.id] = row]
  BY <1>3 DEF CommitConsent, IInv, Typed
<1>5. user'[q.id] = row /\ \A v \in Users \ {q.id} : user'[v] = user[v]
  BY <1>4, <1>3, OneRow DEF IInv
<1>6. /\ q.granted \in BOOLEAN /\ q.stamped \in BOOLEAN /\ wanted \in BOOLEAN
      /\ user[q.id].granted \in BOOLEAN /\ user[q.id].stamped \in BOOLEAN
  BY <1>2, <1>3 DEF Requests, Rows
<1>7. /\ row \in Rows /\ row.name = user[q.id].name
      /\ row.alive = user[q.id].alive /\ row.admin = user[q.id].admin
      /\ row.password = user[q.id].password /\ row.key = user[q.id].key
  <2> DEFINE u == user[q.id]
             granted == IF q.granted # wanted THEN wanted ELSE u.granted
             stamped == IF wanted THEN TRUE ELSE IF q.stamped THEN FALSE ELSE u.stamped
             new == [u EXCEPT !.granted = granted, !.stamped = stamped]
  <2>1. granted \in BOOLEAN /\ stamped \in BOOLEAN
    BY <1>6
  <2>2. Consented(r) = new
    BY <1>3 DEF Consented, Rows
  <2> HIDE DEF granted, stamped
  <2>3. /\ new \in Rows /\ new.name = u.name /\ new.alive = u.alive /\ new.admin = u.admin
        /\ new.password = u.password /\ new.key = u.key
    BY <1>3, <2>1 DEF Rows
  <2> HIDE DEF new
  <2>4. QED
    BY <1>3, <2>2, <2>3
<1>8. ~Crossing(r) => row.granted = wanted /\ row.stamped = wanted
  BY <1>1, <1>3, ConsentArrives DEF IInv
<1> HIDE DEF row
<1>9. \A v \in Users : /\ user'[v].alive = user[v].alive /\ user'[v].admin = user[v].admin
                       /\ user'[v].password = user[v].password /\ user'[v].key = user[v].key
                       /\ user'[v].name = user[v].name
  BY <1>5, <1>7
<1>10. NamesDiffer' /\ KeyedAccounts' /\ SomeAdminLeft' /\ TokensRight' /\ AllMade'
  BY <1>1, <1>9 DEF IInv, OfRows, KeyedAccounts, NamesDiffer, SomeAdminLeft, TokensRight,
                    AllMade
<1>11. /\ wish'[q.id] = (user[q.id].alive /\ wanted)
       /\ \A v \in Users \ {q.id} : wish'[v] = wish[v]
       /\ wish' \in [Users -> BOOLEAN]
  BY <1>1, <1>3, <1>6 DEF IInv, Typed, Rows
<1>12. NoOrphanWish'
  BY <1>9, <1>11 DEF IInv, OfRows, NoOrphanWish
<1>13. ConsentTells'
  <2> SUFFICES ASSUME NEW v \in Users, user'[v].alive, v \notin crossed'
               PROVE  user'[v].granted = wish'[v] /\ user'[v].stamped = wish'[v]
    BY DEF ConsentTells
  <2>1. CASE v = q.id
    <3>1. user[q.id].alive /\ ~Crossing(r)
      BY <2>1, <1>1, <1>9
    <3>2. wish'[v] = wanted
      BY <3>1, <2>1, <1>6, <1>11
    <3>3. QED
      BY <3>1, <3>2, <2>1, <1>5, <1>8
  <2>2. CASE v # q.id
    <3>1. v \notin crossed /\ user[v].alive
      BY <2>2, <1>1, <1>9
    <3>2. QED
      BY <3>1, <2>2, <1>5, <1>11 DEF IInv, OfRows, ConsentTells
  <2>3. QED
    BY <2>1, <2>2
<1>14. ASSUME NEW s \in Clients \ {r}
       PROVE  /\ Pending(tx[s]) => ~user'[tx[s].id].alive
              /\ Deleting(tx[s]) /\ user'[tx[s].by].alive => user'[tx[s].by].key = "admin"
              /\ tx[s].named => \A u \in Users \ {tx[s].id} :
                                  user'[u].alive => user'[u].name # tx[s].name
  <2>1. Sound(tx[s])
    BY DEF IInv, AllSound
  <2>2. Pending(tx[s]) => ~user'[tx[s].id].alive
    BY <2>1, <1>9 DEF Sound, Fresh, Shape, Pending
  <2>3. Deleting(tx[s]) /\ user'[tx[s].by].alive => user'[tx[s].by].key = "admin"
    BY <2>1, <1>9 DEF Sound, ByAdmin, IInv, Typed
  <2>4. tx[s].named => \A u \in Users \ {tx[s].id} :
                         user'[u].alive => user'[u].name # tx[s].name
    BY <2>1, <1>9 DEF Sound, Reserved
  <2>5. QED
    BY <2>2, <2>3, <2>4
<1>15. user' \in [Users -> Rows]
  BY <1>4, <1>7 DEF IInv, Typed
<1>16. /\ OfRows' /\ token' \in [Users -> {"none", "user", "admin"}] /\ crossed' \subseteq Users
       /\ feud' \in BOOLEAN /\ wish' \in [Users -> BOOLEAN]
  BY <1>1, <1>3, <1>10, <1>11, <1>12, <1>13 DEF OfRows, IInv, Typed
<1>17. QED
  BY <1>1, <1>14, <1>15, <1>16, CommitStep

(* An admin who deletes another is left, unless deleted in the meantime.    *)
LEMMA CommitDeleteStep ==
  ASSUME IInv, NEW r \in Clients, CommitDelete(r)
  PROVE  IInv'
<1> DEFINE q == tx[r]
<1>1. /\ q.at = "commit" /\ q.op = "delete" /\ Finish(r) /\ made' = made
      /\ user' = [user EXCEPT ![q.id] = NoRow]
      /\ wish' = [wish EXCEPT ![q.id] = FALSE] /\ crossed' = crossed \ {q.id}
      /\ token' = [token EXCEPT ![q.id] = "none"]
      /\ feud' = (feud \/ (~user[q.by].alive /\ user[q.id].key = "admin"))
  BY DEF CommitDelete
<1>2. q \in Requests /\ Sound(q) /\ Deleting(q)
  BY <1>1 DEF IInv, Typed, AllSound, Deleting
<1>3. q.id \in Users /\ q.by \in Users /\ q.by # q.id
      /\ (user[q.by].alive => user[q.by].key = "admin")
  BY <1>1, <1>2 DEF Sound, Shape, ByAdmin, IInv, Typed
<1>4. user'[q.id] = NoRow /\ \A v \in Users \ {q.id} : user'[v] = user[v]
  BY <1>1, <1>3, OneRow DEF IInv
<1>5. /\ NoRow \in Rows /\ ~NoRow.alive /\ ~NoRow.admin /\ ~NoRow.password
      /\ NoRow.key = "none"
  BY DEF NoRow, Rows
<1>6. /\ token'[q.id] = "none" /\ wish'[q.id] = FALSE
      /\ \A v \in Users \ {q.id} : token'[v] = token[v] /\ wish'[v] = wish[v]
  BY <1>1, <1>3 DEF IInv, Typed
<1>7. NamesDiffer' /\ KeyedAccounts' /\ TokensRight' /\ AllMade' /\ NoOrphanWish'
  BY <1>1, <1>4, <1>5, <1>6 DEF IInv, OfRows, NamesDiffer, KeyedAccounts, TokensRight,
                                AllMade, NoOrphanWish
<1>8. ConsentTells'
  <2> SUFFICES ASSUME NEW v \in Users, user'[v].alive, v \notin crossed'
               PROVE  user'[v].granted = wish'[v] /\ user'[v].stamped = wish'[v]
    BY DEF ConsentTells
  <2>1. v # q.id /\ v \notin crossed
    BY <1>1, <1>4, <1>5
  <2>2. QED
    BY <2>1, <1>4, <1>6 DEF IInv, OfRows, ConsentTells
<1>9. SomeAdminLeft'
  <2>1. CASE user[q.by].alive
    BY <2>1, <1>3, <1>4 DEF SomeAdminLeft
  <2>2. CASE ~user[q.by].alive /\ user[q.id].key = "admin"
    BY <2>2, <1>1 DEF SomeAdminLeft
  <2>3. CASE user[q.id].key # "admin"
    BY <2>3, <1>1, <1>4 DEF IInv, OfRows, SomeAdminLeft
  <2>4. QED
    BY <2>1, <2>2, <2>3
<1>10. \A v \in Users : user'[v].alive => v # q.id /\ user'[v] = user[v]
  BY <1>4, <1>5
<1>11. ASSUME NEW s \in Clients \ {r}
       PROVE  /\ Pending(tx[s]) => ~user'[tx[s].id].alive
              /\ Deleting(tx[s]) /\ user'[tx[s].by].alive => user'[tx[s].by].key = "admin"
              /\ tx[s].named => \A u \in Users \ {tx[s].id} :
                                  user'[u].alive => user'[u].name # tx[s].name
  <2>1. Sound(tx[s])
    BY DEF IInv, AllSound
  <2>2. Pending(tx[s]) => ~user'[tx[s].id].alive
    BY <2>1, <1>10 DEF Sound, Fresh, Shape, Pending
  <2>3. Deleting(tx[s]) /\ user'[tx[s].by].alive => user'[tx[s].by].key = "admin"
    BY <2>1, <1>10 DEF Sound, ByAdmin, IInv, Typed
  <2>4. tx[s].named => \A u \in Users \ {tx[s].id} :
                         user'[u].alive => user'[u].name # tx[s].name
    BY <2>1, <1>10 DEF Sound, Reserved
  <2>5. QED
    BY <2>2, <2>3, <2>4
<1>12. /\ user' \in [Users -> Rows] /\ token' \in [Users -> {"none", "user", "admin"}]
       /\ crossed' \subseteq Users /\ feud' \in BOOLEAN /\ wish' \in [Users -> BOOLEAN]
  BY <1>1, <1>5 DEF IInv, Typed, Rows
<1>13. OfRows'
  BY <1>7, <1>8, <1>9 DEF OfRows
<1>14. QED
  BY <1>1, <1>11, <1>12, <1>13, CommitStep

(* A token of the scope s, granted to u: an admin's only to one with a key  *)
(* of that scope.                                                           *)
LEMMA TokenGranted ==
  ASSUME IInv, NEW u \in Users, NEW s \in {"none", "user", "admin"},
         user[u].alive, s = "admin" => user[u].key = "admin",
         token' = [token EXCEPT ![u] = Wider(token[u], s)],
         UNCHANGED <<user, wish, crossed, feud, made>>
  PROVE  OfRows' /\ token' \in [Users -> {"none", "user", "admin"}]
<1>1. /\ Wider(token[u], s) \in {"user", "admin"}
      /\ Wider(token[u], s) = "admin" => user[u].key = "admin"
  BY DEF Wider, IInv, OfRows, TokensRight
<1>2. /\ token'[u] = Wider(token[u], s) /\ \A v \in Users \ {u} : token'[v] = token[v]
      /\ token' \in [Users -> {"none", "user", "admin"}]
  BY <1>1 DEF IInv, Typed
<1>3. TokensRight'
  BY <1>1, <1>2 DEF IInv, OfRows, TokensRight
<1>4. QED
  BY <1>2, <1>3 DEF IInv, OfRows, NamesDiffer, KeyedAccounts, ConsentTells, SomeAdminLeft,
                    AllMade, NoOrphanWish

LEMMA CommitTokenStep ==
  ASSUME IInv, NEW r \in Clients, CommitToken(r)
  PROVE  IInv'
<1> DEFINE u == tx[r].id
<1>1. /\ tx[r].at = "commit" /\ Finish(r) /\ UNCHANGED <<user, wish, crossed, feud, made>>
  BY DEF CommitToken
<1>2. u \in Users
  BY <1>1 DEF IInv, AllSound, Sound, Shape
<1>3. CASE token' = token
  BY <1>1, <1>3, FinishStep DEF data
<1>4. CASE user[u].alive /\ token' = [token EXCEPT ![u] = Wider(@, user[u].key)]
  <2>1. user[u].key \in {"none", "user", "admin"}
    BY <1>2 DEF IInv, Typed, Rows
  <2>2. OfRows' /\ token' \in [Users -> {"none", "user", "admin"}]
    BY <1>1, <1>2, <1>4, <2>1, TokenGranted
  <2>3. \A s \in Clients : Sound(tx[s])
    BY DEF IInv, AllSound
  <2>4. \A s \in Clients \ {r} :
          /\ Pending(tx[s]) => ~user'[tx[s].id].alive
          /\ Deleting(tx[s]) /\ user'[tx[s].by].alive => user'[tx[s].by].key = "admin"
          /\ tx[s].named => \A v \in Users \ {tx[s].id} :
                              user'[v].alive => user'[v].name # tx[s].name
    BY <1>1, <2>3 DEF Sound, Fresh, ByAdmin, Reserved
  <2>5. /\ made' = made /\ user' \in [Users -> Rows]
        /\ crossed' \subseteq Users /\ feud' \in BOOLEAN /\ wish' \in [Users -> BOOLEAN]
    BY <1>1 DEF IInv, Typed
  <2>6. QED
    BY <1>1, <2>2, <2>4, <2>5, CommitStep
<1>5. QED
  BY <1>3, <1>4 DEF CommitToken

LEMMA LoginStep ==
  ASSUME IInv, NEW u \in Users, Login(u)
  PROVE  IInv'
<1>1. /\ user[u].alive /\ token' = [token EXCEPT ![u] = Wider(token[u], ScopesForRole(u))]
      /\ UNCHANGED <<user, wish, crossed, feud, made, tx>>
  BY DEF Login
<1>2. /\ ScopesForRole(u) \in {"none", "user", "admin"}
      /\ ScopesForRole(u) = "admin" => user[u].key = "admin"
  BY DEF ScopesForRole, IInv, OfRows, KeyedAccounts
<1>3. OfRows' /\ token' \in [Users -> {"none", "user", "admin"}]
  BY <1>1, <1>2, TokenGranted
<1>4. Typed' /\ AllApart'
  BY <1>1, <1>3 DEF IInv, Typed, AllApart, Apart, Pending, Deleting
<1>5. AllSound'
  <2> SUFFICES ASSUME NEW s \in Clients PROVE Sound(tx[s])'
    BY DEF AllSound
  <2>1. Sound(tx[s]) /\ user' = user /\ made' = made /\ tx' = tx
    BY <1>1 DEF IInv, AllSound
  <2>2. QED
    BY <2>1, Zenon DEF Sound, Shape, Fresh, Pending, ByAdmin, Deleting, Reserved
<1>6. QED
  BY <1>3, <1>4, <1>5 DEF IInv

LEMMA StutterStep == IInv /\ UNCHANGED vars => IInv'
<1> SUFFICES ASSUME IInv, UNCHANGED vars PROVE IInv'
  OBVIOUS
<1>1. Typed' /\ AllApart'
  BY DEF vars, IInv, Typed, AllApart, Apart, Pending, Deleting
<1>2. AllSound'
  <2> SUFFICES ASSUME NEW s \in Clients PROVE Sound(tx[s])'
    BY DEF AllSound
  <2>1. Sound(tx[s]) /\ user' = user /\ made' = made /\ tx' = tx
    BY DEF vars, IInv, AllSound
  <2>2. QED
    BY <2>1, Zenon DEF Sound, Shape, Fresh, Pending, ByAdmin, Deleting, Reserved
<1>3. OfRows'
  BY DEF vars, IInv, OfRows, NamesDiffer, KeyedAccounts, ConsentTells, SomeAdminLeft,
         TokensRight, AllMade, NoOrphanWish
<1>4. QED
  BY <1>1, <1>2, <1>3 DEF IInv

-----------------------------------------------------------------------------
(* Between any two steps, what the requests in progress rely on holds: the  *)
(* names and rows they have entered are theirs, the accounts they make are  *)
(* nobody's yet, and admins who delete have the key of an admin.            *)
THEOREM Invariance == Spec => []IInv
<1>1. IInv /\ [Next]_vars => IInv'
  <2> SUFFICES ASSUME IInv, [Next]_vars PROVE IInv'
    OBVIOUS
  <2>1. ASSUME NEW r \in Clients, Arrive(r) PROVE IInv'
    BY <2>1, ArriveStep
  <2>2. ASSUME NEW r \in Clients, Proceed(r) \/ Lose(r) PROVE IInv'
    BY <2>2, MiddleStep, CommitAccountStep, CommitRenameStep, CommitConsentStep,
       CommitDeleteStep, CommitTokenStep DEF Proceed
  <2>3. ASSUME NEW u \in Users, Login(u) PROVE IInv'
    BY <2>3, LoginStep
  <2>4. QED
    BY <2>1, <2>2, <2>3, StutterStep DEF Next
<1>2. QED
  BY <1>1, InitIInv, PTL DEF Spec

(* Every variable keeps its type; no two requests have written the same     *)
(* account or hold the same key.                                            *)
THEOREM TypeCorrect == Spec => []TypeOK
<1>1. IInv => TypeOK
  BY DEF IInv, Typed, AllApart, Apart, TypeOK
<1>2. QED
  BY <1>1, Invariance, PTL

(* However registrations, creations and renamings interleave between the    *)
(* look-up of a name and its writing, no two accounts have the same name.   *)
THEOREM NamesAlwaysDiffer == Spec => []NamesDiffer
<1>1. IInv => NamesDiffer
  BY DEF IInv, OfRows
<1>2. QED
  BY <1>1, Invariance, PTL

(* A provisioned account has its key from its first moment to its last, of  *)
(* the scope of its role, and no key outlives its account.                  *)
THEOREM AlwaysKeyed == Spec => []KeyedAccounts
<1>1. IInv => KeyedAccounts
  BY DEF IInv, OfRows
<1>2. QED
  BY <1>1, Invariance, PTL

(* Both columns of the consent tell the last request about it that was      *)
(* committed, unless the opposite one came between its loading and writing. *)
THEOREM ConsentAlwaysTells == Spec => []ConsentTells
<1>1. IInv => ConsentTells
  BY DEF IInv, OfRows
<1>2. QED
  BY <1>1, Invariance, PTL

(* There is an admin left unless one was deleted by one deleted before.     *)
THEOREM AdminAlwaysLeft == Spec => []SomeAdminLeft
<1>1. IInv => SomeAdminLeft
  BY DEF IInv, OfRows
<1>2. QED
  BY <1>1, Invariance, PTL
=============================================================================
