---------------------- MODULE IdempotentCreationProofs ----------------------
(* Safety of IdempotentCreation for any clients, keys, names and decks.     *)
EXTENDS IdempotentCreation, TLAPS

(* What the place a request has come to says of the rest of it.             *)
Sound(q) ==
  /\ q.at = "idle" => q = Rest
  /\ q.at # "idle" =>
       q.op \in {"create", "rename"} /\ q.deck \in Decks /\ q.name \in Names
  /\ q.at \in {"key", "wipe", "store"} => q.op = "create"
  /\ q.op = "create" => q.key \in Keys
  /\ q.named <=> q.at \in {"store", "commit"}
  /\ q.stored => q.at = "commit" /\ q.op = "create"

(* No two requests have written the same index entry.                       *)
Apart ==
  \A r, s \in Clients : r # s =>
    /\ tx[r].named /\ tx[s].named => tx[r].name # tx[s].name
    /\ tx[r].stored /\ tx[s].stored => tx[r].key # tx[s].key

RequestsOK == tx \in [Clients -> Requests] /\ (\A r \in Clients : Sound(tx[r])) /\ Apart

TablesOK ==
  /\ name \in [Decks -> Names \cup {NoName, Gone}]
  /\ record \in [Keys -> Decks \cup {NoDeck}]
  /\ old \subseteq {k \in Keys : record[k] # NoDeck}

HistoryOK ==
  /\ made \subseteq Decks
  /\ told \subseteq [key : Keys, status : {"created", "conflict", "error"},
                    deck : Decks \cup {NoDeck}]
  /\ \A a \in told : a.status = "created" => a.deck \in Decks

(* A name that is written and not yet committed belongs to nobody else.     *)
Reserved ==
  \A r \in Clients : tx[r].named => \A d \in Decks \ {tx[r].deck} : name[d] # tx[r].name

IInv == RequestsOK /\ TablesOK /\ HistoryOK /\ NamesDiffer /\ Reserved

-----------------------------------------------------------------------------
(* The idle request is well typed and holds nothing.                        *)
LEMMA RestSound ==
  Rest \in Requests /\ Sound(Rest) /\ Rest.at = "idle" /\ ~Rest.named /\ ~Rest.stored
  BY NamesAssumption, NoAssumption DEF Rest, Requests, Sound

(* A step replaces the request of one client.  The others stay apart from   *)
(* it if it writes no index entry that they have written.                   *)
LEMMA UpdateSound ==
  ASSUME RequestsOK, NEW r \in Clients, NEW q \in Requests, Sound(q), Update(r, q),
         q.named => \A s \in Clients \ {r} : tx[s].named => tx[s].name # q.name,
         q.stored => \A s \in Clients \ {r} : tx[s].stored => tx[s].key # q.key
  PROVE  RequestsOK'
  <1>1. tx' = [tx EXCEPT ![r] = q] /\ tx \in [Clients -> Requests]
    BY DEF Update, RequestsOK
  <1>2. tx' \in [Clients -> Requests] /\ tx'[r] = q /\ \A s \in Clients \ {r} : tx'[s] = tx[s]
    BY <1>1
  <1>3. \A s \in Clients : Sound(tx[s])'
    <2> TAKE s \in Clients
    <2>1. Sound(tx[s])
      BY DEF RequestsOK
    <2> QED BY <1>2, <2>1 DEF Sound, Rest
  <1>4. Apart'
    BY <1>2 DEF Apart, RequestsOK
  <1> QED BY <1>2, <1>3, <1>4 DEF RequestsOK

(* A request goes on and writes nothing.                                    *)
LEMMA StepSound ==
  ASSUME RequestsOK, NEW r \in Clients, NEW q \in Requests, Sound(q), Update(r, q),
         ~q.stored, q.named => tx[r].named /\ q.name = tx[r].name
  PROVE  RequestsOK'
  <1>1. q.named => \A s \in Clients \ {r} : tx[s].named => tx[s].name # q.name
    BY DEF RequestsOK, Apart
  <1> QED BY <1>1, UpdateSound

(* As long as no name is written by a step, the names stay reserved.        *)
LEMMA StillReserved ==
  ASSUME RequestsOK, Reserved, NEW r \in Clients, NEW q \in Requests, Update(r, q),
         ~q.named, UNCHANGED name
  PROVE  Reserved'
  <1>1. tx'[r] = q /\ \A s \in Clients \ {r} : tx'[s] = tx[s]
    BY DEF Update, RequestsOK
  <1> QED BY <1>1 DEF Reserved

(* The end of a request leaves the requests sound and the history typed.    *)
LEMMA AnswerSound ==
  ASSUME RequestsOK, HistoryOK, NEW r \in Clients, tx[r].at # "idle", UNCHANGED made,
         NEW status \in {"created", "conflict", "error"},
         NEW deck \in Decks \cup {NoDeck}, Answer(r, status, deck),
         status = "created" => deck \in Decks
  PROVE  RequestsOK' /\ HistoryOK' /\ Update(r, Rest)
  <1>1. tx[r].op = "create" => tx[r].key \in Keys
    BY DEF RequestsOK, Sound
  <1>2. HistoryOK'
    BY <1>1 DEF HistoryOK, Answer
  <1> QED BY <1>2, RestSound, StepSound DEF Answer

(* What a step does that leaves the tables alone and writes no name.        *)
LEMMA QuietStep ==
  ASSUME IInv, NEW r \in Clients, NEW q \in Requests, Sound(q), Update(r, q),
         ~q.stored, ~q.named, HistoryOK', UNCHANGED tables
  PROVE  IInv'
  <1>1. RequestsOK'
    BY StepSound DEF IInv
  <1>2. TablesOK' /\ NamesDiffer'
    BY DEF IInv, TablesOK, NamesDiffer, Exists, tables
  <1>3. Reserved'
    BY StillReserved DEF IInv, tables
  <1> QED BY <1>1, <1>2, <1>3 DEF IInv

(* An answer, too, unless it comes with a commit.                           *)
LEMMA QuietAnswer ==
  ASSUME IInv, NEW r \in Clients, tx[r].at # "idle", UNCHANGED <<tables, made>>,
         NEW status \in {"created", "conflict", "error"},
         NEW deck \in Decks \cup {NoDeck}, Answer(r, status, deck),
         status = "created" => deck \in Decks
  PROVE  IInv'
  <1>1. HistoryOK' /\ Update(r, Rest)
    BY AnswerSound DEF IInv
  <1> QED BY <1>1, QuietStep, RestSound

(* Deleting an expired record keeps the records typed.                      *)
LEMMA WipedTyped ==
  ASSUME TablesOK, NEW r \in Clients PROVE Wiped(r) \in [Keys -> Decks \cup {NoDeck}]
  BY DEF Wiped, TablesOK

-----------------------------------------------------------------------------
(* The invariant holds at first.                                            *)
LEMMA InitIInv == Init => IInv
  <1> SUFFICES ASSUME Init PROVE IInv
    OBVIOUS
  <1>1. RequestsOK
    BY RestSound DEF Init, RequestsOK, Apart
  <1>2. TablesOK /\ HistoryOK
    BY DEF Init, TablesOK, HistoryOK
  <1>3. NamesDiffer /\ Reserved
    BY RestSound, NamesAssumption DEF Init, NamesDiffer, Exists, Reserved
  <1> QED BY <1>1, <1>2, <1>3 DEF IInv

(* A request that arrives.                                                  *)
LEMMA ArriveStep ==
  ASSUME IInv, NEW r \in Clients, Arrive(r) PROVE IInv'
  <1>1. ASSUME NEW k \in Keys, NEW d \in Decks, BeginCreate(r, k, d) PROVE IInv'
    <2> DEFINE q == [Rest EXCEPT !.op = "create", !.at = "key", !.key = k, !.deck = d,
                       !.name = NameOf[k], !.owed = IF k \in old THEN NoDeck ELSE record[k]]
    <2>1. q \in Requests /\ Sound(q) /\ ~q.stored /\ ~q.named
      BY NamesAssumption, NoAssumption DEF Rest, Requests, Sound, IInv, TablesOK
    <2> HIDE DEF q
    <2> QED BY <1>1, <2>1, QuietStep DEF BeginCreate, q, IInv, HistoryOK
  <1>2. ASSUME NEW d \in Decks, NEW n \in Names, BeginRename(r, d, n) PROVE IInv'
    <2> DEFINE q == [Rest EXCEPT !.op = "rename", !.at = "name", !.deck = d, !.name = n]
    <2>1. q \in Requests /\ Sound(q) /\ ~q.stored /\ ~q.named
      BY NamesAssumption, NoAssumption DEF Rest, Requests, Sound
    <2> HIDE DEF q
    <2> QED BY <1>2, <2>1, QuietStep DEF BeginRename, q, IInv, HistoryOK
  <1> QED BY <1>1, <1>2 DEF Arrive

(* Looking the key up, and deleting a record that has expired.              *)
LEMMA KeyStep ==
  ASSUME IInv, NEW r \in Clients, LookUp(r) \/ WipeRecord(r) PROVE IInv'
  <1>0. tx[r] \in Requests /\ Sound(tx[r])
    BY DEF IInv, RequestsOK
  <1>1. ASSUME NEW w \in Decks \cup {NoDeck}, NEW at \in {"name", "wipe"},
               tx[r].at \in {"key", "wipe"}, UNCHANGED <<tables, made, told>>,
               Update(r, [tx[r] EXCEPT !.at = at, !.wipes = w])
        PROVE  IInv'
    <2> DEFINE q == [tx[r] EXCEPT !.at = at, !.wipes = w]
    <2>1. q \in Requests /\ Sound(q) /\ ~q.stored /\ ~q.named
      BY <1>0, <1>1 DEF Requests, Sound
    <2> HIDE DEF q
    <2> QED BY <1>1, <2>1, QuietStep DEF q, IInv, HistoryOK
  <1>2. CASE WipeRecord(r)
    BY <1>0, <1>1, <1>2 DEF WipeRecord, Requests
  <1>3. CASE LookUp(r)
    <2>0. tx[r].key \in Keys /\ record[tx[r].key] \in Decks \cup {NoDeck}
      BY <1>0, <1>3 DEF LookUp, Sound, IInv, TablesOK
    <2>1. CASE Go(r, "name") /\ UNCHANGED told
      <3>1. tx[r] = [tx[r] EXCEPT !.wipes = tx[r].wipes]
        BY <1>0 DEF Requests
      <3>2. [tx[r] EXCEPT !.at = "name"] = [tx[r] EXCEPT !.at = "name", !.wipes = tx[r].wipes]
        BY <1>0 DEF Requests
      <3> QED BY <1>0, <1>1, <1>3, <2>1, <3>2 DEF LookUp, Go, Requests
    <2>2. CASE record[tx[r].key] # NoDeck /\ Answer(r, "created", record[tx[r].key])
      BY <1>3, <2>0, <2>2, QuietAnswer DEF LookUp
    <2>3. CASE /\ Update(r, [tx[r] EXCEPT !.at = "wipe", !.wipes = record[tx[r].key]])
               /\ UNCHANGED told
      BY <1>1, <1>3, <2>0, <2>3 DEF LookUp
    <2> QED BY <1>3, <2>1, <2>2, <2>3 DEF LookUp
  <1> QED BY <1>2, <1>3

(* Looking the name up.                                                     *)
LEMMA CheckStep ==
  ASSUME IInv, NEW r \in Clients, CheckName(r) PROVE IInv'
  <1>0. tx[r] \in Requests /\ Sound(tx[r]) /\ tx[r].at = "name"
    BY DEF IInv, RequestsOK, CheckName
  <1>1. CASE Go(r, "insert") /\ UNCHANGED <<record, old, told>>
    <2> DEFINE q == [tx[r] EXCEPT !.at = "insert"]
    <2>1. q \in Requests /\ Sound(q) /\ ~q.stored /\ ~q.named
      BY <1>0 DEF Requests, Sound
    <2> HIDE DEF q
    <2> QED BY <1>1, <2>1, QuietStep DEF CheckName, Go, q, IInv, HistoryOK, tables
  <1>2. CASE /\ Answer(r, "conflict", NoDeck) /\ record' = Wiped(r)
             /\ old' = {k \in old : record'[k] # NoDeck}
    <2>1. RequestsOK' /\ HistoryOK' /\ Update(r, Rest)
      BY <1>0, <1>2, AnswerSound DEF IInv, CheckName
    <2>2. TablesOK'
      BY <1>2, WipedTyped DEF IInv, TablesOK, CheckName
    <2>3. NamesDiffer' /\ Reserved'
      BY <2>1, RestSound, StillReserved DEF IInv, NamesDiffer, Exists, CheckName
    <2> QED BY <2>1, <2>2, <2>3 DEF IInv
  <1>3. CASE Answer(r, "error", NoDeck) /\ UNCHANGED <<record, old>>
    BY <1>0, <1>3, QuietAnswer DEF CheckName, tables
  <1> QED BY <1>1, <1>2, <1>3 DEF CheckName

(* Writing the name: nobody else has it, committed or not.                  *)
LEMMA WriteStep ==
  ASSUME IInv, NEW r \in Clients, WriteName(r) PROVE IInv'
  <1>0. tx[r] \in Requests /\ Sound(tx[r]) /\ tx[r].at = "insert"
    BY DEF IInv, RequestsOK, WriteName
  <1>1. CASE RollBack(r)
    BY <1>0, <1>1, QuietAnswer DEF RollBack
  <1>2. CASE /\ Written(r) /\ UNCHANGED <<tables, made, told>>
             /\ \A d \in Decks \ {tx[r].deck} : name[d] # tx[r].name
    <2> DEFINE q == [tx[r] EXCEPT !.named = TRUE,
                       !.at = IF tx[r].op = "create" THEN "store" ELSE "commit"]
    <2>1. /\ q \in Requests /\ Sound(q) /\ ~q.stored
          /\ q.name = tx[r].name /\ q.deck = tx[r].deck
      BY <1>0 DEF Requests, Sound
    <2>2. Update(r, q)
      BY <1>2 DEF Written
    <2> HIDE DEF q
    <2>3. \A s \in Clients \ {r} : tx[s].named => tx[s].name # q.name
      BY <2>1 DEF WriteName, NamesOfTx
    <2>4. RequestsOK'
      BY <2>1, <2>2, <2>3, UpdateSound DEF IInv
    <2>5. tx'[r] = q /\ \A s \in Clients \ {r} : tx'[s] = tx[s]
      BY <2>2 DEF Update, IInv, RequestsOK
    <2>6. Reserved'
      BY <1>2, <2>1, <2>5 DEF Reserved, IInv, tables
    <2> QED BY <1>2, <2>4, <2>6 DEF IInv, TablesOK, HistoryOK, NamesDiffer, Exists, tables
  <1> QED BY <1>1, <1>2 DEF WriteName

(* Storing the answer in the savepoint: nobody else has the key.            *)
LEMMA StoreStep ==
  ASSUME IInv, NEW r \in Clients, StoreRecord(r) PROVE IInv'
  <1>0. tx[r] \in Requests /\ Sound(tx[r]) /\ tx[r].at = "store"
    BY DEF IInv, RequestsOK, StoreRecord
  <1> DEFINE q == [tx[r] EXCEPT !.at = "commit", !.stored = Wiped(r)[tx[r].key] = NoDeck]
  <1>1. /\ q \in Requests /\ Sound(q) /\ q.name = tx[r].name /\ q.deck = tx[r].deck
        /\ q.key = tx[r].key /\ q.named = tx[r].named
    BY <1>0 DEF Requests, Sound
  <1>2. Update(r, q) /\ UNCHANGED <<tables, made, told>>
    BY DEF StoreRecord
  <1> HIDE DEF q
  <1>3. \A s \in Clients \ {r} : tx[s].stored => tx[s].key # q.key
    BY <1>1 DEF StoreRecord
  <1>4. q.named => \A s \in Clients \ {r} : tx[s].named => tx[s].name # q.name
    BY <1>1 DEF IInv, RequestsOK, Apart
  <1>5. RequestsOK'
    BY <1>1, <1>2, <1>3, <1>4, UpdateSound DEF IInv
  <1>6. tx'[r] = q /\ \A s \in Clients \ {r} : tx'[s] = tx[s]
    BY <1>2 DEF Update, IInv, RequestsOK
  <1>7. Reserved'
    BY <1>1, <1>2, <1>6 DEF Reserved, IInv, tables
  <1> QED BY <1>2, <1>5, <1>7 DEF IInv, TablesOK, HistoryOK, NamesDiffer, Exists, tables

(* The commit: the name that becomes visible was reserved.                  *)
LEMMA CommitStep ==
  ASSUME IInv, NEW r \in Clients, Commit(r) PROVE IInv'
  <1>0. /\ tx[r] \in Requests /\ Sound(tx[r]) /\ tx[r].at = "commit" /\ tx[r].named
        /\ tx[r].deck \in Decks /\ tx[r].name \in Names
    BY DEF IInv, RequestsOK, Commit, Sound
  <1>1. RequestsOK' /\ HistoryOK' /\ Update(r, Rest)
    <2>1. CASE Answer(r, "created", tx[r].deck)
      BY <1>0, <2>1, AnswerSound DEF IInv, Commit
    <2>2. CASE Update(r, Rest) /\ UNCHANGED told
      BY <2>2, RestSound, StepSound DEF IInv, HistoryOK, Commit
    <2> QED BY <2>1, <2>2 DEF Commit
  <1>2. name' = [name EXCEPT ![tx[r].deck] = tx[r].name]
    BY DEF Commit
  <1>3. TablesOK'
    <2>1. record' \in [Keys -> Decks \cup {NoDeck}]
      BY <1>0, WipedTyped DEF Commit, IInv
    <2>2. old' \subseteq {k \in Keys : record'[k] # NoDeck}
      BY DEF Commit, IInv, TablesOK
    <2> QED BY <1>0, <1>2, <2>1, <2>2 DEF IInv, TablesOK
  <1>4. NamesDiffer'
    <2>1. \A d \in Decks \ {tx[r].deck} : name'[d] = name[d] /\ name[d] # tx[r].name
      BY <1>0, <1>2 DEF IInv, TablesOK, Reserved
    <2>2. name'[tx[r].deck] = tx[r].name
      BY <1>0, <1>2 DEF IInv, TablesOK
    <2> QED BY <2>1, <2>2 DEF NamesDiffer, Exists, IInv
  <1>5. Reserved'
    <2>1. tx'[r] = Rest /\ \A s \in Clients \ {r} : tx'[s] = tx[s]
      BY <1>1 DEF Update, IInv, RequestsOK
    <2>2. \A s \in Clients \ {r} : tx[s].named => tx[s].name # tx[r].name
      BY <1>0 DEF IInv, RequestsOK, Apart
    <2>3. \A d \in Decks : name'[d] \in {name[d], tx[r].name}
      BY <1>2 DEF IInv, TablesOK
    <2> QED BY <2>1, <2>2, <2>3, RestSound DEF Reserved, IInv
  <1> QED BY <1>1, <1>3, <1>4, <1>5 DEF IInv

(* Every step preserves the invariant.                                      *)
LEMMA NextIInv == IInv /\ [Next]_vars => IInv'
  <1> SUFFICES ASSUME IInv, [Next]_vars PROVE IInv'
    OBVIOUS
  <1>1. ASSUME NEW r \in Clients, Lose(r) PROVE IInv'
    BY <1>1, QuietStep, RestSound DEF Lose, IInv, HistoryOK
  <1>3. ASSUME NEW d \in Decks, DeleteDeck(d) PROVE IInv'
    <2>1. name' = [name EXCEPT ![d] = Gone] /\ UNCHANGED <<record, old, made, told, tx>>
      BY <1>3 DEF DeleteDeck
    <2>2. RequestsOK' /\ HistoryOK'
      BY <2>1 DEF IInv, RequestsOK, Apart, HistoryOK, Sound, Rest
    <2>3. TablesOK'
      BY <2>1 DEF IInv, TablesOK
    <2>4. NamesDiffer'
      BY <2>1, NamesAssumption DEF IInv, TablesOK, NamesDiffer, Exists
    <2>5. Reserved'
      <3>1. \A s \in Clients : tx[s].named => tx[s].name # Gone
        BY NamesAssumption DEF IInv, RequestsOK, Sound
      <3> QED BY <2>1, <3>1 DEF IInv, TablesOK, Reserved
    <2> QED BY <2>2, <2>3, <2>4, <2>5 DEF IInv
  <1>4. ASSUME NEW k \in Keys, Expire(k) PROVE IInv'
    BY <1>4 DEF Expire, IInv, RequestsOK, Apart, HistoryOK, TablesOK, NamesDiffer, Exists,
               Reserved, Sound, Rest
  <1>5. CASE UNCHANGED vars
    BY <1>5 DEF vars, IInv, RequestsOK, Apart, HistoryOK, TablesOK, NamesDiffer, Exists,
               Reserved, Sound, Rest
  <1> QED BY <1>1, <1>3, <1>4, <1>5, ArriveStep, KeyStep, CheckStep, WriteStep, StoreStep,
             CommitStep DEF Next, Proceed, Rested

-----------------------------------------------------------------------------
(* The invariant always holds.                                              *)
LEMMA AlwaysIInv == Spec => []IInv
  BY InitIInv, NextIInv, PTL DEF Spec

(* Every variable keeps its type, and two requests in progress have never   *)
(* written the same name nor an answer under the same key.                  *)
THEOREM TypeCorrect == Spec => []TypeOK
  <1>1. IInv => TypeOK
    BY DEF IInv, RequestsOK, Apart, TablesOK, HistoryOK, TypeOK
  <1> QED BY <1>1, AlwaysIInv, PTL

(* No two decks of the user ever have names that are written alike, however *)
(* many creations and renamings look them up and write them at the same     *)
(* time.  Names that differ in case only are outside of it: nothing in the  *)
(* database keeps two of them apart.                                        *)
THEOREM NamesAlwaysDiffer == Spec => []NamesDiffer
  <1>1. IInv => NamesDiffer
    BY DEF IInv
  <1> QED BY <1>1, AlwaysIInv, PTL

-----------------------------------------------------------------------------
(* A deck that was created never becomes one that was not, and what a step  *)
(* adds to the records and to the answers tells of a deck that was.         *)
LEMMA NextTold ==
  ASSUME IInv, ToldIsThere, [Next]_vars
  PROVE  ToldIsThere'
  <1>1. ASSUME UNCHANGED <<name, record, told>> PROVE ToldIsThere'
    BY <1>1 DEF ToldIsThere
  <1>2. ASSUME NEW r \in Clients, UNCHANGED <<name, record>>,
               Answer(r, "conflict", NoDeck) \/ Answer(r, "error", NoDeck)
        PROVE  ToldIsThere'
    BY <1>2 DEF ToldIsThere, Answer
  <1>3. ASSUME NEW r \in Clients, LookUp(r) PROVE ToldIsThere'
    <2>1. tx[r].key \in Keys
      BY <1>3 DEF LookUp, IInv, RequestsOK, Sound
    <2>2. CASE UNCHANGED told
      BY <1>1, <1>3, <2>2 DEF LookUp, tables
    <2>3. CASE record[tx[r].key] # NoDeck /\ Answer(r, "created", record[tx[r].key])
      BY <1>3, <2>1, <2>3 DEF LookUp, tables, Answer, ToldIsThere
    <2> QED BY <1>3, <2>2, <2>3 DEF LookUp
  <1>4. ASSUME NEW r \in Clients, CheckName(r) PROVE ToldIsThere'
    <2>1. CASE UNCHANGED <<record, told>>
      BY <1>1, <1>4, <2>1 DEF CheckName
    <2>2. CASE Answer(r, "conflict", NoDeck) /\ record' = Wiped(r)
      BY <1>4, <2>2 DEF CheckName, Answer, ToldIsThere, Wiped
    <2>3. CASE Answer(r, "error", NoDeck) /\ UNCHANGED record
      BY <1>2, <1>4, <2>3 DEF CheckName
    <2> QED BY <1>4, <2>1, <2>2, <2>3 DEF CheckName
  <1>5. ASSUME NEW r \in Clients, WriteName(r) PROVE ToldIsThere'
    <2>1. CASE UNCHANGED told
      BY <1>1, <1>5, <2>1 DEF WriteName, RollBack, tables
    <2>2. CASE RollBack(r)
      BY <1>2, <2>2 DEF RollBack, tables
    <2> QED BY <1>5, <2>1, <2>2 DEF WriteName
  <1>6. ASSUME NEW r \in Clients, Commit(r) PROVE ToldIsThere'
    <2>1. tx[r].deck \in Decks /\ tx[r].name # NoName
      BY <1>6, NamesAssumption DEF Commit, IInv, RequestsOK, Sound
    <2>2. /\ name'[tx[r].deck] # NoName
          /\ \A d \in Decks : name[d] # NoName => name'[d] # NoName
      BY <1>6, <2>1 DEF Commit, IInv, TablesOK
    <2>3. \A k \in Keys : record'[k] \in {record[k], NoDeck, tx[r].deck}
      BY <1>6 DEF Commit, Wiped, IInv, TablesOK
    <2>4. \A k \in Keys : record'[k] # NoDeck => name'[record'[k]] # NoName
      BY <2>2, <2>3 DEF ToldIsThere, IInv, TablesOK
    <2>5. \A a \in told' : a.status = "created" => a \in told \/ a.deck = tx[r].deck
      BY <1>6 DEF Commit, Answer
    <2>6. \A a \in told : a.status = "created" => a.deck \in Decks
      BY DEF IInv, HistoryOK
    <2> QED BY <2>2, <2>4, <2>5, <2>6 DEF ToldIsThere
  <1>7. ASSUME NEW d \in Decks, DeleteDeck(d) PROVE ToldIsThere'
    <2>1. name' = [name EXCEPT ![d] = Gone] /\ UNCHANGED <<record, told>>
      BY <1>7 DEF DeleteDeck
    <2>2. \A e \in Decks : name[e] # NoName => name'[e] # NoName
      BY <2>1, NamesAssumption DEF IInv, TablesOK
    <2>3. \A a \in told : a.status = "created" => a.deck \in Decks
      BY DEF IInv, HistoryOK
    <2> QED BY <2>1, <2>2, <2>3 DEF ToldIsThere, IInv, TablesOK
  <1>8. CASE UNCHANGED vars
    BY <1>1, <1>8 DEF vars
  <1>9. ASSUME NEW r \in Clients, Arrive(r) \/ Lose(r) \/ WipeRecord(r) \/ StoreRecord(r)
        PROVE  ToldIsThere'
    BY <1>1, <1>9 DEF Arrive, BeginCreate, BeginRename, Lose, WipeRecord, StoreRecord,
                      tables
  <1>10. ASSUME NEW k \in Keys, Expire(k) PROVE ToldIsThere'
    BY <1>1, <1>10 DEF Expire
  <1> QED BY <1>3, <1>4, <1>5, <1>6, <1>7, <1>8, <1>9, <1>10 DEF Next, Proceed, Rested

(* A stored answer and an answer given always tell of a deck that has been  *)
(* created, and not of one lost with its transaction.                       *)
THEOREM ToldDecksExist == Spec => []ToldIsThere
  <1>1. Init => ToldIsThere
    BY DEF Init, ToldIsThere
  <1>2. IInv /\ ToldIsThere /\ [Next]_vars => ToldIsThere'
    BY NextTold
  <1> QED BY <1>1, <1>2, AlwaysIInv, PTL DEF Spec

-----------------------------------------------------------------------------
(* Why a stored answer is replayed: between the arrival of a request and    *)
(* its lookup of the key nothing may replace or remove the answer.          *)

(* A request that deletes a record deletes one that has expired.  Since a   *)
(* deck id is given out once, a record stored later is not the one it       *)
(* deletes.                                                                 *)
WipesOld(q) ==
  q.wipes # NoDeck => q.wipes \in made /\ \A k \in Keys : record[k] = q.wipes => k \in old

(* A request that has stored its answer has found none under the key, or    *)
(* one that it deletes.                                                     *)
StoresFree(q) == q.stored => record[q.key] \in {NoDeck, q.wipes}

(* A request to which an answer is owed has not looked yet, and the answer  *)
(* is still there.                                                          *)
OwedIsThere(q) ==
  q.owed # NoDeck => /\ q.op = "create" /\ q.at = "key"
                     /\ q.key \in Keys \ old /\ record[q.key] = q.owed

(* The deck a creation is about to insert is its own.                       *)
OwnDeck(r) ==
  tx[r].op = "create" =>
    /\ tx[r].deck \in made /\ \A k \in Keys : record[k] # tx[r].deck
    /\ \A s \in Clients : tx[s].wipes # tx[r].deck
    /\ \A s \in Clients \ {r} : tx[s].op = "create" => tx[s].deck # tx[r].deck

Holds(q) == WipesOld(q) /\ StoresFree(q) /\ OwedIsThere(q)

(* No two stored answers tell of the same deck.                             *)
OneRecordEach ==
  /\ \A k \in Keys : record[k] # NoDeck => record[k] \in made
  /\ \A k, l \in Keys : record[k] # NoDeck /\ record[k] = record[l] => k = l

ReplayInv ==
  /\ IInv /\ OneRecordEach
  /\ \A r \in Clients : Holds(tx[r]) /\ OwnDeck(r)

(* The idle request holds whatever the tables are.                          *)
LEMMA RestHolds == Holds(Rest) /\ Rest.op = "none" /\ Rest.wipes = NoDeck
  BY DEF Holds, WipesOld, StoresFree, OwedIsThere, Rest

(* A creation has a deck to insert.                                         *)
LEMMA CreationHasDeck ==
  ASSUME IInv, NEW r \in Clients, tx[r].op = "create" PROVE tx[r].deck \in Decks
  BY RestHolds DEF IInv, RequestsOK, Sound

(* What the transaction of a request may do to the records when it ends.    *)
Ends(r) ==
  \A k \in Keys :
    \/ record'[k] = record[k] /\ (k \in old' <=> k \in old)
    \/ record'[k] = NoDeck /\ record[k] = tx[r].wipes
    \/ record'[k] = tx[r].deck /\ tx[r].stored /\ k = tx[r].key

(* The end of a request, whatever it commits, leaves the others' knowledge  *)
(* of the records true.                                                     *)
LEMMA ReplayEnds ==
  ASSUME ReplayInv, IInv', NEW r \in Clients, Update(r, Rest), UNCHANGED made, Ends(r)
  PROVE  ReplayInv'
  <1>1. tx'[r] = Rest /\ \A s \in Clients \ {r} : tx'[s] = tx[s]
    BY DEF Update, ReplayInv, IInv, RequestsOK
  <1>2. /\ \A s \in Clients : Sound(tx[s]) /\ tx[s] \in Requests /\ Holds(tx[s]) /\ OwnDeck(s)
        /\ tx[r].stored => tx[r].op = "create"
    BY DEF ReplayInv, IInv, RequestsOK, Sound
  <1>3. OneRecordEach'
    BY <1>2 DEF Ends, ReplayInv, OneRecordEach, OwnDeck
  <1>4. ASSUME NEW s \in Clients \ {r} PROVE Holds(tx[s])' /\ OwnDeck(s)'
    <2>0. tx'[s] = tx[s] /\ Sound(tx[s]) /\ Holds(tx[s]) /\ OwnDeck(s)
      BY <1>1, <1>2
    <2>1. WipesOld(tx[s])'
      BY <1>2, <2>0 DEF WipesOld, Holds, Ends, OwnDeck
    <2>2. StoresFree(tx[s])'
      <3>1. tx[s].stored => tx[s].key \in Keys /\ ~(tx[r].stored /\ tx[s].key = tx[r].key)
        BY <1>2 DEF Sound, ReplayInv, IInv, RequestsOK, Apart
      <3> QED BY <2>0, <3>1 DEF StoresFree, Holds, Ends
    <2>3. OwedIsThere(tx[s])'
      <3> SUFFICES ASSUME tx[s].owed # NoDeck
                   PROVE  /\ tx[s].key \notin old' /\ record'[tx[s].key] = tx[s].owed
        BY <2>0 DEF OwedIsThere, Holds
      <3>1. /\ tx[s].key \in Keys /\ tx[s].key \notin old /\ record[tx[s].key] = tx[s].owed
        BY <2>0 DEF OwedIsThere, Holds
      <3>2. record[tx[s].key] # tx[r].wipes
        BY <1>2, <3>1 DEF WipesOld, Holds
      <3>3. ~(tx[r].stored /\ tx[s].key = tx[r].key)
        BY <1>2, <3>1, <3>2 DEF StoresFree, Holds
      <3> QED BY <3>1, <3>2, <3>3 DEF Ends
    <2>4. OwnDeck(s)'
      <3> SUFFICES ASSUME tx[s].op = "create" PROVE OwnDeck(s)'
        BY <2>0 DEF OwnDeck
      <3>1. tx[s].deck \in Decks
        BY CreationHasDeck DEF ReplayInv
      <3>2. \A k \in Keys : record'[k] # tx[s].deck
        BY <1>2, <2>0, <3>1, NoAssumption DEF OwnDeck, Ends
      <3>3. \A u \in Clients : tx'[u].wipes # tx[s].deck
        BY <1>1, <2>0, <3>1, RestHolds, NoAssumption DEF OwnDeck
      <3>4. \A u \in Clients \ {s} : tx'[u].op = "create" => tx'[u].deck # tx[s].deck
        BY <1>1, <2>0, RestHolds DEF OwnDeck
      <3> QED BY <2>0, <3>2, <3>3, <3>4 DEF OwnDeck
    <2> QED BY <2>1, <2>2, <2>3, <2>4 DEF Holds
  <1>5. Holds(tx[r])' /\ OwnDeck(r)'
    BY <1>1 DEF Holds, WipesOld, StoresFree, OwedIsThere, OwnDeck, Rest
  <1> QED BY <1>3, <1>4, <1>5 DEF ReplayInv

(* A request goes on, or begins, and commits nothing: the new request holds *)
(* what it says of the records, its deck is the one it had or a new one,    *)
(* and the record it deletes is one that is there.                          *)
LEMMA ReplayGoes ==
  ASSUME ReplayInv, IInv', NEW r \in Clients, NEW q, Update(r, q), UNCHANGED tables,
         made \subseteq made', Holds(q),
         q.op = "create" => \/ tx[r].op = "create" /\ q.deck = tx[r].deck
                            \/ q.deck \in made' \ made,
         q.wipes \in {NoDeck, tx[r].wipes} \cup {record[k] : k \in Keys}
  PROVE  ReplayInv'
  <1>1. tx'[r] = q /\ \A s \in Clients \ {r} : tx'[s] = tx[s]
    BY DEF Update, ReplayInv, IInv, RequestsOK
  <1>2. /\ \A s \in Clients : Sound(tx[s]) /\ tx[s] \in Requests /\ Holds(tx[s]) /\ OwnDeck(s)
        /\ UNCHANGED <<record, old>>
    BY DEF ReplayInv, IInv, RequestsOK, tables
  <1>3. OneRecordEach'
    BY <1>2 DEF ReplayInv, OneRecordEach
  <1>4. \A s \in Clients : Holds(tx[s])'
    BY <1>1, <1>2 DEF Holds, WipesOld, StoresFree, OwedIsThere
  <1>5. ASSUME NEW s \in Clients \ {r} PROVE OwnDeck(s)'
    <2> SUFFICES ASSUME tx[s].op = "create" PROVE OwnDeck(s)'
      BY <1>1 DEF OwnDeck
    <2>0. /\ tx'[s] = tx[s] /\ tx[s].deck \in Decks /\ tx[s].deck \in made
          /\ \A k \in Keys : record[k] # tx[s].deck
      BY <1>1, <1>2, CreationHasDeck DEF OwnDeck, ReplayInv
    <2>1. \A u \in Clients : tx'[u].wipes # tx[s].deck
      BY <1>1, <1>2, <2>0, NoAssumption DEF OwnDeck
    <2>2. \A u \in Clients \ {s} : tx'[u].op = "create" => tx'[u].deck # tx[s].deck
      BY <1>1, <1>2, <2>0 DEF OwnDeck
    <2> QED BY <1>2, <2>0, <2>1, <2>2 DEF OwnDeck
  <1>6. OwnDeck(r)'
    <2> SUFFICES ASSUME q.op = "create" PROVE OwnDeck(r)'
      BY <1>1 DEF OwnDeck
    <2>1. CASE tx[r].op = "create" /\ q.deck = tx[r].deck
      <3>1. tx[r].deck \in Decks
        BY <2>1, CreationHasDeck DEF ReplayInv
      <3>2. \A u \in Clients : tx'[u].wipes # q.deck
        BY <1>1, <1>2, <2>1, <3>1, NoAssumption DEF OwnDeck
      <3> QED BY <1>1, <1>2, <2>1, <3>2 DEF OwnDeck
    <2>2. CASE q.deck \in made' \ made
      <3>1. q.deck \in Decks
        BY <2>2 DEF IInv, HistoryOK
      <3>2. \A k \in Keys : record[k] # q.deck
        BY <2>2, <3>1, NoAssumption DEF ReplayInv, OneRecordEach
      <3>3. \A u \in Clients : tx'[u].wipes # q.deck
        BY <1>1, <1>2, <2>2, <3>1, <3>2, NoAssumption DEF Holds, WipesOld
      <3>4. \A u \in Clients \ {r} : tx'[u].op = "create" => tx'[u].deck # q.deck
        BY <1>1, <1>2, <2>2 DEF OwnDeck
      <3> QED BY <1>1, <1>2, <2>2, <3>2, <3>3, <3>4 DEF OwnDeck
    <2> QED BY <2>1, <2>2
  <1> QED BY <1>3, <1>4, <1>5, <1>6 DEF ReplayInv

(* A request to which nothing is owed any more and that has not stored yet. *)
LEMMA GoesOn ==
  ASSUME ReplayInv, IInv', NEW r \in Clients, NEW q \in Requests, Update(r, q),
         UNCHANGED <<tables, made>>, ~q.stored, q.owed = NoDeck,
         q.op = tx[r].op, q.deck = tx[r].deck, q.wipes \in {NoDeck, tx[r].wipes}
  PROVE  ReplayInv'
  <1>1. Holds(q)
    BY DEF ReplayInv, Holds, WipesOld, StoresFree, OwedIsThere
  <1> QED BY <1>1, ReplayGoes

(* A request that arrives: if an answer is stored under its key, and not    *)
(* expired, it is owed that answer.                                         *)
LEMMA ReplayArrive ==
  ASSUME ReplayInv, IInv', NEW r \in Clients, Arrive(r) PROVE ReplayInv'
  <1>1. ASSUME NEW k \in Keys, NEW d \in Decks, BeginCreate(r, k, d) PROVE ReplayInv'
    <2> DEFINE owed == IF k \in old THEN NoDeck ELSE record[k]
               q == [Rest EXCEPT !.op = "create", !.at = "key", !.key = k, !.deck = d,
                       !.name = NameOf[k], !.owed = owed]
    <2>1. Update(r, q) /\ UNCHANGED tables /\ made' = made \cup {d} /\ d \notin made
      BY <1>1 DEF BeginCreate
    <2>2. owed # NoDeck => k \notin old /\ record[k] = owed
      OBVIOUS
    <2> HIDE DEF owed
    <2>3. /\ q.op = "create" /\ q.at = "key" /\ q.key = k /\ q.deck = d /\ q.owed = owed
          /\ ~q.stored /\ q.wipes = NoDeck
      BY DEF Rest
    <2> HIDE DEF q
    <2>4. Holds(q)
      BY <2>2, <2>3 DEF Holds, WipesOld, StoresFree, OwedIsThere
    <2> QED BY <2>1, <2>3, <2>4, ReplayGoes
  <1>2. ASSUME NEW d \in Decks, NEW n \in Names, BeginRename(r, d, n) PROVE ReplayInv'
    <2> DEFINE q == [Rest EXCEPT !.op = "rename", !.at = "name", !.deck = d, !.name = n]
    <2>1. Update(r, q) /\ UNCHANGED <<tables, made>>
      BY <1>2 DEF BeginRename
    <2>2. q.op = "rename" /\ ~q.stored /\ q.wipes = NoDeck /\ q.owed = NoDeck
      BY DEF Rest
    <2> HIDE DEF q
    <2>3. Holds(q)
      BY <2>2 DEF Holds, WipesOld, StoresFree, OwedIsThere
    <2> QED BY <2>1, <2>2, <2>3, ReplayGoes
  <1> QED BY <1>1, <1>2 DEF Arrive

(* An end that commits nothing.                                             *)
LEMMA ReplayStops ==
  ASSUME ReplayInv, IInv', NEW r \in Clients, Update(r, Rest), UNCHANGED <<tables, made>>
  PROVE  ReplayInv'
  <1>1. Ends(r)
    BY DEF Ends, tables
  <1> QED BY <1>1, ReplayEnds

(* The lookups, the deletion of an expired record and the writes.           *)
LEMMA ReplayProceed ==
  ASSUME ReplayInv, IInv', NEW r \in Clients, Proceed(r) \/ Lose(r) PROVE ReplayInv'
  <1>0. /\ tx[r] \in Requests /\ Sound(tx[r]) /\ Holds(tx[r]) /\ TablesOK
        /\ tx[r].at # "key" => tx[r].owed = NoDeck
    BY DEF ReplayInv, IInv, RequestsOK, Holds, OwedIsThere
  <1>1. CASE Lose(r)
    BY <1>1, ReplayStops DEF Lose
  <1>2. CASE LookUp(r)
    <2>0. tx[r].at = "key" /\ tx[r].key \in Keys /\ UNCHANGED <<tables, made>> /\ ~tx[r].stored
      BY <1>0, <1>2 DEF LookUp, Sound
    <2>1. CASE record[tx[r].key] = NoDeck /\ Go(r, "name")
      <3> DEFINE q == [tx[r] EXCEPT !.at = "name"]
      <3>1. /\ q.stored = tx[r].stored /\ q.owed = tx[r].owed /\ q.op = tx[r].op
            /\ q.deck = tx[r].deck /\ q.wipes = tx[r].wipes
        BY <1>0 DEF Requests
      <3>2. q \in Requests
        BY <1>0 DEF Requests
      <3>3. Update(r, q)
        BY <2>1 DEF Go
      <3>4. tx[r].owed = NoDeck
        BY <1>0, <2>1 DEF Holds, OwedIsThere
      <3> HIDE DEF q
      <3> QED BY <2>0, <3>1, <3>2, <3>3, <3>4, GoesOn
    <2>2. CASE Answer(r, "created", record[tx[r].key])
      BY <2>0, <2>2, ReplayStops DEF Answer
    <2>3. CASE /\ record[tx[r].key] # NoDeck /\ tx[r].key \in old
               /\ Update(r, [tx[r] EXCEPT !.at = "wipe", !.wipes = record[tx[r].key]])
      <3> DEFINE w == record[tx[r].key]
                 q == [tx[r] EXCEPT !.at = "wipe", !.wipes = w]
      <3>1. /\ q.stored = tx[r].stored /\ q.owed = tx[r].owed /\ q.op = tx[r].op
            /\ q.deck = tx[r].deck /\ q.wipes = w
        BY <1>0 DEF Requests
      <3>2. Update(r, q)
        BY <2>3
      <3> HIDE DEF q
      <3>3. tx[r].owed = NoDeck
        BY <1>0, <2>3 DEF Holds, OwedIsThere
      <3>4. w \in made /\ \A k \in Keys : record[k] = w => k \in old
        BY <2>0, <2>3 DEF ReplayInv, OneRecordEach
      <3> HIDE DEF w
      <3>5. Holds(q)
        BY <2>0, <3>1, <3>3, <3>4 DEF Holds, WipesOld, StoresFree, OwedIsThere
      <3>6. w \in {record[k] : k \in Keys}
        BY <2>0 DEF w
      <3> QED BY <2>0, <3>1, <3>2, <3>5, <3>6, ReplayGoes
    <2> QED BY <1>2, <2>1, <2>2, <2>3 DEF LookUp
  <1>3. CASE WipeRecord(r)
    <2>1. PICK w : w = IF record[tx[r].key] = tx[r].wipes THEN tx[r].wipes ELSE NoDeck
      OBVIOUS
    <2> DEFINE q == [tx[r] EXCEPT !.at = "name", !.wipes = w]
    <2>2. Update(r, q) /\ UNCHANGED <<tables, made>>
      BY <1>3, <2>1 DEF WipeRecord
    <2>3. /\ q.stored = tx[r].stored /\ q.owed = tx[r].owed /\ q.op = tx[r].op
          /\ q.deck = tx[r].deck /\ q.wipes = w
      BY <1>0 DEF Requests
    <2>4. w \in Decks \cup {NoDeck} /\ w \in {NoDeck, tx[r].wipes}
      BY <1>0, <2>1 DEF Requests
    <2>5. q \in Requests
      BY <1>0, <2>4 DEF Requests
    <2> HIDE DEF q
    <2>6. tx[r].owed = NoDeck /\ ~tx[r].stored
      BY <1>0, <1>3 DEF WipeRecord, Sound
    <2> QED BY <2>2, <2>3, <2>4, <2>5, <2>6, GoesOn
  <1>4. CASE CheckName(r)
    <2>0. tx[r].at = "name" /\ ~tx[r].stored /\ tx[r].owed = NoDeck
      BY <1>0, <1>4 DEF CheckName, Sound
    <2>1. CASE Go(r, "insert") /\ UNCHANGED <<record, old, told>>
      <3> DEFINE q == [tx[r] EXCEPT !.at = "insert"]
      <3>1. Update(r, q) /\ UNCHANGED <<tables, made>>
        BY <1>4, <2>1 DEF CheckName, Go, tables
      <3>2. /\ q.stored = tx[r].stored /\ q.owed = tx[r].owed /\ q.op = tx[r].op
            /\ q.deck = tx[r].deck /\ q.wipes = tx[r].wipes
        BY <1>0 DEF Requests
      <3>3. q \in Requests
        BY <1>0 DEF Requests
      <3> HIDE DEF q
      <3> QED BY <2>0, <3>1, <3>2, <3>3, GoesOn
    <2>2. CASE /\ Answer(r, "conflict", NoDeck) /\ record' = Wiped(r)
               /\ old' = {k \in old : record'[k] # NoDeck}
      <3>1. Ends(r)
        BY <1>0, <2>2 DEF Ends, Wiped, TablesOK
      <3> QED BY <1>4, <2>2, <3>1, ReplayEnds DEF Answer, CheckName
    <2>3. CASE Answer(r, "error", NoDeck) /\ UNCHANGED <<record, old>>
      BY <1>4, <2>3, ReplayStops DEF Answer, CheckName, tables
    <2> QED BY <1>4, <2>1, <2>2, <2>3 DEF CheckName
  <1>5. CASE WriteName(r)
    <2>1. CASE RollBack(r)
      BY <2>1, ReplayStops DEF RollBack, Answer
    <2>2. CASE Written(r) /\ UNCHANGED <<tables, made>>
      <3>1. PICK at \in {"store", "commit"} :
              at = IF tx[r].op = "create" THEN "store" ELSE "commit"
        OBVIOUS
      <3> DEFINE q == [tx[r] EXCEPT !.named = TRUE, !.at = at]
      <3>2. Update(r, q)
        BY <2>2, <3>1 DEF Written
      <3>3. /\ q.stored = tx[r].stored /\ q.owed = tx[r].owed /\ q.op = tx[r].op
            /\ q.deck = tx[r].deck /\ q.wipes = tx[r].wipes
        BY <1>0 DEF Requests
      <3>4. q \in Requests
        BY <1>0 DEF Requests
      <3> HIDE DEF q
      <3>5. tx[r].owed = NoDeck /\ ~tx[r].stored
        BY <1>0, <1>5 DEF WriteName, Sound
      <3> QED BY <2>2, <3>2, <3>3, <3>4, <3>5, GoesOn
    <2> QED BY <1>5, <2>1, <2>2 DEF WriteName
  <1>6. CASE StoreRecord(r)
    <2>0. tx[r].key \in Keys /\ tx[r].owed = NoDeck
      BY <1>0, <1>6 DEF StoreRecord, Sound
    <2> DEFINE stored == Wiped(r)[tx[r].key] = NoDeck
               q == [tx[r] EXCEPT !.at = "commit", !.stored = stored]
    <2>1. stored => record[tx[r].key] \in {NoDeck, tx[r].wipes}
      BY <2>0 DEF Wiped
    <2>2. Update(r, q) /\ UNCHANGED <<tables, made>>
      BY <1>6 DEF StoreRecord
    <2> HIDE DEF stored
    <2>3. /\ q.stored = stored /\ q.owed = tx[r].owed /\ q.op = tx[r].op
          /\ q.deck = tx[r].deck /\ q.wipes = tx[r].wipes /\ q.key = tx[r].key
      BY <1>0 DEF Requests
    <2> HIDE DEF q
    <2>4. Holds(q)
      BY <1>0, <2>0, <2>1, <2>3 DEF Holds, WipesOld, StoresFree, OwedIsThere
    <2> QED BY <2>2, <2>3, <2>4, ReplayGoes
  <1>7. CASE Commit(r)
    <2>1. Update(r, Rest) /\ UNCHANGED made
      BY <1>7 DEF Commit, Answer
    <2>2. /\ record' = IF tx[r].stored THEN [Wiped(r) EXCEPT ![tx[r].key] = tx[r].deck]
                                       ELSE Wiped(r)
          /\ old' = {k \in old : record'[k] = record[k]}
      BY <1>7 DEF Commit
    <2>3. Ends(r)
      BY <1>0, <2>2 DEF Ends, Wiped, TablesOK
    <2> QED BY <2>1, <2>3, ReplayEnds
  <1> QED BY <1>1, <1>2, <1>3, <1>4, <1>5, <1>6, <1>7 DEF Proceed

(* ReplayInv is inductive.                                                  *)
LEMMA ReplayStep == ReplayInv /\ IInv' /\ [Next]_vars => ReplayInv'
  <1> SUFFICES ASSUME ReplayInv, IInv', [Next]_vars PROVE ReplayInv'
    OBVIOUS
  <1>1. ASSUME NEW d \in Decks, DeleteDeck(d) PROVE ReplayInv'
    BY <1>1 DEF DeleteDeck, ReplayInv, OneRecordEach, Holds, WipesOld, StoresFree,
                OwedIsThere, OwnDeck
  <1>2. ASSUME NEW k \in Keys, Expire(k) PROVE ReplayInv'
    <2>1. /\ UNCHANGED <<record, made, tx>> /\ old \subseteq old'
          /\ \A r \in Clients : tx[r] = Rest
      BY <1>2 DEF Expire
    <2>2. OneRecordEach'
      BY <2>1 DEF ReplayInv, OneRecordEach
    <2>3. \A r \in Clients : Holds(tx[r])' /\ OwnDeck(r)'
      BY <2>1 DEF Holds, WipesOld, StoresFree, OwedIsThere, OwnDeck, Rest
    <2> QED BY <2>2, <2>3 DEF ReplayInv
  <1>3. CASE UNCHANGED vars
    BY <1>3 DEF vars, ReplayInv, OneRecordEach, Holds, WipesOld, StoresFree, OwedIsThere,
                OwnDeck
  <1> QED BY <1>1, <1>2, <1>3, ReplayArrive, ReplayProceed DEF Next, Rested

(* ReplayInv holds in every behaviour.                                      *)
LEMMA AlwaysReplayInv == Spec => []ReplayInv
  <1>1. Init /\ IInv => ReplayInv
    <2> SUFFICES ASSUME Init, IInv PROVE ReplayInv
      OBVIOUS
    <2>1. OneRecordEach
      BY DEF Init, OneRecordEach
    <2>2. ASSUME NEW r \in Clients PROVE Holds(tx[r]) /\ OwnDeck(r)
      <3>1. tx[r] = Rest
        BY DEF Init
      <3> QED BY <3>1, RestHolds DEF OwnDeck
    <2> QED BY <2>1, <2>2 DEF ReplayInv
  <1> QED BY <1>1, ReplayStep, AlwaysIInv, PTL DEF Spec

(* What becomes of a request to which an answer is owed: it is answered     *)
(* with the deck of that answer, or lost.                                   *)
LEMMA OwedStep ==
  ASSUME ReplayInv, [Next]_vars, NEW r \in Clients, tx[r].owed # NoDeck, tx'[r] # tx[r]
  PROVE  /\ name' = name
         /\ told' # told => told' = told \cup {[key |-> tx[r].key, status |-> "created",
                                                deck |-> tx[r].owed]}
  <1>1. /\ tx[r].op = "create" /\ tx[r].at = "key" /\ tx[r].key \notin old
        /\ record[tx[r].key] = tx[r].owed
    BY DEF ReplayInv, Holds, OwedIsThere
  <1>2. ASSUME NEW s \in Clients \ {r}, NEW q, Update(s, q) PROVE FALSE
    BY <1>2 DEF Update, ReplayInv, IInv, RequestsOK
  <1>3. ASSUME NEW s \in Clients \ {r} PROVE ~(Arrive(s) \/ Proceed(s) \/ Lose(s))
    BY <1>2
    DEF Arrive, BeginCreate, BeginRename, Proceed, LookUp, WipeRecord, CheckName, WriteName,
        RollBack, Written, StoreRecord, Commit, Answer, Go, Lose
  <1>4. ~(\E d \in Decks : DeleteDeck(d)) /\ ~(\E k \in Keys : Expire(k)) /\ ~UNCHANGED vars
    BY DEF DeleteDeck, Expire, vars
  <1>5. LookUp(r) \/ Lose(r)
    BY <1>1, <1>3, <1>4
    DEF Next, Rested, Arrive, BeginCreate, BeginRename, Proceed, WipeRecord, CheckName,
        WriteName, StoreRecord, Commit
  <1>6. CASE Lose(r)
    BY <1>6 DEF Lose, tables
  <1>7. CASE LookUp(r)
    BY <1>1, <1>7 DEF LookUp, Answer, tables
  <1> QED BY <1>5, <1>6, <1>7

(* A request that arrives when a fresh answer is stored under its key is    *)
(* answered with it and creates no deck, whatever the others do meanwhile.  *)
THEOREM StoredAnswersAreReplayed == Spec => StoredIsReplayed
  <1> DEFINE Replayed ==
        \A r \in Clients : tx[r].owed # NoDeck /\ tx'[r] # tx[r] =>
          /\ name' = name
          /\ told' # told => told' = told \cup {[key |-> tx[r].key, status |-> "created",
                                                 deck |-> tx[r].owed]}
  <1>1. ReplayInv /\ [Next]_vars => [Replayed]_vars
    BY OwedStep
  <1> QED BY <1>1, AlwaysReplayInv, PTL DEF Spec, StoredIsReplayed
=============================================================================
