------------------------- MODULE IdempotentCreation -------------------------
(***************************************************************************)
(* One user's decks, their names, and the creation of decks with an        *)
(* Idempotency-Key (routes/decks.py, services/deck.py,                     *)
(* services/idempotency.py).                                               *)
(*                                                                         *)
(* A creation looks the key up, looks the name up, inserts the deck and    *)
(* then, in a savepoint, the answer under the key; one COMMIT makes both   *)
(* visible.  The lookups lock nothing.  What keeps two requests apart are  *)
(* the unique constraints on the name and on the key: an INSERT that meets *)
(* an uncommitted entry waits for its transaction, and fails if the entry  *)
(* is there afterwards.                                                    *)
(*                                                                         *)
(* The name is looked up without regard to case, but the constraint that   *)
(* the migrations create is on the name as it is written: names that       *)
(* differ in case do not meet there.  (The index on lower(name) that the   *)
(* ORM's model declares is in no migration.)                               *)
(***************************************************************************)
EXTENDS Naturals, FiniteSets

CONSTANTS Clients,    \* connections
          Keys,       \* a key stands for one creation the user asked for
          Names,      \* deck names, as they are written
          Lower,      \* [Names -> the name in lower case]
          NameOf,     \* the name that is sent along with a key
          Decks,      \* deck ids: an id is given out once
          Extras,     \* what else happens: "rename", "delete", "expire"
          NoKey, NoName, Gone, NoDeck

ASSUME NamesAssumption ==
  /\ NameOf \in [Keys -> Names] /\ Lower \in [Names -> Names]
  /\ {NoName, Gone} \cap Names = {} /\ NoName # Gone
ASSUME NoAssumption == NoKey \notin Keys /\ NoDeck \notin Decks
ASSUME ExtrasAssumption == Extras \subseteq {"rename", "delete", "expire"}

VARIABLES name,    \* [Decks -> name of the deck; NoName if it has not been
                   \* created, Gone once it is deleted]
          record,  \* [Keys -> the deck its stored answer tells of, or NoDeck]
          old,     \* the keys whose answer is older than IDEMPOTENCY_TTL
          made,    \* ids given out so far
          told,    \* the answers given to creations (history)
          tx       \* [Clients -> the request in progress]

vars == <<name, record, old, made, told, tx>>
tables == <<name, record, old>>

(* deck, name: the deck to insert or rename, and its name to be; owed: the  *)
(* answer stored under the key on arrival (history); wipes: the expired     *)
(* record it has deleted; named, stored: has it written the name, the       *)
(* answer?                                                                  *)
Rest == [op |-> "none", at |-> "idle", key |-> NoKey, deck |-> NoDeck, name |-> NoName,
         owed |-> NoDeck, wipes |-> NoDeck, named |-> FALSE, stored |-> FALSE]

Init ==
  /\ name = [d \in Decks |-> NoName]
  /\ record = [k \in Keys |-> NoDeck] /\ old = {}
  /\ made = {} /\ told = {}
  /\ tx = [r \in Clients |-> Rest]

-----------------------------------------------------------------------------
Update(r, request) == tx' = [tx EXCEPT ![r] = request]
Go(r, at) == Update(r, [tx[r] EXCEPT !.at = at])

Answer(r, status, deck) ==
  /\ told' = IF tx[r].op = "create"
             THEN told \cup {[key |-> tx[r].key, status |-> status, deck |-> deck]} ELSE told
  /\ Update(r, Rest)

(* The rollback: nothing of what the request wrote is left.                 *)
RollBack(r) == Answer(r, "conflict", NoDeck) /\ UNCHANGED <<tables, made>>

Exists(d) == name[d] \in Names

BeginCreate(r, k, d) ==
  /\ tx[r].at = "idle" /\ d \notin made
  /\ made' = made \cup {d}
  /\ Update(r, [Rest EXCEPT !.op = "create", !.at = "key", !.key = k, !.deck = d,
                  !.name = NameOf[k], !.owed = IF k \in old THEN NoDeck ELSE record[k]])
  /\ UNCHANGED <<tables, told>>

BeginRename(r, d, n) ==
  /\ "rename" \in Extras /\ tx[r].at = "idle" /\ Exists(d) /\ name[d] # n
  /\ Update(r, [Rest EXCEPT !.op = "rename", !.at = "name", !.deck = d, !.name = n])
  /\ UNCHANGED <<tables, made, told>>

(* MUTANT of LookUp: the age of a record is compared the wrong way round.   *)
LookUpYoungExpire(r) ==
  /\ tx[r].at = "key"
  /\ \/ record[tx[r].key] = NoDeck /\ Go(r, "name") /\ UNCHANGED told
     \/ record[tx[r].key] # NoDeck /\ tx[r].key \in old
        /\ Answer(r, "created", record[tx[r].key])
     \/ /\ record[tx[r].key] # NoDeck /\ tx[r].key \notin old
        /\ Update(r, [tx[r] EXCEPT !.at = "wipe", !.wipes = record[tx[r].key]])
        /\ UNCHANGED told
  /\ UNCHANGED <<tables, made>>

(* get_idempotency_record: replay the stored answer, or delete it if it has *)
(* expired, or go on.                                                       *)
LookUp(r) ==
  /\ tx[r].at = "key"
  /\ \/ record[tx[r].key] = NoDeck /\ Go(r, "name") /\ UNCHANGED told
     \/ record[tx[r].key] # NoDeck /\ tx[r].key \notin old
        /\ Answer(r, "created", record[tx[r].key])
     \/ /\ record[tx[r].key] # NoDeck /\ tx[r].key \in old
        /\ Update(r, [tx[r] EXCEPT !.at = "wipe", !.wipes = record[tx[r].key]])
        /\ UNCHANGED told
  /\ UNCHANGED <<tables, made>>

Wiping(s) == tx[s].wipes # NoDeck /\ tx[s].at # "wipe"

(* The DELETE waits for another one of the same row; a row already gone is  *)
(* no error.                                                                *)
WipeRecord(r) ==
  /\ tx[r].at = "wipe"
  /\ \A s \in Clients \ {r} : ~(Wiping(s) /\ tx[s].wipes = tx[r].wipes)
  /\ Update(r, [tx[r] EXCEPT !.at = "name",
                             !.wipes = IF record[tx[r].key] = @ THEN @ ELSE NoDeck])
  /\ UNCHANGED <<tables, made, told>>

(* The records, as they are once the deletion of r is committed.            *)
Wiped(r) ==
  [k \in Keys |-> IF record[k] # NoDeck /\ record[k] = tx[r].wipes THEN NoDeck ELSE record[k]]

(* The decks, but for the one to be renamed, that have the name asked for   *)
(* or one that differs from it in case only.                                *)
Namesakes(r) ==
  {d \in Decks : /\ Exists(d) /\ Lower[name[d]] = Lower[tx[r].name]
                 /\ tx[r].op = "rename" => d # tx[r].deck}

(* _deck_name_exists.  A conflict is an ordinary answer: get_db commits,    *)
(* and with it the deletion of an expired record.  The query is made for    *)
(* one deck at most: with several the request fails and is rolled back.     *)
CheckName(r) ==
  /\ tx[r].at = "name"
  /\ \/ Namesakes(r) = {} /\ Go(r, "insert") /\ UNCHANGED <<record, old, told>>
     \/ /\ \E d \in Decks : Namesakes(r) = {d}
        /\ Answer(r, "conflict", NoDeck)
        /\ record' = Wiped(r)
        /\ old' = {k \in old : record'[k] # NoDeck}
     \/ /\ \E d, e \in Namesakes(r) : d # e
        /\ Answer(r, "error", NoDeck) /\ UNCHANGED <<record, old>>
  /\ UNCHANGED <<name, made>>

(* The entries, under uq_decks_user_name, of names that s has written or    *)
(* replaced.                                                                *)
NamesOfTx(s) == IF tx[s].named THEN {tx[s].name, name[tx[s].deck]} ELSE {}

-----------------------------------------------------------------------------
Written(r) ==
  Update(r, [tx[r] EXCEPT !.named = TRUE,
               !.at = IF tx[r].op = "create" THEN "store" ELSE "commit"])

(* MUTANT of WriteName: there is no constraint on the names.                *)
WriteNameWithoutIndex(r) ==
  /\ tx[r].at = "insert"
  /\ \A s \in Clients \ {r} : ~(tx[s].named /\ tx[s].deck = tx[r].deck)
  /\ IF tx[r].op = "rename" /\ ~Exists(tx[r].deck)
     THEN RollBack(r)
     ELSE Written(r) /\ UNCHANGED <<tables, made, told>>

(* The INSERT of the deck, or the UPDATE of its name.  IntegrityError rolls *)
(* back, as does the UPDATE of a deck that is gone; a creation answers with *)
(* a conflict.                                                              *)
WriteName(r) ==
  /\ tx[r].at = "insert"
  /\ \A s \in Clients \ {r} : /\ tx[r].name \notin NamesOfTx(s)
                              /\ ~(tx[s].named /\ tx[s].deck = tx[r].deck)
  /\ IF \/ tx[r].op = "rename" /\ ~Exists(tx[r].deck)
        \/ \E d \in Decks \ {tx[r].deck} : name[d] = tx[r].name
     THEN RollBack(r)
     ELSE Written(r) /\ UNCHANGED <<tables, made, told>>

(* MUTANT of StoreRecord: the answer is committed on its own, ahead of the  *)
(* deck it tells of.                                                        *)
StoreRecordAtOnce(r) ==
  /\ tx[r].at = "store"
  /\ \A s \in Clients \ {r} : ~(tx[s].key = tx[r].key /\ (tx[s].stored \/ Wiping(s)))
  /\ record' = IF Wiped(r)[tx[r].key] = NoDeck
               THEN [record EXCEPT ![tx[r].key] = tx[r].deck] ELSE record
  /\ Update(r, [tx[r] EXCEPT !.at = "commit"])
  /\ UNCHANGED <<name, old, made, told>>

(* store_idempotency_record, in a savepoint.  If the key is taken by now    *)
(* the savepoint is rolled back, the answer found there is fetched, and the *)
(* route goes on with its own.                                              *)
StoreRecord(r) ==
  /\ tx[r].at = "store"
  /\ \A s \in Clients \ {r} : ~(tx[s].key = tx[r].key /\ (tx[s].stored \/ Wiping(s)))
  /\ Update(r, [tx[r] EXCEPT !.at = "commit", !.stored = Wiped(r)[tx[r].key] = NoDeck])
  /\ UNCHANGED <<tables, made, told>>

(* The answer is sent once the transaction is committed; the connection may *)
(* break in between.                                                        *)
Commit(r) ==
  /\ tx[r].at = "commit"
  /\ name' = [name EXCEPT ![tx[r].deck] = tx[r].name]
  /\ record' = IF tx[r].stored THEN [Wiped(r) EXCEPT ![tx[r].key] = tx[r].deck] ELSE Wiped(r)
  /\ old' = {k \in old : record'[k] = record[k]}
  /\ Answer(r, "created", tx[r].deck) \/ (Update(r, Rest) /\ UNCHANGED told)
  /\ UNCHANGED made

(* The client goes away, the database or the process fails before COMMIT.   *)
Lose(r) ==
  /\ tx[r].at # "idle"
  /\ Update(r, Rest)
  /\ UNCHANGED <<tables, made, told>>

-----------------------------------------------------------------------------
(* delete_deck waits for a renaming of the deck.                            *)
DeleteDeck(d) ==
  /\ "delete" \in Extras /\ Exists(d)
  /\ \A s \in Clients : ~(tx[s].named /\ tx[s].deck = d)
  /\ name' = [name EXCEPT ![d] = Gone]
  /\ UNCHANGED <<record, old, made, told, tx>>

(* A day passes; no request takes that long.                                *)
Expire(k) ==
  /\ "expire" \in Extras /\ \A r \in Clients : tx[r] = Rest
  /\ record[k] # NoDeck /\ old' = old \cup {k}
  /\ UNCHANGED <<name, record, made, told, tx>>

Arrive(r) ==
  \/ \E k \in Keys, d \in Decks : BeginCreate(r, k, d)
  \/ \E d \in Decks, n \in Names : BeginRename(r, d, n)

Proceed(r) ==
  \/ LookUp(r) \/ WipeRecord(r) \/ CheckName(r) \/ WriteName(r) \/ StoreRecord(r)
  \/ Commit(r)

(* Nobody has anything left to ask.                                         *)
Rested == (\A r \in Clients : tx[r] = Rest) /\ UNCHANGED vars

Next ==
  \/ \E r \in Clients : Arrive(r) \/ Proceed(r) \/ Lose(r)
  \/ \E d \in Decks : DeleteDeck(d)
  \/ \E k \in Keys : Expire(k)
  \/ Rested

Spec == Init /\ [][Next]_vars

-----------------------------------------------------------------------------
Requests == [op : {"none", "create", "rename"},
             at : {"idle", "key", "wipe", "name", "insert", "store", "commit"},
             key : Keys \cup {NoKey}, deck : Decks \cup {NoDeck}, name : Names \cup {NoName},
             owed : Decks \cup {NoDeck}, wipes : Decks \cup {NoDeck},
             named : BOOLEAN, stored : BOOLEAN]

(* Every variable stays within its type; of the requests in progress no two *)
(* have written the same name, and no two an answer under the same key.     *)
TypeOK ==
  /\ name \in [Decks -> Names \cup {NoName, Gone}]
  /\ record \in [Keys -> Decks \cup {NoDeck}]
  /\ old \subseteq {k \in Keys : record[k] # NoDeck}
  /\ made \subseteq Decks
  /\ told \subseteq [key : Keys, status : {"created", "conflict", "error"},
                    deck : Decks \cup {NoDeck}]
  /\ tx \in [Clients -> Requests]
  /\ \A r, s \in Clients : r # s =>
       /\ tx[r].named /\ tx[s].named => tx[r].name # tx[s].name
       /\ tx[r].stored /\ tx[s].stored => tx[r].key # tx[s].key

(* However creations and renamings interleave between looking a name up and *)
(* writing it, no two decks of the user have names that are written alike.  *)
NamesDiffer ==
  \A d, e \in Decks : d # e /\ Exists(d) => name[d] # name[e]

(* No two decks of the user have names that differ in case only (the index  *)
(* ix_decks_user_name_lower that models/deck.py declares;                   *)
(* test_create_deck_case_insensitive_name_conflict).                        *)
LoweredNamesDiffer ==
  \A d, e \in Decks : d # e /\ Exists(d) /\ Exists(e) => Lower[name[d]] # Lower[name[e]]

(* An answer that is stored, or that was given, tells of a deck that has    *)
(* been created: what is replayed never speaks of a deck that was lost with *)
(* a rollback or a broken connection.                                       *)
ToldIsThere ==
  /\ \A k \in Keys : record[k] # NoDeck => name[record[k]] # NoName
  /\ \A a \in told : a.status = "created" => name[a.deck] # NoName

(* A request that arrives when an answer is stored under its key, and not   *)
(* yet a day old, is answered with that deck and creates none, whatever the *)
(* other requests with the key are doing.                                   *)
StoredIsReplayed ==
  [][\A r \in Clients : tx[r].owed # NoDeck /\ tx'[r] # tx[r] =>
       /\ name' = name
       /\ told' # told => told' = told \cup {[key |-> tx[r].key, status |-> "created",
                                              deck |-> tx[r].owed]}]_vars

(* A repeated request with the same key gets the answer of the first one    *)
(* (test_idempotency_key_replay: 201 and the same body).                    *)
RetryIsReplayed == \A a, b \in told : a.key = b.key => a = b
=============================================================================
