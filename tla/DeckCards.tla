------------------------------ MODULE DeckCards ------------------------------
(***************************************************************************)
(* One deck, its cards and the two counters kept in the deck's row,        *)
(* card_count and version (services/flashcard.py, services/deck.py and the *)
(* import in services/import_job.py).                                      *)
(*                                                                         *)
(* Every request reads the counters, adds to them in Python and writes the *)
(* sums back when it flushes.  The row of the deck is locked by that       *)
(* UPDATE, not by the SELECT before it, so a request may write sums it     *)
(* computed from a row that has changed since.  The flush writes the deck  *)
(* first and the card after it; a REPLACE import and the deletion of the   *)
(* deck delete the cards before they come to the deck.                     *)
(***************************************************************************)
EXTENDS Naturals, FiniteSets

CONSTANTS Cards,      \* card ids: an id is given out once
          Clients,    \* connections, the import worker among them
          Ops,        \* the kinds of requests they make
          NoCard,
          MaxVersion  \* bound: no edit or renaming begins from here on

AllOps == {"create", "edit", "delete", "rename", "merge", "replace", "drop"}

ASSUME OpsAssumption == Ops \subseteq AllOps
ASSUME CardsAssumption == IsFiniteSet(Cards) /\ NoCard \notin Cards
ASSUME BoundAssumption == MaxVersion \in Nat

VARIABLES alive,           \* does the deck exist?
          cards,           \* the ids of its cards
          count, version,  \* its counters
          used,            \* ids given out so far
          stale,           \* has a commit overwritten counters it had not
                           \* read, or deleted a card already gone? (history)
          tx               \* [Clients -> the request in progress]

vars == <<alive, cards, count, version, used, stale, tx>>
data == <<alive, cards, count, version, stale>>

(* card: the card to edit or delete; new: the cards to insert; count and    *)
(* version: as read; gone: how many cards _wipe_deck_cards has counted;     *)
(* rows: the rows of cards it has locked; deck: has it locked the deck?     *)
Rest == [op |-> "none", at |-> "idle", card |-> NoCard, new |-> {}, count |-> 0,
         version |-> 0, gone |-> 0, rows |-> {}, deck |-> FALSE]

Init ==
  /\ alive = TRUE /\ cards = {} /\ count = 0 /\ version = 1
  /\ used = {} /\ stale = FALSE
  /\ tx = [r \in Clients |-> Rest]

-----------------------------------------------------------------------------
Update(r, request) == tx' = [tx EXCEPT ![r] = request]
Finish(r) == Update(r, Rest)

DeckFree(r) == \A s \in Clients \ {r} : ~tx[s].deck
RowFree(r, c) == \A s \in Clients \ {r} : c \notin tx[s].rows

Begin(r, op, at, c, S) ==
  /\ op \in Ops /\ tx[r].at = "idle" /\ alive
  /\ Update(r, [Rest EXCEPT !.op = op, !.at = at, !.card = c, !.new = S])
  /\ used' = used \cup S
  /\ UNCHANGED data

(* create_card; an import whose rows, duplicates apart, become the cards S. *)
BeginCreate(r, c) == c \notin used /\ Begin(r, "create", "reading", NoCard, {c})
BeginImport(r, op, S) ==
  S # {} /\ S \cap used = {} /\ Begin(r, op, "reading", NoCard, S)
BeginDeck(r, op) ==
  (op = "rename" => version < MaxVersion) /\ Begin(r, op, "reading", NoCard, {})

(* update_card and delete_card look the card up first.                      *)
FindCard(r, op, c) ==
  /\ c \in cards
  /\ op = "edit" => version < MaxVersion
  /\ Begin(r, op, "reading", c, {})

(* _get_deck: an unlocked SELECT; 404 if there is no such deck.             *)
ReadDeck(r) ==
  /\ tx[r].at = "reading"
  /\ IF alive
     THEN Update(r, [tx[r] EXCEPT !.count = count, !.version = version,
                            !.at = CASE tx[r].op = "replace" -> "counting"
                                     [] tx[r].op = "drop" -> "wiping"
                                     [] OTHER -> "flushing"])
     ELSE Finish(r)
  /\ UNCHANGED <<data, used>>

(* _wipe_deck_cards counts, and deletes if there was something to count.    *)
CountCards(r) ==
  /\ tx[r].at = "counting"
  /\ Update(r, [tx[r] EXCEPT !.gone = Cardinality(cards),
                             !.at = IF cards = {} THEN "flushing" ELSE "wiping"])
  /\ UNCHANGED <<data, used>>

(* DELETE FROM flashcards waits for rows that others have locked.           *)
WipeCards(r) ==
  /\ tx[r].at = "wiping"
  /\ \A c \in cards : RowFree(r, c)
  /\ Update(r, [tx[r] EXCEPT !.at = "flushing", !.rows = cards])
  /\ UNCHANGED <<data, used>>

(* MUTANT of FlushDeck: the sums are written without waiting for the row.   *)
FlushDeckWithoutLock(r) ==
  /\ tx[r].at = "flushing" /\ alive
  /\ Update(r, [tx[r] EXCEPT !.deck = TRUE,
                  !.at = IF tx[r].op \in {"edit", "delete"} THEN "touching" ELSE "committing"])
  /\ UNCHANGED <<data, used>>

(* The UPDATE (or DELETE) of the deck: it waits for the row; if the row is  *)
(* gone then, StaleDataError rolls the request back.                        *)
FlushDeck(r) ==
  /\ tx[r].at = "flushing"
  /\ DeckFree(r)
  /\ IF alive
     THEN Update(r, [tx[r] EXCEPT !.deck = TRUE,
                       !.at = IF tx[r].op \in {"edit", "delete"} THEN "touching"
                                                                  ELSE "committing"])
     ELSE Finish(r)
  /\ UNCHANGED <<data, used>>

(* MUTANT of FlushCard: the failed request keeps its transaction open.      *)
FlushCardWithoutRollback(r) ==
  /\ tx[r].at = "touching"
  /\ RowFree(r, tx[r].card)
  /\ IF tx[r].op = "edit" /\ tx[r].card \notin cards
     THEN Update(r, [Rest EXCEPT !.deck = TRUE])
     ELSE Update(r, [tx[r] EXCEPT !.at = "committing", !.rows = {tx[r].card}])
  /\ UNCHANGED <<data, used>>

(* The card's own row.  An UPDATE that finds no row is an error, a DELETE   *)
(* that finds none only a warning.                                          *)
FlushCard(r) ==
  /\ tx[r].at = "touching"
  /\ RowFree(r, tx[r].card)
  /\ IF tx[r].op = "edit" /\ tx[r].card \notin cards
     THEN Finish(r)
     ELSE Update(r, [tx[r] EXCEPT !.at = "committing", !.rows = {tx[r].card}])
  /\ UNCHANGED <<data, used>>

-----------------------------------------------------------------------------
Deleted(r) == IF tx[r].op \in {"delete", "replace"} THEN tx[r].rows ELSE {}

(* MUTANT of NewCount: a REPLACE import adds to the cards it has deleted.   *)
NewCountOfMerge(r) ==
  CASE tx[r].op = "delete" -> IF tx[r].count = 0 THEN 0 ELSE tx[r].count - 1
    [] OTHER -> tx[r].count + Cardinality(tx[r].new)

(* The sums, as computed from what was read.                                *)
NewCount(r) ==
  CASE tx[r].op = "delete" -> IF tx[r].count = 0 THEN 0 ELSE tx[r].count - 1
    [] tx[r].op = "replace" -> Cardinality(tx[r].new)
    [] OTHER -> tx[r].count + Cardinality(tx[r].new)

(* MUTANT of NewVersion: only what a request adds counts as a new version.  *)
NewVersionOfInsert(r) ==
  tx[r].version + (IF tx[r].op \in {"edit", "rename"} THEN 1 ELSE Cardinality(tx[r].new))

NewVersion(r) ==
  tx[r].version + (IF tx[r].op \in {"edit", "delete", "rename"} THEN 1
                   ELSE tx[r].gone + Cardinality(tx[r].new))

(* The ORM leaves out of the UPDATE a column it has not changed.            *)
Written(read, new, current) == IF new = read THEN current ELSE new

Commit(r) ==
  /\ tx[r].at = "committing" /\ tx[r].op # "drop"
  /\ cards' = (cards \ Deleted(r)) \cup tx[r].new
  /\ count' = Written(tx[r].count, NewCount(r), count)
  /\ version' = Written(tx[r].version, NewVersion(r), version)
  /\ stale' = (stale \/ tx[r].version # version \/ tx[r].count # count
                     \/ (tx[r].op = "delete" /\ tx[r].card \notin cards))
  /\ Finish(r)
  /\ UNCHANGED <<alive, used>>

(* MUTANT of CommitDrop: the deletion forgets the rows inserted after its   *)
(* own DELETE.                                                              *)
CommitDropWithoutCascade(r) ==
  /\ tx[r].at = "committing" /\ tx[r].op = "drop"
  /\ alive' = FALSE /\ cards' = cards \ tx[r].rows
  /\ Finish(r)
  /\ UNCHANGED <<count, version, used, stale>>

(* ON DELETE CASCADE takes along the cards that came after the wipe.        *)
CommitDrop(r) ==
  /\ tx[r].at = "committing" /\ tx[r].op = "drop"
  /\ \A c \in cards : RowFree(r, c)
  /\ alive' = FALSE /\ cards' = {}
  /\ Finish(r)
  /\ UNCHANGED <<count, version, used, stale>>

-----------------------------------------------------------------------------
(* s holds what r waits for; PostgreSQL aborts one request of a cycle.      *)
Blocks(s, r) ==
  /\ s # r
  /\ \/ tx[r].at = "flushing" /\ tx[s].deck
     \/ tx[r].at = "touching" /\ tx[r].card \in tx[s].rows
     \/ /\ tx[r].at = "wiping" \/ (tx[r].at = "committing" /\ tx[r].op = "drop")
        /\ cards \cap tx[s].rows # {}

Stuck(S) == S # {} /\ \A r \in S : \E s \in S : Blocks(s, r)
Cycle(S) == Stuck(S) /\ \A T \in SUBSET S : Stuck(T) => T = S

DeadlockVictim(r) ==
  /\ \E S \in SUBSET Clients : r \in S /\ Cycle(S)
  /\ Finish(r)
  /\ UNCHANGED <<data, used>>

Arrive(r) ==
  \/ \E c \in Cards : BeginCreate(r, c) \/ FindCard(r, "edit", c) \/ FindCard(r, "delete", c)
  \/ \E S \in SUBSET Cards : BeginImport(r, "merge", S) \/ BeginImport(r, "replace", S)
  \/ BeginDeck(r, "rename") \/ BeginDeck(r, "drop")

Proceed(r) ==
  \/ ReadDeck(r) \/ CountCards(r) \/ WipeCards(r) \/ FlushDeck(r) \/ FlushCard(r)
  \/ Commit(r) \/ CommitDrop(r) \/ DeadlockVictim(r)

(* The deck is gone and nobody works on it any more.                        *)
Rested == ~alive /\ (\A r \in Clients : tx[r] = Rest) /\ UNCHANGED vars

Next == (\E r \in Clients : Arrive(r) \/ Proceed(r)) \/ Rested

Spec == Init /\ [][Next]_vars

(* A request in progress goes on, and PostgreSQL grants a lock to the       *)
(* waiter in turn.  No request has to arrive.                               *)
FairSpec == Spec /\ \A r \in Clients : SF_vars(Proceed(r))

-----------------------------------------------------------------------------
Requests == [op : AllOps \cup {"none"},
             at : {"idle", "reading", "counting", "wiping", "flushing", "touching", "committing"},
             card : Cards \cup {NoCard}, new : SUBSET Cards, count : Nat, version : Nat,
             gone : Nat, rows : SUBSET Cards, deck : BOOLEAN]

(* Every variable stays within its type, only requests that may lock the    *)
(* deck's row do, and one at a time.                                        *)
TypeOK ==
  /\ alive \in BOOLEAN /\ stale \in BOOLEAN
  /\ cards \subseteq used /\ used \subseteq Cards
  /\ count \in Nat /\ version \in Nat
  /\ tx \in [Clients -> Requests]
  /\ \A r \in Clients : tx[r].deck <=> tx[r].at \in {"touching", "committing"}
  /\ \A r, s \in Clients : tx[r].deck /\ tx[s].deck => r = s

(* As long as no request has committed sums of counters it read too early   *)
(* or deleted a card that was gone already, card_count is the number of     *)
(* cards, whatever mixture of requests and imports made them.               *)
CountRight == alive /\ ~stale => count = Cardinality(cards)

(* A deck that has been deleted leaves no card behind, those inserted while *)
(* it was being deleted included.                                           *)
NoOrphans == ~alive => cards = {}

(* As long as no request has committed stale sums, every change of the set  *)
(* of cards shows as a higher version.                                      *)
VersionTells ==
  [][alive' /\ ~stale' /\ cards' # cards => version' > version]_vars

(* Every request is answered: requests that wait for each other's rows, the *)
(* deck's and the cards' in opposite orders, do not wait for ever.          *)
RequestReturns == \A r \in Clients : tx[r].at # "idle" ~> tx[r].at = "idle"

(* "Stores deck metadata and card counts": the stored count of cards is the *)
(* number of cards (the deck test creates five, deletes one and expects 4). *)
CountMatchesCards == alive => count = Cardinality(cards)
=============================================================================
