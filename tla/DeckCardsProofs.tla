-------------------------- MODULE DeckCardsProofs ---------------------------
(* Safety of DeckCards for any cards, any number of clients and any bound   *)
(* on the version.                                                          *)
EXTENDS DeckCards, FiniteSetTheorems, TLAPS

Inserts == {"create", "merge", "replace"}

(* What the place a request has come to says of the rest of it.             *)
Sound(q) ==
  /\ q.at = "idle" => q = Rest
  /\ q.at # "idle" => q.op \in AllOps /\ (q.op \in Inserts <=> q.new # {})
  /\ q.deck <=> q.at \in {"touching", "committing"}
  /\ q.op \in {"edit", "delete"} => q.card \in Cards
  /\ q.at = "touching" => q.op \in {"edit", "delete"}
  /\ q.at \in {"reading", "counting"} => q.rows = {}
  /\ q.at = "committing" /\ q.op = "delete" => q.rows = {q.card}

(* Only one request at a time has locked the row of the deck, and then the  *)
(* deck is there.                                                           *)
Alone == \A r, s \in Clients : tx[r].deck /\ tx[s].deck => r = s

RequestsOK == tx \in [Clients -> Requests] /\ (\A r \in Clients : Sound(tx[r])) /\ Alone

TablesOK ==
  /\ alive \in BOOLEAN /\ stale \in BOOLEAN
  /\ cards \subseteq used /\ used \subseteq Cards
  /\ count \in Nat /\ version \in Nat

DeckThere == \A r \in Clients : tx[r].deck => alive

(* The ids a request is about to insert are its own.                        *)
Fresh ==
  \A r \in Clients : /\ tx[r].new \subseteq used \ cards
                     /\ \A s \in Clients \ {r} : tx[r].new \cap tx[s].new = {}

(* As long as nobody has overwritten a version, versions only grow ...      *)
Seen == ~stale => \A r \in Clients : tx[r].version <= version

(* ... and a REPLACE import that has still the current one has deleted      *)
(* every card there is.                                                     *)
Emptied ==
  ~stale /\ alive => \A r \in Clients :
     tx[r].op = "replace" /\ tx[r].at \in {"flushing", "committing"} /\ tx[r].version = version
     => tx[r].rows = cards

IInv == /\ RequestsOK /\ TablesOK /\ DeckThere /\ Fresh /\ Seen /\ Emptied
        /\ CountRight /\ NoOrphans

-----------------------------------------------------------------------------
(* The idle request is well typed, holds and knows nothing.                 *)
LEMMA RestSound ==
  /\ Rest \in Requests /\ Sound(Rest) /\ Rest.at = "idle" /\ ~Rest.deck
  /\ Rest.new = {} /\ Rest.version = 0 /\ Rest.op = "none"
  BY DEF Rest, Requests, Sound

(* A step replaces the request of one client.                               *)
LEMMA Updated ==
  ASSUME RequestsOK, NEW r \in Clients, NEW q, Update(r, q)
  PROVE  tx'[r] = q /\ \A s \in Clients \ {r} : tx'[s] = tx[s]
  BY DEF RequestsOK, Update

(* The deck's row stays locked by at most one request.                      *)
LEMMA UpdateSound ==
  ASSUME RequestsOK, NEW r \in Clients, NEW q \in Requests, Sound(q), Update(r, q),
         q.deck => tx[r].deck \/ DeckFree(r)
  PROVE  RequestsOK'
  <1>1. tx' \in [Clients -> Requests]
    BY DEF Update, RequestsOK
  <1>2. tx'[r] = q /\ \A s \in Clients \ {r} : tx'[s] = tx[s]
    BY Updated
  <1>3. \A s \in Clients : Sound(tx[s])'
    <2> TAKE s \in Clients
    <2>1. CASE s = r
      BY <2>1, <1>2 DEF Sound, Rest
    <2>2. CASE s # r
      <3>1. tx'[s] = tx[s] /\ Sound(tx[s])
        BY <2>2, <1>2 DEF RequestsOK
      <3> QED BY <3>1 DEF Sound, Rest
    <2> QED BY <2>1, <2>2
  <1>4. Alone'
    BY <1>2 DEF Alone, RequestsOK, DeckFree
  <1> QED BY <1>1, <1>3, <1>4 DEF RequestsOK

(* A step that changes neither the deck nor its cards.                      *)
LEMMA QuietStep ==
  ASSUME IInv, NEW r \in Clients, NEW q \in Requests, Sound(q), Update(r, q), UNCHANGED data,
         q.deck => alive /\ (tx[r].deck \/ DeckFree(r)),
         used \subseteq used', used' \subseteq Cards,
         q.new = {} \/ q.new = tx[r].new \/ (q.new \subseteq used' /\ q.new \cap used = {}),
         q.version <= version \/ q.version = tx[r].version,
         q.op = "replace" /\ q.at \in {"flushing", "committing"} =>
           q.rows = cards \/ (/\ tx[r].op = "replace" /\ tx[r].at \in {"flushing", "committing"}
                              /\ q.rows = tx[r].rows /\ q.version = tx[r].version)
  PROVE  IInv'
  <1>1. RequestsOK'
    BY UpdateSound DEF IInv
  <1>2. tx'[r] = q /\ \A s \in Clients \ {r} : tx'[s] = tx[s]
    BY Updated DEF IInv
  <1>3. TablesOK' /\ CountRight' /\ NoOrphans'
    BY DEF IInv, data, TablesOK, CountRight, NoOrphans
  <1>4. DeckThere'
    BY <1>2 DEF IInv, data, DeckThere
  <1>5. Fresh'
    <2>1. \A s \in Clients : tx[s].new \subseteq used \ cards
      BY DEF IInv, Fresh
    <2>2. q.new \subseteq used' \ cards'
      BY <2>1 DEF IInv, data, TablesOK
    <2>3. \A s \in Clients \ {r} : q.new \cap tx[s].new = {}
      BY <2>1 DEF IInv, Fresh
    <2>4. cards' = cards
      BY DEF data
    <2>5. \A s \in Clients \ {r} : tx[s].new \subseteq used' \ cards'
      BY <2>1, <2>4
    <2>6. \A s, t \in Clients : s # t => tx'[s].new \cap tx'[t].new = {}
      BY <1>2, <2>3 DEF IInv, Fresh
    <2> QED BY <1>2, <2>2, <2>5, <2>6 DEF Fresh
  <1>6. Seen'
    BY <1>2 DEF IInv, data, Seen
  <1>7. Emptied'
    BY <1>2 DEF IInv, data, Emptied
  <1> QED BY <1>1, <1>3, <1>4, <1>5, <1>6, <1>7 DEF IInv

(* So is the end of a request that rolls back.                              *)
LEMMA RollBackStep ==
  ASSUME IInv, NEW r \in Clients, Finish(r), UNCHANGED <<data, used>> PROVE IInv'
  <1>1. Update(r, Rest) /\ used' = used /\ used \subseteq Cards /\ 0 <= version
    BY DEF Finish, IInv, TablesOK
  <1> QED BY <1>1, RestSound, QuietStep

(* The invariant holds at first.                                            *)
LEMMA InitIInv == Init => IInv
  <1> SUFFICES ASSUME Init PROVE IInv
    OBVIOUS
  <1>1. RequestsOK /\ DeckThere /\ Fresh /\ Seen /\ Emptied
    BY RestSound DEF Init, RequestsOK, Alone, DeckThere, Fresh, Seen, Emptied
  <1>2. TablesOK /\ NoOrphans
    BY DEF Init, TablesOK, NoOrphans
  <1>3. CountRight
    BY FS_EmptySet DEF Init, CountRight
  <1> QED BY <1>1, <1>2, <1>3 DEF IInv

(* A request that arrives.                                                  *)
LEMMA ArriveStep ==
  ASSUME IInv, NEW r \in Clients, Arrive(r) PROVE IInv'
  <1>1. ASSUME NEW op \in AllOps, NEW c \in Cards \cup {NoCard}, NEW S \in SUBSET Cards,
               S \cap used = {}, op \in Inserts <=> S # {},
               op \in {"edit", "delete"} => c \in Cards, Begin(r, op, "reading", c, S)
        PROVE  IInv'
    <2> DEFINE q == [Rest EXCEPT !.op = op, !.at = "reading", !.card = c, !.new = S]
    <2>1. q \in Requests /\ Sound(q) /\ ~q.deck /\ q.new = S /\ q.at = "reading" /\ q.version = 0
      BY <1>1 DEF Rest, Requests, Sound
    <2>2. Update(r, q) /\ UNCHANGED data /\ used' = used \cup S /\ used \subseteq Cards
          /\ version \in Nat
      BY <1>1 DEF Begin, IInv, TablesOK
    <2> HIDE DEF q
    <2>3. used \subseteq used' /\ used' \subseteq Cards /\ q.new \subseteq used'
          /\ q.new \cap used = {} /\ q.version <= version
      BY <1>1, <2>1, <2>2
    <2> QED BY <2>1, <2>2, <2>3, QuietStep
  <1>2. ASSUME NEW c \in Cards, BeginCreate(r, c) PROVE IInv'
    BY <1>1, <1>2 DEF BeginCreate, AllOps, Inserts
  <1>3. ASSUME NEW c \in Cards, NEW op \in {"edit", "delete"}, FindCard(r, op, c) PROVE IInv'
    BY <1>1, <1>3 DEF FindCard, AllOps, Inserts
  <1>4. ASSUME NEW S \in SUBSET Cards, NEW op \in {"merge", "replace"}, BeginImport(r, op, S)
        PROVE  IInv'
    BY <1>1, <1>4 DEF BeginImport, AllOps, Inserts
  <1>5. ASSUME NEW op \in {"rename", "drop"}, BeginDeck(r, op) PROVE IInv'
    BY <1>1, <1>5 DEF BeginDeck, AllOps, Inserts
  <1> QED BY <1>2, <1>3, <1>4, <1>5 DEF Arrive

(* The unlocked reads and the deletion of the cards.                        *)
LEMMA ReadStep ==
  ASSUME IInv, NEW r \in Clients, ReadDeck(r) \/ CountCards(r) \/ WipeCards(r) PROVE IInv'
  <1>0. /\ tx[r] \in Requests /\ Sound(tx[r])
        /\ cards \subseteq Cards /\ IsFiniteSet(Cards) /\ version \in Nat /\ count \in Nat
        /\ used \subseteq Cards
    BY CardsAssumption DEF IInv, RequestsOK, TablesOK
  <1>1. CASE ReadDeck(r) /\ alive
    <2> DEFINE at == CASE tx[r].op = "replace" -> "counting"
                       [] tx[r].op = "drop" -> "wiping"
                       [] OTHER -> "flushing"
               q == [tx[r] EXCEPT !.count = count, !.version = version, !.at = at]
    <2>1. at \in {"counting", "wiping", "flushing"} /\ (at = "flushing" => tx[r].op # "replace")
          /\ (at = "counting" => tx[r].op = "replace")
      OBVIOUS
    <2>2. Update(r, q) /\ UNCHANGED <<data, used>> /\ tx[r].at = "reading"
      BY <1>1 DEF ReadDeck
    <2> HIDE DEF at
    <2>3. q \in Requests /\ Sound(q) /\ ~q.deck /\ q.new = tx[r].new /\ q.op = tx[r].op
          /\ q.version = version /\ q.at = at
      BY <1>0, <2>1, <2>2 DEF Requests, Sound
    <2> HIDE DEF q
    <2> QED BY <1>0, <2>1, <2>2, <2>3, QuietStep
  <1>2. CASE ReadDeck(r) /\ ~alive
    BY <1>2, RollBackStep DEF ReadDeck
  <1>3. CASE CountCards(r)
    <2> DEFINE q == [tx[r] EXCEPT !.gone = Cardinality(cards),
                                  !.at = IF cards = {} THEN "flushing" ELSE "wiping"]
    <2>1. Cardinality(cards) \in Nat
      BY <1>0, FS_Subset, FS_CardinalityType
    <2>2. Update(r, q) /\ UNCHANGED <<data, used>> /\ tx[r].at = "counting"
      BY <1>3 DEF CountCards
    <2>3. q \in Requests /\ Sound(q) /\ ~q.deck /\ q.new = tx[r].new /\ q.rows = {}
          /\ q.version = tx[r].version /\ (q.at = "flushing" => cards = {}) /\ q.at # "committing"
      BY <1>0, <2>1, <2>2 DEF Requests, Sound
    <2> HIDE DEF q
    <2> QED BY <1>0, <2>2, <2>3, QuietStep
  <1>4. CASE WipeCards(r)
    <2> DEFINE q == [tx[r] EXCEPT !.at = "flushing", !.rows = cards]
    <2>1. Update(r, q) /\ UNCHANGED <<data, used>> /\ tx[r].at = "wiping"
      BY <1>4 DEF WipeCards
    <2>2. q \in Requests /\ Sound(q) /\ ~q.deck /\ q.new = tx[r].new /\ q.rows = cards
          /\ q.version = tx[r].version
      BY <1>0, <2>1 DEF Requests, Sound
    <2> HIDE DEF q
    <2> QED BY <1>0, <2>1, <2>2, QuietStep
  <1> QED BY <1>1, <1>2, <1>3, <1>4

(* The flush.                                                               *)
LEMMA FlushStep ==
  ASSUME IInv, NEW r \in Clients, FlushDeck(r) \/ FlushCard(r) PROVE IInv'
  <1>0. tx[r] \in Requests /\ Sound(tx[r]) /\ used \subseteq Cards
    BY DEF IInv, RequestsOK, TablesOK
  <1>1. CASE Finish(r)
    BY <1>1, RollBackStep DEF FlushDeck, FlushCard
  <1>2. CASE FlushDeck(r) /\ ~Finish(r)
    <2> DEFINE q == [tx[r] EXCEPT !.deck = TRUE,
                       !.at = IF tx[r].op \in {"edit", "delete"} THEN "touching"
                                                                 ELSE "committing"]
    <2>1. Update(r, q) /\ UNCHANGED <<data, used>> /\ tx[r].at = "flushing" /\ alive /\ DeckFree(r)
      BY <1>2 DEF FlushDeck
    <2>2. /\ q \in Requests /\ Sound(q) /\ q.new = tx[r].new /\ q.rows = tx[r].rows
          /\ q.version = tx[r].version /\ q.op = tx[r].op
      BY <1>0, <2>1 DEF Requests, Sound
    <2> HIDE DEF q
    <2> QED BY <1>0, <2>1, <2>2, QuietStep
  <1>3. CASE FlushCard(r) /\ ~Finish(r)
    <2> DEFINE q == [tx[r] EXCEPT !.at = "committing", !.rows = {tx[r].card}]
    <2>1. Update(r, q) /\ UNCHANGED <<data, used>> /\ tx[r].at = "touching" /\ alive
      BY <1>0, <1>3 DEF FlushCard, IInv, DeckThere, Sound
    <2>2. tx[r].op \in {"edit", "delete"} /\ tx[r].deck
      BY <1>0, <2>1 DEF Sound
    <2>3. tx[r].card \in Cards
      BY <1>0, <2>1, <2>2 DEF Sound, Requests
    <2>4. /\ q \in Requests /\ Sound(q) /\ q.new = tx[r].new
          /\ q.version = tx[r].version /\ q.op = tx[r].op
      BY <1>0, <2>1, <2>2, <2>3 DEF Requests, Sound
    <2> HIDE DEF q
    <2> QED BY <1>0, <2>1, <2>2, <2>4, QuietStep
  <1> QED BY <1>1, <1>2, <1>3

-----------------------------------------------------------------------------
(* The sums that a commit writes, if they are not stale.                    *)
LEMMA CommitCounts ==
  ASSUME IInv, NEW r \in Clients, Commit(r), ~stale'
  PROVE  /\ count' = Cardinality(cards')
         /\ version' >= version
         /\ cards' # cards => version' > version
  <1>0. /\ tx[r] \in Requests /\ Sound(tx[r]) /\ tx[r].at = "committing" /\ tx[r].op # "drop"
        /\ tx[r].op \in AllOps /\ tx[r].rows \subseteq Cards /\ tx[r].new \subseteq used \ cards
        /\ tx[r].new \subseteq Cards /\ tx[r].gone \in Nat /\ alive /\ used \subseteq Cards
        /\ cards \subseteq Cards
    BY DEF IInv, RequestsOK, Commit, Sound, Requests, DeckThere, Fresh, TablesOK
  <1>1. /\ ~stale /\ tx[r].version = version /\ tx[r].count = count
        /\ tx[r].op = "delete" => tx[r].card \in cards
    BY <1>0 DEF Commit, IInv, TablesOK
  <1>2. count = Cardinality(cards) /\ count \in Nat /\ version \in Nat
    BY <1>0, <1>1 DEF IInv, CountRight, TablesOK
  <1>3. count' = NewCount(r) /\ version' = NewVersion(r)
    BY <1>1 DEF Commit, Written
  <1>4. IsFiniteSet(cards) /\ IsFiniteSet(tx[r].new) /\ Cardinality(tx[r].new) \in Nat
    BY <1>0, CardsAssumption, FS_Subset, FS_CardinalityType
  <1>5. tx[r].new # {} => Cardinality(tx[r].new) > 0
    BY <1>4, FS_EmptySet
  <1>6. CASE tx[r].op = "delete"
    <2>1. cards' = cards \ {tx[r].card}
      <3>1. tx[r].rows = {tx[r].card} /\ tx[r].new = {}
        BY <1>0, <1>6 DEF Sound, Inserts
      <3> QED BY <3>1, <1>6 DEF Commit, Deleted
    <2>2. Cardinality(cards') = count - 1 /\ Cardinality(cards') \in Nat
      <3>1. IsFiniteSet(cards') /\ Cardinality(cards') = Cardinality(cards) - 1
        BY <1>1, <1>4, <1>6, <2>1, FS_RemoveElement
      <3> QED BY <1>2, <3>1, FS_CardinalityType
    <2> QED BY <1>1, <1>2, <1>3, <1>6, <2>2 DEF NewCount, NewVersion
  <1>7. CASE tx[r].op = "replace"
    <2>1. tx[r].rows = cards
      BY <1>0, <1>1, <1>7 DEF IInv, Emptied
    <2>2. cards' = tx[r].new
      BY <1>7, <2>1 DEF Commit, Deleted
    <2>3. tx[r].new # {}
      BY <1>0, <1>7 DEF Sound, Inserts
    <2>4. NewCount(r) = Cardinality(tx[r].new)
      BY <1>7 DEF NewCount
    <2>5. NewVersion(r) = version + (tx[r].gone + Cardinality(tx[r].new))
      BY <1>1, <1>7 DEF NewVersion
    <2> QED BY <1>0, <1>2, <1>3, <1>4, <1>5, <2>2, <2>3, <2>4, <2>5
  <1>8. CASE tx[r].op \notin {"delete", "replace"}
    <2>1. cards' = cards \cup tx[r].new
      BY <1>8 DEF Commit, Deleted
    <2>2. Cardinality(cards') = Cardinality(cards) + Cardinality(tx[r].new)
      <3>1. cards \cap tx[r].new = {}
        BY <1>0
      <3>2. Cardinality(cards \cup tx[r].new)
              = Cardinality(cards) + Cardinality(tx[r].new) - Cardinality(cards \cap tx[r].new)
        BY <1>4, FS_Union
      <3>3. Cardinality(cards \cap tx[r].new) = 0
        BY <3>1, FS_EmptySet
      <3>4. Cardinality(cards) \in Nat
        BY <1>2
      <3> QED BY <1>4, <2>1, <3>2, <3>3, <3>4
    <2>3. NewCount(r) = count + Cardinality(tx[r].new)
      BY <1>1, <1>8 DEF NewCount
    <2>4. NewVersion(r) \in Nat /\ NewVersion(r) >= version
          /\ (tx[r].op \in {"create", "merge"} =>
                NewVersion(r) = version + (tx[r].gone + Cardinality(tx[r].new)))
      BY <1>0, <1>1, <1>2, <1>4, <1>8 DEF NewVersion
    <2>5. cards' # cards => tx[r].op \in {"create", "merge"} /\ tx[r].new # {}
      BY <1>0, <1>8, <2>1 DEF Sound, Inserts
    <2> QED BY <1>0, <1>2, <1>3, <1>4, <1>5, <2>2, <2>3, <2>4, <2>5
  <1> QED BY <1>6, <1>7, <1>8

(* A commit preserves the invariant.                                        *)
LEMMA CommitStep ==
  ASSUME IInv, NEW r \in Clients, Commit(r) PROVE IInv'
  <1>0. /\ tx[r] \in Requests /\ Sound(tx[r]) /\ tx[r].at = "committing" /\ tx[r].deck /\ alive
        /\ tx[r].new \subseteq used \ cards /\ tx[r].count \in Nat /\ tx[r].version \in Nat
        /\ tx[r].gone \in Nat /\ IsFiniteSet(tx[r].new)
    BY CardsAssumption, FS_Subset
    DEF IInv, RequestsOK, Commit, Sound, Requests, DeckThere, Fresh
  <1>1. Update(r, Rest) /\ UNCHANGED <<alive, used>>
    BY DEF Commit, Finish
  <1>2. tx'[r] = Rest /\ \A s \in Clients \ {r} : tx'[s] = tx[s]
    BY <1>1, Updated DEF IInv
  <1>3. RequestsOK'
    BY <1>1, RestSound, UpdateSound DEF IInv
  <1>4. TablesOK'
    <2>1. Cardinality(tx[r].new) \in Nat
      BY <1>0, FS_CardinalityType
    <2>2. NewCount(r) \in Nat
      BY <1>0, <2>1 DEF NewCount
    <2>3. NewVersion(r) \in Nat
      BY <1>0, <2>1 DEF NewVersion
    <2>4. count' \in Nat /\ version' \in Nat
      BY <2>2, <2>3 DEF Commit, Written, IInv, TablesOK
    <2>5. stale' \in BOOLEAN
      BY DEF Commit, IInv, TablesOK
    <2>6. cards' \subseteq used'
      BY <1>0 DEF Commit, IInv, TablesOK
    <2> QED BY <1>1, <2>4, <2>5, <2>6 DEF IInv, TablesOK
  <1>5. DeckThere'
    BY <1>1, <1>2, RestSound DEF IInv, DeckThere
  <1>6. Fresh'
    <2>1. cards' \subseteq cards \cup tx[r].new
      BY DEF Commit
    <2>2. \A s \in Clients \ {r} : tx[s].new \subseteq used \ cards /\ tx[s].new \cap tx[r].new = {}
      BY DEF IInv, Fresh
    <2> QED BY <1>1, <1>2, <2>1, <2>2, RestSound DEF IInv, Fresh
  <1>7. stale => stale'
    BY DEF Commit
  <1>8. CASE stale'
    BY <1>0, <1>1, <1>3, <1>4, <1>5, <1>6, <1>8 DEF IInv, Seen, Emptied, CountRight, NoOrphans
  <1>9. CASE ~stale'
    <2>1. /\ count' = Cardinality(cards') /\ version' >= version
          /\ cards' # cards => version' > version
      BY <1>9, CommitCounts
    <2>2. /\ version \in Nat /\ version' \in Nat
          /\ \A s \in Clients : tx[s].version \in Nat /\ tx[s].version <= version
      BY <1>4, <1>7, <1>9 DEF IInv, TablesOK, Seen, RequestsOK, Requests
    <2>3. Seen'
      BY <1>2, <2>1, <2>2, RestSound DEF Seen
    <2>4. Emptied'
      BY <1>1, <1>2, <1>7, <1>9, <2>1, <2>2, RestSound DEF Emptied, IInv
    <2> QED BY <1>0, <1>1, <1>3, <1>4, <1>5, <1>6, <2>1, <2>3, <2>4 DEF IInv, CountRight, NoOrphans
  <1> QED BY <1>8, <1>9

(* The deletion of the deck takes every card along, and nobody else was     *)
(* writing to the deck.                                                     *)
LEMMA DropStep ==
  ASSUME IInv, NEW r \in Clients, CommitDrop(r) PROVE IInv'
  <1>1. /\ Update(r, Rest) /\ alive' = FALSE /\ cards' = {} /\ UNCHANGED <<count, version, used, stale>>
        /\ tx[r].at = "committing"
    BY DEF CommitDrop, Finish
  <1>2. tx'[r] = Rest /\ \A s \in Clients \ {r} : tx'[s] = tx[s]
    BY <1>1, Updated DEF IInv
  <1>3. RequestsOK'
    BY <1>1, RestSound, UpdateSound DEF IInv
  <1>4. tx[r].deck
    BY <1>1 DEF IInv, RequestsOK, Sound
  <1>5. DeckThere'
    BY <1>2, <1>4, RestSound DEF IInv, RequestsOK, Alone, DeckThere
  <1>6. TablesOK' /\ CountRight' /\ NoOrphans' /\ Emptied'
    BY <1>1 DEF IInv, TablesOK, CountRight, NoOrphans, Emptied
  <1>7. Fresh' /\ Seen'
    BY <1>1, <1>2, RestSound DEF IInv, Fresh, Seen, TablesOK
  <1> QED BY <1>3, <1>5, <1>6, <1>7 DEF IInv

(* Every step preserves the invariant.                                      *)
LEMMA NextIInv == IInv /\ [Next]_vars => IInv'
  <1> SUFFICES ASSUME IInv, [Next]_vars PROVE IInv'
    OBVIOUS
  <1>1. ASSUME NEW r \in Clients, DeadlockVictim(r) PROVE IInv'
    BY <1>1, RollBackStep DEF DeadlockVictim
  <1>2. CASE UNCHANGED vars
    BY <1>2 DEF vars, IInv, RequestsOK, Sound, Rest, Alone, TablesOK, DeckThere, Fresh, Seen,
                Emptied, CountRight, NoOrphans
  <1> QED BY <1>1, <1>2, ArriveStep, ReadStep, FlushStep, CommitStep, DropStep
          DEF Next, Proceed, Rested

(* The invariant always holds.                                              *)
LEMMA AlwaysIInv == Spec => []IInv
  BY InitIInv, NextIInv, PTL DEF Spec

-----------------------------------------------------------------------------
(* Every variable keeps its type, and the deck's row is locked by at most   *)
(* one request at a time.                                                   *)
THEOREM TypeCorrect == Spec => []TypeOK
  <1>1. IInv => TypeOK
    BY DEF IInv, RequestsOK, Sound, Alone, TablesOK, TypeOK
  <1> QED BY <1>1, AlwaysIInv, PTL

(* Until a request has committed sums computed from counters it read too    *)
(* early, card_count is the number of cards, for any mixture of requests.   *)
THEOREM CountAlwaysRight == Spec => []CountRight
  <1>1. IInv => CountRight
    BY DEF IInv
  <1> QED BY <1>1, AlwaysIInv, PTL

(* No card ever outlives its deck.                                          *)
THEOREM NeverOrphans == Spec => []NoOrphans
  <1>1. IInv => NoOrphans
    BY DEF IInv
  <1> QED BY <1>1, AlwaysIInv, PTL

(* Until then, too, no change of the set of cards leaves the version as it  *)
(* was.                                                                     *)
THEOREM VersionAlwaysTells == Spec => VersionTells
  <1>1. IInv /\ [Next]_vars => [alive' /\ ~stale' /\ cards' # cards => version' > version]_vars
    <2> SUFFICES ASSUME IInv, Next, alive', ~stale', cards' # cards PROVE version' > version
      BY DEF vars
    <2>1. ASSUME NEW r \in Clients, Commit(r) PROVE version' > version
      BY <2>1, CommitCounts
    <2>2. ASSUME UNCHANGED data PROVE FALSE
      BY <2>2 DEF data
    <2> QED BY <2>1, <2>2
            DEF Next, Arrive, Proceed, Rested, vars, data, BeginCreate, BeginImport, BeginDeck,
                FindCard, Begin, ReadDeck, CountCards, WipeCards, FlushDeck, FlushCard,
                CommitDrop, DeadlockVictim
  <1> QED BY <1>1, AlwaysIInv, PTL DEF Spec, VersionTells
=============================================================================
