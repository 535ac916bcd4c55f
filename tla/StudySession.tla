---------------------------- MODULE StudySession ----------------------------
(***************************************************************************)
(* One study session and the requests that work on it at the same time:    *)
(* answer, skip and end (services/session.py), the direct answer to a card *)
(* outside a session and the look at its memory, which writes a missing    *)
(* row (routes/memory_states.py), and the deletion of a card               *)
(* (services/flashcard.py).  Each request is one transaction (get_db) at   *)
(* PostgreSQL's READ COMMITTED level.                                      *)
(*                                                                         *)
(* The variables other than tx hold COMMITTED data.  tx holds what a       *)
(* request has read and locked; a request writes only rows it has locked,  *)
(* so its writes take effect when it commits.                              *)
(*                                                                         *)
(* SELECT ... FOR UPDATE ORDER BY position LIMIT 1 sorts a snapshot, then  *)
(* locks rows in that order.  It waits for a row another transaction holds *)
(* and, once granted, looks at the row again: one that no longer satisfies *)
(* the WHERE clause is passed over, one that does is returned although its *)
(* position may have changed meanwhile.                                    *)
(***************************************************************************)
EXTENDS Naturals, FiniteSets, Functions

CONSTANTS Cards,       \* the cards of the deck
          Clients,     \* connections: each has at most one request in progress
          Ops,         \* the kinds of requests they make: see AllOps
          NoCard,
          MaxPosition, \* bound: no skip is begun beyond this position
          MaxDrills    \* bound: no direct answer is begun once a card has had this many

AllOps == {"answer", "skip", "end", "drill", "peek", "delete"}

ASSUME OpsAssumption == Ops \subseteq AllOps
ASSUME NoCardAssumption == NoCard \notin Cards
ASSUME CardsAssumption == IsFiniteSet(Cards)
ASSUME BoundsAssumption == MaxPosition \in Nat /\ MaxDrills \in Nat

VARIABLES session,   \* the row of sessions: "none", "active", "ended"
          expired,   \* has the clock passed expires_at?
          row,       \* [Cards -> RowStates]: the row of session_cards
          position,  \* [Cards -> Nat]
          stored,    \* the cards that have a row in card_memory_states
          reviews,   \* [Cards -> Nat]: answers recorded in that row
          answers,   \* [Cards -> Nat]: session answers committed (history)
          drills,    \* [Cards -> Nat]: direct answers committed (history)
          tx         \* [Clients -> the request in progress]

vars == <<session, expired, row, position, stored, reviews, answers, drills, tx>>

(* "out": the card is not part of the session; "gone": deleted.             *)
RowStates == {"out", "open", "answered", "gone"}

(* A connection without a request: no transaction, so no locks.             *)
Rest == [op |-> "none", at |-> "idle", card |-> NoCard, todo |-> {},
         snap |-> [c \in Cards |-> 0], held |-> {}, mem |-> NoCard, seen |-> 0,
         newPos |-> 0, last |-> FALSE]

-----------------------------------------------------------------------------
(* tx[r].held: the rows of session_cards the request has locked.            *)
Free(c, r) == \A s \in Clients \ {r} : c \notin tx[s].held

(* tx[r].mem: the card_memory_states row it has locked, or inserted and not *)
(* committed.  A locking SELECT does not see the latter.                    *)
MemoryFree(c, r) == \A s \in Clients \ {r} : tx[s].mem # c
MemoryReadable(c, r) == c \in stored => MemoryFree(c, r)
MemoryRow(c) == IF c \in stored THEN c ELSE NoCard

(* A deletion that has reached the flashcards row blocks rows that refer to *)
(* it (FOR KEY SHARE of the foreign key).                                   *)
Deleting(s, c) == tx[s].at = "cascading" /\ tx[s].card = c
CardFree(c, r) == \A s \in Clients \ {r} : ~Deleting(s, c)

(* The rows the sorted snapshot offers next (several if positions tie).     *)
Lowest(r) == {c \in tx[r].todo : \A d \in tx[r].todo : tx[r].snap[c] <= tx[r].snap[d]}
Highest(r) == {c \in tx[r].todo : \A d \in tx[r].todo : tx[r].snap[c] >= tx[r].snap[d]}

Open == {c \in Cards : row[c] = "open"}
InSession == {c \in Cards : row[c] \in {"open", "answered"}}

At(r, op, at) == tx[r].op = op /\ tx[r].at = at
Update(r, request) == tx' = [tx EXCEPT ![r] = request]
Finish(r) == Update(r, Rest)
Begin(r, op, at, c) ==
  /\ op \in Ops /\ tx[r].at = "idle"
  /\ Update(r, [tx[r] EXCEPT !.op = op, !.at = at, !.card = c])

Init ==
  /\ session = "none" /\ expired = FALSE
  /\ row = [c \in Cards |-> "out"]
  /\ position = [c \in Cards |-> 0]
  /\ stored = {} /\ reviews = [c \in Cards |-> 0]
  /\ answers = [c \in Cards |-> 0]
  /\ drills = [c \in Cards |-> 0]
  /\ tx = [r \in Clients |-> Rest]

data == <<session, expired, row, position, stored, reviews, answers, drills>>

-----------------------------------------------------------------------------
(* start_session: some cards of the deck (a limit, due_only or none at all) *)
(* in some order (random or by ease), at positions 0, 1, ...  Inserting the *)
(* rows waits for a deletion of one of the cards.                           *)
StartSession ==
  /\ session = "none"
  /\ session' = "active"
  /\ \E S \in SUBSET {c \in Cards : row[c] = "out"} :
       /\ \A c \in S, s \in Clients : ~Deleting(s, c)
       /\ row' = [c \in Cards |-> IF c \in S THEN "open" ELSE row[c]]
       /\ \E order \in Injection(S, 1..Cardinality(S)) :
            position' = [c \in Cards |-> IF c \in S THEN order[c] - 1 ELSE 0]
  /\ UNCHANGED <<expired, stored, reviews, answers, drills, tx>>

Expire ==
  /\ session = "active" /\ ~expired
  /\ expired' = TRUE
  /\ UNCHANGED <<session, row, position, stored, reviews, answers, drills, tx>>

(* answer_card and skip_card read the session row without locking it.       *)
OpenSession(r, op) ==
  /\ session = "active" /\ ~expired
  /\ op = "skip" => \A c \in Cards : position[c] < MaxPosition
  /\ Begin(r, op, "picking", NoCard)
  /\ UNCHANGED data

(* SessionAlreadyEndedError.  On the expired session the code flushes ENDED *)
(* first, but the exception makes get_db roll the transaction back.         *)
Refuse(r) ==
  /\ tx[r].at = "idle"
  /\ session = "ended" \/ (session = "active" /\ expired)
  /\ UNCHANGED vars

(* The snapshot of the first SELECT ... FOR UPDATE.                         *)
Pick(r) ==
  /\ tx[r].at = "picking"
  /\ Update(r, [tx[r] EXCEPT !.at = "locking", !.todo = Open, !.snap = position])
  /\ UNCHANGED data

Chosen(r, c) == [tx[r] EXCEPT !.at = IF tx[r].op = "answer" THEN "scoring" ELSE "ranking",
                              !.card = c, !.todo = {}, !.snap = Rest.snap]

(* The lock stays with the request even when the row is passed over.        *)
Lock(r, c, then) == Update(r, [then EXCEPT !.held = tx[r].held \cup {c}])
PassOver(r, c) == Lock(r, c, [tx[r] EXCEPT !.todo = @ \ {c}])

(* MUTANT of LockHead: a plain SELECT.                                      *)
LockHeadWithoutLock(r) ==
  /\ tx[r].at = "locking"
  /\ \E c \in Lowest(r) :
       IF row[c] = "open"
       THEN Update(r, Chosen(r, c))
       ELSE Update(r, [tx[r] EXCEPT !.todo = @ \ {c}])
  /\ UNCHANGED data

(* MUTANT of LockHead: the WHERE clause without "not answered".             *)
LockHeadUnchecked(r) ==
  /\ tx[r].at = "locking"
  /\ \E c \in Lowest(r) : /\ Free(c, r)
                          /\ IF row[c] # "gone" THEN Lock(r, c, Chosen(r, c)) ELSE PassOver(r, c)
  /\ UNCHANGED data

LockHead(r) ==
  /\ tx[r].at = "locking"
  /\ \E c \in Lowest(r) : /\ Free(c, r)
                          /\ IF row[c] = "open" THEN Lock(r, c, Chosen(r, c)) ELSE PassOver(r, c)
  /\ UNCHANGED data

(* MUTANT of NoCards: the 409 leaves its transaction open.                  *)
NoCardsWithoutRollback(r) ==
  /\ tx[r].at = "locking" /\ tx[r].todo = {}
  /\ Update(r, [Rest EXCEPT !.held = tx[r].held])
  /\ UNCHANGED data

(* NoCardsAvailableError: 409, rolled back.                                 *)
NoCards(r) ==
  /\ tx[r].at = "locking" /\ tx[r].todo = {}
  /\ Finish(r)
  /\ UNCHANGED data

-----------------------------------------------------------------------------
(* MUTANT of RankTop: the highest position among the other cards.           *)
RankTopOfOthers(r) ==
  LET others == InSession \ {tx[r].card}
  IN /\ tx[r].at = "ranking"
     /\ Update(r, IF others = {} THEN [tx[r] EXCEPT !.at = "moving"]
                  ELSE [tx[r] EXCEPT !.at = "topping", !.todo = others, !.snap = position])
     /\ UNCHANGED data

(* The second half of skip_card: lock the row with the highest position of  *)
(* a new snapshot, then move the card behind the position it has NOW.       *)
RankTop(r) ==
  /\ tx[r].at = "ranking"
  /\ Update(r, [tx[r] EXCEPT !.at = "topping", !.todo = InSession, !.snap = position])
  /\ UNCHANGED data

LockTop(r) ==
  /\ tx[r].at = "topping"
  /\ \E c \in Highest(r) :
       /\ Free(c, r)
       /\ IF row[c] = "gone"
          THEN PassOver(r, c)
          ELSE Lock(r, c, [tx[r] EXCEPT !.at = "moving", !.newPos = position[c] + 1,
                                        !.todo = {}, !.snap = Rest.snap])
  /\ UNCHANGED data

CommitSkip(r) ==
  /\ tx[r].at = "moving"
  /\ position' = [position EXCEPT ![tx[r].card] = tx[r].newPos]
  /\ Finish(r)
  /\ UNCHANGED <<session, expired, row, stored, reviews, answers, drills>>

-----------------------------------------------------------------------------
(* POST /cards/{id}/answer: no session involved.                            *)
Drill(r, c) ==
  /\ row[c] # "gone" /\ \A d \in Cards : drills[d] < MaxDrills
  /\ Begin(r, "drill", "scoring", c)
  /\ UNCHANGED data

(* GET /cards/{id}/memory: as the direct answer, without the answer.        *)
Peek(r, c) ==
  /\ row[c] # "gone"
  /\ Begin(r, "peek", "scoring", c)
  /\ UNCHANGED data

(* MUTANT of ReadMemory: get_or_create_memory_state without FOR UPDATE.     *)
ReadMemoryWithoutLock(r) ==
  LET c == tx[r].card IN
  /\ tx[r].at = "scoring"
  /\ IF row[c] = "gone"
     THEN Finish(r)
     ELSE Update(r, [tx[r] EXCEPT !.at = "writing", !.seen = reviews[c],
                           !.mem = MemoryRow(c)])
  /\ UNCHANGED data

(* get_or_create_memory_state: None if the card does not exist (404), else  *)
(* the row under lock, else a new row that is not in the database yet.      *)
ReadMemory(r) ==
  LET c == tx[r].card IN
  /\ tx[r].at = "scoring"
  /\ MemoryReadable(c, r)
  /\ IF row[c] = "gone"
     THEN Finish(r)
     ELSE Update(r, [tx[r] EXCEPT !.at = "writing", !.seen = reviews[c],
                           !.mem = MemoryRow(c)])
  /\ UNCHANGED data

(* MUTANT of IsLast: only the cards behind this one are looked at.          *)
IsLastByPosition(r) == \A c \in Open : position[c] <= position[tx[r].card]

(* answer_card, after its flush: no other unanswered card.                  *)
IsLast(r) == Open \subseteq {tx[r].card}

(* The flush.  A new memory row waits for an uncommitted one with the same  *)
(* key, and for a deletion of the card.                                     *)
Insertable(r) == MemoryFree(tx[r].card, r) /\ CardFree(tx[r].card, r)

Flush(r) ==
  LET c == tx[r].card IN
  /\ tx[r].at = "writing"
  /\ tx[r].mem = NoCard => Insertable(r) /\ c \notin stored /\ row[c] # "gone"
  /\ Update(r, [tx[r] EXCEPT !.at = "committing", !.mem = c,
                      !.last = tx[r].op = "answer" /\ IsLast(r)])
  /\ UNCHANGED data

(* The row was inserted meanwhile, or the card deleted: IntegrityError, and *)
(* the whole request is rolled back, the answer to the card included.       *)
InsertFails(r) ==
  LET c == tx[r].card IN
  /\ tx[r].at = "writing"
  /\ tx[r].mem = NoCard /\ Insertable(r)
  /\ c \in stored \/ row[c] = "gone"
  /\ Finish(r)
  /\ UNCHANGED data

(* MUTANT of CommitAnswer: the session's status is written back as read.    *)
CommitAnswerWritesStatus(r) ==
  LET c == tx[r].card IN
  /\ At(r, "answer", "committing")
  /\ row' = [row EXCEPT ![c] = "answered"]
  /\ stored' = stored \cup {c}
  /\ reviews' = [reviews EXCEPT ![c] = tx[r].seen + 1]
  /\ answers' = [answers EXCEPT ![c] = @ + 1]
  /\ session' = IF tx[r].last THEN "ended" ELSE "active"
  /\ Finish(r)
  /\ UNCHANGED <<expired, position, drills>>

CommitAnswer(r) ==
  LET c == tx[r].card IN
  /\ At(r, "answer", "committing")
  /\ row' = [row EXCEPT ![c] = "answered"]
  /\ stored' = stored \cup {c}
  /\ reviews' = [reviews EXCEPT ![c] = tx[r].seen + 1]
  /\ answers' = [answers EXCEPT ![c] = @ + 1]
  /\ session' = IF tx[r].last THEN "ended" ELSE session
  /\ Finish(r)
  /\ UNCHANGED <<expired, position, drills>>

CommitDrill(r) ==
  LET c == tx[r].card IN
  /\ At(r, "drill", "committing")
  /\ stored' = stored \cup {c}
  /\ reviews' = [reviews EXCEPT ![c] = tx[r].seen + 1]
  /\ drills' = [drills EXCEPT ![c] = @ + 1]
  /\ Finish(r)
  /\ UNCHANGED <<session, expired, row, position, answers>>

(* A row with no answer yet, unless there was one.                          *)
CommitPeek(r) ==
  /\ At(r, "peek", "committing")
  /\ stored' = stored \cup {tx[r].card}
  /\ Finish(r)
  /\ UNCHANGED <<session, expired, row, position, reviews, answers, drills>>

-----------------------------------------------------------------------------
(* end_session: a session that is read as ended is left alone; expiry is    *)
(* not looked at.                                                           *)
OpenEnd(r) ==
  /\ session = "active"
  /\ Begin(r, "end", "closing", NoCard)
  /\ UNCHANGED data

CommitEnd(r) ==
  /\ tx[r].at = "closing"
  /\ session' = "ended"
  /\ Finish(r)
  /\ UNCHANGED <<expired, row, position, stored, reviews, answers, drills>>

-----------------------------------------------------------------------------
(* delete_card: the ORM deletes the memory rows it has loaded, then the     *)
(* flashcards row, whose ON DELETE CASCADE removes the session_cards row    *)
(* and a memory row that appeared meanwhile.                                *)
DeleteCard(r, c) ==
  /\ row[c] # "gone"
  /\ Begin(r, "delete", "purging", c)
  /\ UNCHANGED data

PurgeMemory(r) ==
  LET c == tx[r].card IN
  /\ tx[r].at = "purging"
  /\ MemoryReadable(c, r)
  /\ Update(r, [tx[r] EXCEPT !.at = "unlinking", !.mem = MemoryRow(c)])
  /\ UNCHANGED data

Unlink(r) ==
  LET c == tx[r].card IN
  /\ tx[r].at = "unlinking"
  /\ MemoryFree(c, r) /\ CardFree(c, r)
  /\ Update(r, [tx[r] EXCEPT !.at = "cascading"])
  /\ UNCHANGED data

CommitDelete(r) ==
  LET c == tx[r].card IN
  /\ tx[r].at = "cascading"
  /\ Free(c, r) /\ MemoryFree(c, r)
  /\ row' = [row EXCEPT ![c] = "gone"]
  /\ stored' = stored \ {c} /\ reviews' = [reviews EXCEPT ![c] = 0]
  /\ Finish(r)
  /\ UNCHANGED <<session, expired, position, answers, drills>>

-----------------------------------------------------------------------------
(* s holds what r waits for.                                                *)
Blocks(s, r) ==
  /\ s # r
  /\ \/ tx[r].at = "locking" /\ Lowest(r) \cap tx[s].held # {}
     \/ tx[r].at = "topping" /\ Highest(r) \cap tx[s].held # {}
     \/ /\ tx[r].at \in {"scoring", "purging"}
        /\ tx[r].card \in stored /\ tx[s].mem = tx[r].card
     \/ /\ tx[r].at = "unlinking" \/ (tx[r].at = "writing" /\ tx[r].mem = NoCard)
        /\ tx[s].mem = tx[r].card \/ Deleting(s, tx[r].card)
     \/ /\ tx[r].at = "cascading"
        /\ tx[r].card \in tx[s].held \/ tx[s].mem = tx[r].card

Stuck(S) == S # {} /\ \A r \in S : \E s \in S : Blocks(s, r)
Cycle(S) == Stuck(S) /\ \A T \in SUBSET S : Stuck(T) => T = S

(* PostgreSQL aborts one transaction of a cycle; the request answers 500.   *)
DeadlockVictim(r) ==
  /\ \E S \in SUBSET Clients : r \in S /\ Cycle(S)
  /\ Finish(r)
  /\ UNCHANGED data

-----------------------------------------------------------------------------
Arrive(r) ==
  \/ \E op \in {"answer", "skip"} : OpenSession(r, op)
  \/ OpenEnd(r) \/ Refuse(r)
  \/ \E c \in Cards : Drill(r, c) \/ Peek(r, c) \/ DeleteCard(r, c)

Proceed(r) ==
  \/ Pick(r) \/ LockHead(r) \/ NoCards(r)
  \/ RankTop(r) \/ LockTop(r) \/ CommitSkip(r)
  \/ ReadMemory(r) \/ Flush(r) \/ InsertFails(r) \/ CommitAnswer(r) \/ CommitDrill(r)
  \/ CommitPeek(r) \/ CommitEnd(r)
  \/ PurgeMemory(r) \/ Unlink(r) \/ CommitDelete(r)
  \/ DeadlockVictim(r)

Next == StartSession \/ Expire \/ \E r \in Clients : Arrive(r) \/ Proceed(r)

Spec == Init /\ [][Next]_vars

(* A request in progress goes on, PostgreSQL grants a lock to the waiter in *)
(* turn and resolves every deadlock.  No request has to arrive.             *)
FairSpec == Spec /\ \A r \in Clients : SF_vars(Proceed(r))

-----------------------------------------------------------------------------
Steps == {"idle", "picking", "locking", "scoring", "writing", "committing", "ranking",
          "topping", "moving", "closing", "purging", "unlinking", "cascading"}
Requests == [op : AllOps \cup {"none"}, at : Steps,
             card : Cards \cup {NoCard}, todo : SUBSET Cards, snap : [Cards -> Nat],
             held : SUBSET Cards, mem : Cards \cup {NoCard}, seen : Nat, newPos : Nat,
             last : BOOLEAN]

(* An idle connection holds nothing; a request that has got past its        *)
(* lookups has a card.                                                      *)
Sound(q) == /\ q.at = "idle" => q = Rest
            /\ q.at \notin {"idle", "picking", "locking", "closing"} => q.card \in Cards

(* Part of TypeOK.                                                          *)
RequestsOK ==
  /\ tx \in [Clients -> Requests]
  /\ \A r, s \in Clients : r # s => tx[r].held \cap tx[s].held = {}
  /\ \A r \in Clients : Sound(tx[r])

(* Every variable stays within its type; a row of session_cards is locked   *)
(* by at most one request, and an idle connection locks nothing.            *)
TypeOK ==
  /\ session \in {"none", "active", "ended"} /\ expired \in BOOLEAN
  /\ row \in [Cards -> RowStates]
  /\ position \in [Cards -> Nat] /\ stored \subseteq Cards /\ reviews \in [Cards -> Nat]
  /\ answers \in [Cards -> Nat] /\ drills \in [Cards -> Nat]
  /\ RequestsOK

(* Requests that answer at the same time, or while others skip and delete,  *)
(* never score one card of the session twice.                               *)
AnsweredOnce == \A c \in Cards : answers[c] <= 1

(* The spaced-repetition state of a card has seen every answer that was     *)
(* given to it, in this session or outside: no update is lost or doubled.   *)
ReviewsCounted ==
  \A c \in Cards : row[c] # "gone" => reviews[c] = answers[c] + drills[c]

(* An answered card keeps its place: a skip that was waiting while the card *)
(* was answered does not move it.                                           *)
AnsweredStaysPut ==
  [][\A c \in Cards : row[c] = "answered" => position'[c] = position[c]]_vars

(* A skip moves its card back, never forward and never to where it is, also *)
(* when another skip has moved that card while this one was waiting for it  *)
(* (session.py:281-289).                                                    *)
SkipMovesBack ==
  \A r \in Clients : tx[r].at = "moving" => tx[r].newPos > position[tx[r].card]

(* An ended session is not reopened by an answer that had read it active.   *)
EndedStaysEnded == [][session = "ended" => session' = "ended"]_vars

(* answer_card ends the session only when no card is left to answer; with   *)
(* cards left, only end_session does.                                       *)
EndsOnlyWhenDone ==
  [][session = "active" /\ session' = "ended" /\ ~(\E r \in Clients : CommitEnd(r))
       => \A c \in Cards : row'[c] # "open"]_vars

(* A request that has begun is answered: requests that wait for each other  *)
(* are told apart, and no lock outlives its request.                        *)
RequestReturns == \A r \in Clients : tx[r].at # "idle" ~> tx[r].at = "idle"

(* "Acquire a row lock on the highest-position SessionCard for this session *)
(* to avoid races when multiple callers try to compute the new max": no two *)
(* cards get the same position.                                             *)
PositionsDiffer ==
  \A c, d \in InSession : c # d => position[c] # position[d]

(* A session whose cards have all been answered is over (the lifecycle test *)
(* answers every card and expects the status "ended").                      *)
CompleteIsEnded ==
  session = "active" /\ InSession # {} /\ Open = {}
    => \E r \in Clients : tx[r].at # "idle"
=============================================================================
