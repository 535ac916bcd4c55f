------------------------- MODULE StudySessionProofs -------------------------
(* Safety of StudySession for any set of cards and any number of clients.   *)
EXTENDS StudySession, FiniteSetTheorems, TLAPS

-----------------------------------------------------------------------------
(* A step replaces the request of one client; the new request is well       *)
(* typed, locks no row that another one has locked, and is Rest if idle.    *)
LEMMA Updated ==
  ASSUME RequestsOK, NEW r \in Clients, NEW q, Update(r, q)
  PROVE  tx'[r] = q /\ \A s \in Clients \ {r} : tx'[s] = tx[s]
  BY DEF RequestsOK, Update

(* A step of one request that locks only rows nobody else has locked.       *)
LEMMA UpdateTyped ==
  ASSUME RequestsOK, NEW r \in Clients, NEW q \in Requests, Update(r, q),
         Sound(q),
         \A s \in Clients \ {r} : q.held \cap tx[s].held = {}
  PROVE  RequestsOK'
  <1>1. tx' \in [Clients -> Requests]
    BY DEF RequestsOK, Update
  <1> QED BY <1>1, Updated DEF RequestsOK

(* The idle request is well typed and holds nothing.                        *)
LEMMA RestTyped == Rest \in Requests /\ Rest.held = {} /\ Rest.at = "idle" /\ Sound(Rest)
  BY DEF Rest, Requests, Steps, Sound

(* The end of a request, committed or rolled back.                          *)
LEMMA FinishTyped ==
  ASSUME RequestsOK, NEW r \in Clients, Finish(r)
  PROVE  RequestsOK'
  BY UpdateTyped, RestTyped DEF Finish

(* A request goes on without a new row lock.                                *)
LEMMA StepTyped ==
  ASSUME RequestsOK, NEW r \in Clients, NEW q \in Requests, Update(r, q),
         Sound(q), q.held = tx[r].held
  PROVE  RequestsOK'
  BY UpdateTyped DEF RequestsOK

(* A request locks a free row.                                              *)
LEMMA LockTyped ==
  ASSUME RequestsOK, NEW r \in Clients, NEW c \in Cards, Free(c, r),
         NEW q \in Requests, q.at # "idle", Sound(q), Lock(r, c, q)
  PROVE  RequestsOK'
  <1> DEFINE p == [q EXCEPT !.held = tx[r].held \cup {c}]
  <1>1. p \in Requests /\ p.held = tx[r].held \cup {c} /\ Sound(p)
    BY DEF RequestsOK, Requests, Sound
  <1>2. \A s \in Clients \ {r} : p.held \cap tx[s].held = {}
    BY <1>1 DEF Free, RequestsOK
  <1>3. Update(r, p)
    BY DEF Lock
  <1> HIDE DEF p
  <1> QED BY <1>1, <1>2, <1>3, UpdateTyped

(* A request that has been given its card is well typed.                    *)
LEMMA ChosenTyped ==
  ASSUME RequestsOK, NEW r \in Clients, NEW c \in Cards
  PROVE  Chosen(r, c) \in Requests /\ Chosen(r, c).at # "idle" /\ Sound(Chosen(r, c))
  <1>1. tx[r] \in Requests /\ Rest.snap \in [Cards -> Nat]
    BY DEF RequestsOK, Rest
  <1> QED BY <1>1 DEF Chosen, Requests, Steps, Sound

(* So is one that passes a row over.                                        *)
LEMMA PassedTyped ==
  ASSUME NEW q \in Requests, NEW c
  PROVE  LET p == [q EXCEPT !.todo = @ \ {c}]
         IN  /\ p \in Requests
             /\ p.at = q.at /\ p.card = q.card /\ p.mem = q.mem
             /\ p.held = q.held
  <1> DEFINE p == [q EXCEPT !.todo = @ \ {c}]
  <1>1. q.todo \ {c} \in SUBSET Cards
    BY DEF Requests
  <1>2. p \in Requests
    BY <1>1 DEF Requests
  <1>3. p.at = q.at /\ p.card = q.card /\ p.mem = q.mem /\ p.held = q.held
    BY DEF Requests
  <1> QED BY <1>2, <1>3

(* One that takes a snapshot of the positions.                              *)
LEMMA ReadingTyped ==
  ASSUME NEW q \in Requests, NEW at \in Steps, NEW todo \in SUBSET Cards,
         NEW snap \in [Cards -> Nat]
  PROVE  [q EXCEPT !.at = at, !.todo = todo, !.snap = snap] \in Requests
  BY DEF Requests

(* One that knows where its card goes.                                      *)
LEMMA MovingTyped ==
  ASSUME NEW q \in Requests, NEW at \in Steps, NEW n \in Nat,
         NEW todo \in SUBSET Cards, NEW snap \in [Cards -> Nat]
  PROVE  [q EXCEPT !.at = at, !.newPos = n, !.todo = todo, !.snap = snap] \in Requests
  BY DEF Requests

(* One that has read the memory row of its card.                            *)
LEMMA WritingTyped ==
  ASSUME NEW q \in Requests, NEW at \in Steps, NEW n \in Nat,
         NEW m \in Cards \cup {NoCard}
  PROVE  [q EXCEPT !.at = at, !.seen = n, !.mem = m] \in Requests
  BY DEF Requests

(* TypeOK is preserved by every step.                                       *)
LEMMA TypeStep == TypeOK /\ [Next]_vars => TypeOK'
  <1> SUFFICES ASSUME TypeOK, [Next]_vars PROVE TypeOK'
    OBVIOUS
  <1>0. RequestsOK /\ \A r \in Clients : tx[r] \in Requests /\ Sound(tx[r])
    BY DEF TypeOK, RequestsOK
  <1> USE <1>0
  <1>1. CASE StartSession \/ Expire
    <2>1. UNCHANGED tx
      BY <1>1 DEF StartSession, Expire
    <2>2. RequestsOK'
      BY <2>1 DEF RequestsOK
    <2>3. CASE Expire
      BY <2>2, <2>3 DEF Expire, TypeOK
    <2>4. CASE StartSession
      <3>1. PICK S \in SUBSET {c \in Cards : row[c] = "out"} :
              /\ row' = [c \in Cards |-> IF c \in S THEN "open" ELSE row[c]]
              /\ \E order \in Injection(S, 1..Cardinality(S)) :
                   position' = [c \in Cards |-> IF c \in S THEN order[c] - 1 ELSE 0]
        BY <2>4 DEF StartSession
      <3>2. PICK order \in Injection(S, 1..Cardinality(S)) :
              position' = [c \in Cards |-> IF c \in S THEN order[c] - 1 ELSE 0]
        BY <3>1
      <3>3. Cardinality(S) \in Nat
        BY <3>1, CardsAssumption, FS_CardinalityType, FS_Subset
      <3>4. position' \in [Cards -> Nat]
        BY <3>2, <3>3 DEF Injection
      <3>5. row' \in [Cards -> RowStates]
        BY <3>1 DEF TypeOK, RowStates
      <3> QED BY <2>2, <2>4, <3>4, <3>5 DEF StartSession, TypeOK
    <2> QED BY <1>1, <2>3, <2>4
  <1>2. ASSUME NEW r \in Clients, Arrive(r) PROVE TypeOK'
    <2>1. CASE Refuse(r)
      BY <2>1 DEF Refuse, vars, TypeOK, RequestsOK
    <2>2. CASE ~Refuse(r)
      <3>1. PICK op \in AllOps, at \in Steps \ {"idle"}, c \in Cards \cup {NoCard} :
              Begin(r, op, at, c) /\ (at \in {"picking", "closing"} \/ c \in Cards)
        BY <1>2, <2>2, OpsAssumption
        DEF Arrive, OpenSession, OpenEnd, Drill, Peek, DeleteCard, AllOps, Steps
      <3> DEFINE q == [tx[r] EXCEPT !.op = op, !.at = at, !.card = c]
      <3>2. q \in Requests
        BY <3>1 DEF Requests
      <3>3. q.at = at /\ q.card = c /\ q.held = tx[r].held
        BY DEF Requests
      <3>4. Sound(q)
        BY <3>1, <3>3 DEF Sound
      <3> HIDE DEF q
      <3>5. RequestsOK'
        BY <3>1, <3>2, <3>3, <3>4, StepTyped DEF Begin, q
      <3> QED BY <1>2, <2>2, <3>5
              DEF Arrive, OpenSession, OpenEnd, Drill, Peek, DeleteCard, data, TypeOK
    <2> QED BY <2>1, <2>2
  <1>3. ASSUME NEW r \in Clients, Proceed(r) PROVE TypeOK'
    <2>1. CASE Pick(r)
      <3> DEFINE q == [tx[r] EXCEPT !.at = "locking", !.todo = Open, !.snap = position]
      <3>1. Open \in SUBSET Cards /\ position \in [Cards -> Nat] /\ "locking" \in Steps
        BY DEF Open, TypeOK, Steps
      <3>2. Update(r, q) /\ UNCHANGED data
        BY <2>1 DEF Pick
      <3>3. q \in Requests
        BY <3>1, ReadingTyped
      <3>4. q.at = "locking" /\ q.held = tx[r].held
        BY DEF Requests
      <3> HIDE DEF q
      <3>5. RequestsOK'
        BY <3>2, <3>3, <3>4, StepTyped DEF Sound
      <3> QED BY <3>2, <3>5 DEF data, TypeOK
    <2>2. CASE LockHead(r)
      <3>1. PICK c \in Lowest(r) :
              Free(c, r) /\ (Lock(r, c, Chosen(r, c)) \/ PassOver(r, c))
        BY <2>2 DEF LockHead
      <3> DEFINE q == [tx[r] EXCEPT !.todo = @ \ {c}]
      <3>2. c \in Cards
        BY DEF Lowest, Requests
      <3>3. q \in Requests /\ q.at # "idle" /\ Sound(q)
        BY <2>2 DEF Requests, LockHead, Sound
      <3>4. Lock(r, c, Chosen(r, c)) \/ Lock(r, c, q)
        BY <3>1 DEF PassOver
      <3> HIDE DEF q
      <3>5. RequestsOK'
        BY <3>1, <3>2, <3>3, <3>4, ChosenTyped, LockTyped
      <3> QED BY <2>2, <3>5 DEF LockHead, data, TypeOK
    <2>3. CASE RankTop(r)
      <3> DEFINE q == [tx[r] EXCEPT !.at = "topping", !.todo = InSession, !.snap = position]
      <3>1. q \in Requests /\ Sound(q) /\ q.held = tx[r].held
        BY <2>3, ZenonT(40) DEF Requests, Steps, InSession, TypeOK, Sound, RankTop
      <3>2. Update(r, q) /\ UNCHANGED data
        BY <2>3 DEF RankTop
      <3> HIDE DEF q
      <3>3. RequestsOK'
        BY <3>1, <3>2, StepTyped
      <3> QED BY <3>2, <3>3 DEF data, TypeOK
    <2>4. CASE LockTop(r)
      <3> DEFINE moving(c) == [tx[r] EXCEPT !.at = "moving", !.newPos = position[c] + 1,
                                            !.todo = {}, !.snap = Rest.snap]
                 q(c) == [tx[r] EXCEPT !.todo = @ \ {c}]
      <3>1. PICK c \in Highest(r) : Free(c, r) /\ (Lock(r, c, moving(c)) \/ Lock(r, c, q(c)))
        BY <2>4 DEF LockTop, PassOver
      <3>2. c \in Cards
        BY DEF Highest, Requests
      <3>3. q(c) \in Requests /\ q(c).at # "idle" /\ Sound(q(c))
        BY <2>4 DEF Requests, LockTop, Sound
      <3>4. position[c] + 1 \in Nat /\ Rest.snap \in [Cards -> Nat]
        BY <3>2 DEF TypeOK, Rest
      <3>5. moving(c) \in Requests /\ moving(c).at # "idle" /\ Sound(moving(c))
        <4> DEFINE n == position[c] + 1
                   f == Rest.snap
        <4> HIDE DEF n, f
        <4>1. n \in Nat /\ f \in [Cards -> Nat] /\ tx[r] \in Requests
          BY <3>4 DEF n, f
        <4>2. moving(c) = [tx[r] EXCEPT !.at = "moving", !.newPos = n, !.todo = {}, !.snap = f]
          BY DEF n, f
        <4> HIDE DEF moving
        <4>3. moving(c) \in Requests
          <5>1. "moving" \in Steps /\ {} \in SUBSET Cards
            BY DEF Steps
          <5>2. [tx[r] EXCEPT !.at = "moving", !.newPos = n, !.todo = {}, !.snap = f]
                  \in Requests
            BY ONLY <4>1, <5>1, MovingTyped
          <5> QED BY <4>2, <5>2
        <4>4. moving(c).at = "moving" /\ moving(c).card = tx[r].card
          BY <4>1, <4>2 DEF Requests
        <4> QED BY <2>4, <4>3, <4>4 DEF LockTop, Sound
      <3> HIDE DEF moving, q
      <3>6. RequestsOK'
        BY <3>1, <3>2, <3>3, <3>5, LockTyped
      <3> QED BY <2>4, <3>6 DEF LockTop, data, TypeOK
    <2>5. CASE CommitSkip(r)
      <3>1. RequestsOK'
        BY <2>5, FinishTyped DEF CommitSkip
      <3>2. tx[r].newPos \in Nat
        BY DEF Requests
      <3> QED BY <2>5, <3>1, <3>2 DEF CommitSkip, TypeOK
    <2>6. CASE ReadMemory(r)
      <3> DEFINE c == tx[r].card
                 q == [tx[r] EXCEPT !.at = "writing", !.seen = reviews[c],
                                    !.mem = MemoryRow(c)]
      <3>1. CASE Finish(r)
        BY <2>6, <3>1, FinishTyped DEF ReadMemory, data, TypeOK
      <3>2. CASE Update(r, q)
        <4>1. c \in Cards /\ reviews[c] \in Nat
          BY <2>6 DEF ReadMemory, Sound, TypeOK
        <4>2. q \in Requests
          <5>1. PICK m \in Cards \cup {NoCard} : m = MemoryRow(c)
            BY <4>1 DEF MemoryRow
          <5>2. q = [tx[r] EXCEPT !.at = "writing", !.seen = reviews[c], !.mem = m]
            BY <5>1
          <5> HIDE DEF q
          <5> QED BY <4>1, <5>2, WritingTyped DEF Steps
        <4>3. q.at = "writing" /\ q.card = c /\ q.held = tx[r].held
          BY DEF Requests
        <4> HIDE DEF q
        <4>4. Sound(q)
          BY <4>1, <4>3 DEF Sound
        <4>5. RequestsOK'
          BY <3>2, <4>2, <4>3, <4>4, StepTyped
        <4> QED BY <2>6, <4>5 DEF ReadMemory, data, TypeOK
      <3> QED BY <2>6, <3>1, <3>2 DEF ReadMemory
    <2>7. CASE Flush(r)
      <3> DEFINE last == tx[r].op = "answer" /\ IsLast(r)
                 q == [tx[r] EXCEPT !.at = "committing", !.mem = tx[r].card, !.last = last]
      <3>1. last \in BOOLEAN
        OBVIOUS
      <3>2. Update(r, q) /\ UNCHANGED data /\ tx[r].card \in Cards
        BY <2>7 DEF Flush, Sound
      <3> HIDE DEF last
      <3>3. q \in Requests
        BY <3>1, <3>2, ZenonT(40) DEF Requests, Steps
      <3>4. q.at = "committing" /\ q.card = tx[r].card /\ q.held = tx[r].held
        BY DEF Requests
      <3> HIDE DEF q
      <3>5. Sound(q)
        BY <3>2, <3>4 DEF Sound
      <3>6. RequestsOK'
        BY <3>2, <3>3, <3>4, <3>5, StepTyped
      <3> QED BY <3>2, <3>6 DEF data, TypeOK
    <2>8. CASE CommitAnswer(r) \/ CommitDrill(r)
      <3>0. stored' \subseteq Cards
        BY <2>8 DEF CommitAnswer, CommitDrill, At, TypeOK, Sound
      <3>1. RequestsOK'
        BY <2>8, FinishTyped DEF CommitAnswer, CommitDrill
      <3>2. tx[r].seen + 1 \in Nat
        BY DEF Requests
      <3>3. reviews' \in [Cards -> Nat]
        BY <2>8, <3>2 DEF CommitAnswer, CommitDrill, TypeOK
      <3>4. /\ answers' \in [Cards -> Nat] /\ drills' \in [Cards -> Nat]
            /\ row' \in [Cards -> RowStates]
        BY <2>8 DEF CommitAnswer, CommitDrill, TypeOK, RowStates
      <3> QED BY <2>8, <3>0, <3>1, <3>3, <3>4 DEF CommitAnswer, CommitDrill, TypeOK
    <2>9. CASE CommitPeek(r)
      BY <2>9, FinishTyped DEF CommitPeek, At, TypeOK, Sound
    <2>10. CASE CommitEnd(r)
      BY <2>10, FinishTyped DEF CommitEnd, TypeOK
    <2>11. CASE PurgeMemory(r)
      <3> DEFINE q == [tx[r] EXCEPT !.at = "unlinking",
                         !.mem = MemoryRow(tx[r].card)]
      <3>1. q \in Requests /\ Sound(q) /\ q.held = tx[r].held
        BY <2>11, ZenonT(40) DEF Requests, Steps, Sound, PurgeMemory, MemoryRow
      <3>2. Update(r, q) /\ UNCHANGED data
        BY <2>11 DEF PurgeMemory
      <3> HIDE DEF q
      <3>3. RequestsOK'
        BY <3>1, <3>2, StepTyped
      <3> QED BY <3>2, <3>3 DEF data, TypeOK
    <2>12. CASE Unlink(r)
      <3> DEFINE q == [tx[r] EXCEPT !.at = "cascading"]
      <3>1. q \in Requests /\ Sound(q) /\ q.held = tx[r].held
        BY <2>12 DEF Requests, Steps, Sound, Unlink
      <3>2. Update(r, q) /\ UNCHANGED data
        BY <2>12 DEF Unlink
      <3> HIDE DEF q
      <3>3. RequestsOK'
        BY <3>1, <3>2, StepTyped
      <3> QED BY <3>2, <3>3 DEF data, TypeOK
    <2>13. CASE CommitDelete(r)
      BY <2>13, FinishTyped DEF CommitDelete, TypeOK, Requests, RowStates
    <2>14. CASE NoCards(r) \/ InsertFails(r) \/ DeadlockVictim(r)
      BY <2>14, FinishTyped DEF NoCards, InsertFails, DeadlockVictim, data, TypeOK
    <2> QED BY <1>3, <2>1, <2>2, <2>3, <2>4, <2>5, <2>6, <2>7, <2>8, <2>9, <2>10,
               <2>11, <2>12, <2>13, <2>14 DEF Proceed
  <1>4. CASE UNCHANGED vars
    BY <1>4 DEF vars, TypeOK, RequestsOK
  <1> QED BY <1>1, <1>2, <1>3, <1>4 DEF Next

(* The initial state is well typed.                                         *)
LEMMA InitTyped == Init => TypeOK
  <1> SUFFICES ASSUME Init PROVE TypeOK
    OBVIOUS
  <1>1. \A r \in Clients : tx[r] = Rest
    BY DEF Init
  <1>2. tx \in [Clients -> Requests]
    BY RestTyped DEF Init
  <1>3. RequestsOK
    BY <1>1, <1>2, RestTyped DEF RequestsOK
  <1> QED BY <1>3 DEF Init, TypeOK, RowStates

(* The types of all variables, and the agreement of the requests with the   *)
(* locks they hold.                                                         *)
THEOREM TypeCorrect == Spec => []TypeOK
  BY InitTyped, TypeStep, PTL DEF Spec

-----------------------------------------------------------------------------
(* The request has taken its card and may change its row.                   *)
Takes(q) == \/ q.at \in {"ranking", "topping", "moving"}
            \/ q.op = "answer" /\ q.at \in {"scoring", "writing", "committing"}

(* A taken card is locked and still open.                                   *)
Taken(q) == Takes(q) => q.card \in q.held /\ row[q.card] = "open"
CardTaken == \A r \in Clients : Taken(tx[r])

OpenUnanswered ==
  \A c \in Cards : /\ answers[c] <= 1
                   /\ row[c] \in {"out", "open"} => answers[c] = 0

(* The memory row of a card is with one request, which knows what is in it. *)
MemoryExclusive ==
  \A r, s \in Clients : r # s /\ tx[r].mem # NoCard => tx[s].mem # tx[r].mem

Knows(q) == q.at = "committing" \/ (q.at = "writing" /\ q.mem # NoCard)
Known(q) ==
  /\ Knows(q) => /\ q.mem = q.card /\ q.seen = reviews[q.card]
                 /\ row[q.card] # "gone"
  /\ q.at = "writing" /\ q.mem = NoCard => q.seen = 0
MemoryKnown == \A r \in Clients : Known(tx[r])

(* No answers are recorded for a card without a memory row.                 *)
NoRowNoReviews == \A c \in Cards : c \notin stored => reviews[c] = 0

IInv == /\ TypeOK /\ CardTaken /\ OpenUnanswered /\ MemoryExclusive /\ MemoryKnown
        /\ NoRowNoReviews /\ ReviewsCounted

-----------------------------------------------------------------------------
(* The idle request has no memory row, no card and no reading.              *)
LEMMA RestHolds == Rest.mem = NoCard /\ Rest.at = "idle" /\ ~Takes(Rest) /\ ~Knows(Rest)
  BY DEF Rest, Takes, Knows

(* A request takes a memory row only if no other request has it.            *)
LEMMA ExclusiveStep ==
  ASSUME IInv, NEW r \in Clients, NEW q, Update(r, q),
         q.mem \in {NoCard, tx[r].mem} \/ MemoryFree(q.mem, r)
  PROVE  MemoryExclusive'
  BY Updated DEF IInv, TypeOK, MemoryExclusive, MemoryFree

(* A step that commits nothing.                                             *)
LEMMA QuietStep ==
  ASSUME IInv, TypeOK', NEW r \in Clients, NEW q, Update(r, q), UNCHANGED data,
         Taken(q), Known(q),
         q.mem \in {NoCard, tx[r].mem} \/ MemoryFree(q.mem, r)
  PROVE  IInv'
  <1>1. tx'[r] = q /\ \A s \in Clients \ {r} : tx'[s] = tx[s]
    BY Updated DEF IInv, TypeOK
  <1>2. CardTaken' /\ MemoryKnown'
    BY <1>1 DEF IInv, CardTaken, Taken, Takes, MemoryKnown, Known, Knows, data
  <1>3. OpenUnanswered' /\ ReviewsCounted' /\ NoRowNoReviews'
    BY DEF IInv, OpenUnanswered, ReviewsCounted, NoRowNoReviews, data
  <1> QED BY <1>2, <1>3, ExclusiveStep DEF IInv

(* The end of a request that commits nothing.                               *)
LEMMA QuietFinish ==
  ASSUME IInv, TypeOK', NEW r \in Clients, Finish(r), UNCHANGED data
  PROVE  IInv'
  BY RestHolds, QuietStep DEF Finish, Taken, Known

(* A commit: the request ends, and what it wrote leaves the other requests' *)
(* knowledge intact.                                                        *)
LEMMA CommitStep ==
  ASSUME IInv, TypeOK', NEW r \in Clients, Finish(r), OpenUnanswered', ReviewsCounted',
         NoRowNoReviews',
         \A s \in Clients \ {r} :
           /\ Takes(tx[s]) => row'[tx[s].card] = "open"
           /\ Knows(tx[s]) => /\ reviews'[tx[s].card] = reviews[tx[s].card]
                              /\ row'[tx[s].card] # "gone"
  PROVE  IInv'
  <1>1. tx'[r] = Rest /\ \A s \in Clients \ {r} : tx'[s] = tx[s]
    BY Updated DEF IInv, TypeOK, Finish
  <1>2. CardTaken'
    BY <1>1, RestHolds DEF IInv, CardTaken, Taken, Takes
  <1>3. MemoryKnown'
    BY <1>1, RestHolds DEF IInv, MemoryKnown, Known, Knows
  <1>4. MemoryExclusive'
    BY RestHolds, ExclusiveStep DEF Finish
  <1> QED BY <1>2, <1>3, <1>4 DEF IInv

(* Cards that two requests have taken, or know the memory of, are distinct. *)
LEMMA Distinct ==
  ASSUME IInv, NEW r \in Clients, NEW s \in Clients \ {r}
  PROVE  /\ Takes(tx[r]) /\ Takes(tx[s]) => tx[r].card # tx[s].card
         /\ Knows(tx[r]) /\ Knows(tx[s]) => tx[r].card # tx[s].card
         /\ Takes(tx[r]) \/ Knows(tx[r]) => tx[r].card \in Cards
  <1>1. Sound(tx[r]) /\ tx[r].held \cap tx[s].held = {}
    BY DEF IInv, TypeOK, RequestsOK
  <1>2. Takes(tx[r]) \/ Knows(tx[r]) => tx[r].card \in Cards
    BY <1>1 DEF Takes, Knows, Sound
  <1>3. Takes(tx[r]) /\ Takes(tx[s]) => tx[r].card # tx[s].card
    BY <1>1 DEF IInv, CardTaken, Taken
  <1>4. Knows(tx[r]) /\ Knows(tx[s]) => tx[r].card # tx[s].card
    BY <1>2, NoCardAssumption DEF IInv, MemoryKnown, Known, MemoryExclusive
  <1> QED BY <1>2, <1>3, <1>4

(* IInv is inductive.                                                       *)
LEMMA InvStep == IInv /\ [Next]_vars => IInv'
  <1> SUFFICES ASSUME IInv, [Next]_vars PROVE IInv'
    OBVIOUS
  <1>0. /\ TypeOK /\ TypeOK' /\ RequestsOK
        /\ \A r \in Clients : tx[r] \in Requests /\ Sound(tx[r])
        /\ \A r \in Clients : Taken(tx[r]) /\ Known(tx[r])
    BY TypeStep DEF IInv, TypeOK, RequestsOK, CardTaken, MemoryKnown
  <1> USE <1>0
  <1>1. CASE StartSession
    <2>1. UNCHANGED <<stored, reviews, answers, drills, tx>>
      BY <1>1 DEF StartSession
    <2>2. \A c \in Cards : \/ row'[c] = row[c]
                           \/ row[c] = "out" /\ row'[c] = "open"
      BY <1>1 DEF StartSession
    <2>3. CardTaken'
      BY <2>1, <2>2 DEF CardTaken, Taken, Takes, Sound
    <2>4. OpenUnanswered' /\ ReviewsCounted' /\ NoRowNoReviews'
      BY <2>1, <2>2 DEF IInv, OpenUnanswered, ReviewsCounted, NoRowNoReviews
    <2>5. MemoryKnown' /\ MemoryExclusive'
      BY <2>1, <2>2 DEF IInv, MemoryKnown, Known, Knows, Sound, MemoryExclusive
    <2> QED BY <2>3, <2>4, <2>5 DEF IInv
  <1>2. CASE Expire \/ UNCHANGED vars
    BY <1>2 DEF Expire, vars, IInv, CardTaken, Taken, OpenUnanswered, MemoryExclusive,
                MemoryKnown, Known, NoRowNoReviews, ReviewsCounted
  <1>3. ASSUME NEW r \in Clients, Arrive(r) PROVE IInv'
    <2>1. CASE Refuse(r)
      BY <1>2, <2>1 DEF Refuse
    <2>2. CASE ~Refuse(r)
      <3>1. UNCHANGED data /\ tx[r].at = "idle"
        BY <1>3, <2>2 DEF Arrive, OpenSession, OpenEnd, Drill, Peek, DeleteCard, Begin
      <3>2. PICK op, at, c : /\ Begin(r, op, at, c)
                             /\ at \in {"picking", "closing", "scoring", "purging"}
                             /\ at = "scoring" => op \in {"drill", "peek"}
        BY <1>3, <2>2 DEF Arrive, OpenSession, OpenEnd, Drill, Peek, DeleteCard
      <3> DEFINE q == [tx[r] EXCEPT !.op = op, !.at = at, !.card = c]
      <3>3. q.op = op /\ q.at = at /\ q.mem = tx[r].mem
        BY DEF Requests
      <3>4. Update(r, q)
        BY <3>2 DEF Begin
      <3> HIDE DEF q
      <3>5. Taken(q) /\ Known(q)
        BY <3>2, <3>3 DEF Taken, Takes, Known, Knows
      <3> QED BY <3>1, <3>3, <3>4, <3>5, QuietStep
    <2> QED BY <2>1, <2>2
  <1>4. ASSUME NEW r \in Clients, Proceed(r) PROVE IInv'
    <2>1. CASE Pick(r) \/ RankTop(r)
      <3>1. UNCHANGED data /\ (tx[r].at = "ranking" \/ tx[r].at = "picking")
        BY <2>1 DEF Pick, RankTop
      <3>2. PICK todo, at : /\ Update(r, [tx[r] EXCEPT !.at = at, !.todo = todo, !.snap = position])
                            /\ \/ at = "locking" /\ tx[r].at = "picking"
                               \/ at = "topping" /\ tx[r].at = "ranking"
        BY <2>1 DEF Pick, RankTop
      <3> DEFINE q == [tx[r] EXCEPT !.at = at, !.todo = todo, !.snap = position]
      <3>3. /\ q.at = at /\ q.card = tx[r].card /\ q.held = tx[r].held /\ q.mem = tx[r].mem
            /\ Update(r, q)
        BY <3>2 DEF Requests
      <3> HIDE DEF q
      <3>4. Taken(q) /\ Known(q)
        BY <3>2, <3>3 DEF Taken, Takes, Known, Knows
      <3> QED BY <3>1, <3>3, <3>4, QuietStep
    <2>2. CASE LockHead(r) \/ LockTop(r)
      <3>1. PICK c \in Cards, q \in Requests :
              /\ Lock(r, c, q)
              /\ q.mem = tx[r].mem
              /\ Takes(q) => \/ q.card = c /\ row[c] = "open"
                             \/ Takes(tx[r]) /\ q.card = tx[r].card
              /\ ~Knows(q) /\ q.at # "writing"
        <4>1. CASE LockHead(r)
          <5>1. PICK c \in Lowest(r) : \/ row[c] = "open" /\ Lock(r, c, Chosen(r, c))
                                       \/ PassOver(r, c)
            BY <4>1 DEF LockHead
          <5>2. c \in Cards
            BY DEF Lowest, Requests
          <5>3. CASE row[c] = "open" /\ Lock(r, c, Chosen(r, c))
            <6> DEFINE q == Chosen(r, c)
            <6>1. q \in Requests
              BY <5>2, ChosenTyped
            <6>2. q.mem = tx[r].mem /\ q.card = c /\ q.at \in {"scoring", "ranking"}
              BY DEF Chosen, Requests
            <6>3. ~Knows(q) /\ q.at # "writing"
              BY <6>2 DEF Knows
            <6> QED BY <5>2, <5>3, <6>1, <6>2, <6>3
          <5>4. CASE PassOver(r, c)
            <6> DEFINE q == [tx[r] EXCEPT !.todo = @ \ {c}]
            <6>1. q.mem = tx[r].mem /\ q.at = "locking" /\ q \in Requests
              BY <4>1, PassedTyped DEF LockHead
            <6>2. Lock(r, c, q)
              BY <5>4 DEF PassOver
            <6> HIDE DEF q
            <6>3. ~Knows(q) /\ ~Takes(q) /\ q.at # "writing"
              BY <6>1 DEF Knows, Takes
            <6> QED BY <5>2, <6>1, <6>2, <6>3
          <5> QED BY <5>1, <5>3, <5>4
        <4>2. CASE LockTop(r)
          <5> DEFINE moving(c) == [tx[r] EXCEPT !.at = "moving", !.newPos = position[c] + 1,
                                                !.todo = {}, !.snap = Rest.snap]
                     passing(c) == [tx[r] EXCEPT !.todo = @ \ {c}]
          <5>1. PICK c \in Highest(r) : Lock(r, c, moving(c)) \/ Lock(r, c, passing(c))
            BY <4>2 DEF LockTop, PassOver
          <5>2. c \in Cards
            BY DEF Highest, Requests
          <5>3. PICK q \in {moving(c), passing(c)} : Lock(r, c, q)
            BY <5>1
          <5>4. position[c] + 1 \in Nat /\ Rest.snap \in [Cards -> Nat]
            BY <5>2 DEF TypeOK, Rest
          <5>5. /\ moving(c).mem = tx[r].mem /\ moving(c).card = tx[r].card
                /\ moving(c).at = "moving" /\ moving(c) \in Requests
            <6> DEFINE n == position[c] + 1
                       f == Rest.snap
            <6> HIDE DEF n, f
            <6>1. n \in Nat /\ f \in [Cards -> Nat] /\ tx[r] \in Requests
              BY <5>4 DEF n, f
            <6>2. moving(c) = [tx[r] EXCEPT !.at = "moving", !.newPos = n, !.todo = {},
                                            !.snap = f]
              BY DEF n, f
            <6> HIDE DEF moving
            <6>3. moving(c) \in Requests
              <7>1. "moving" \in Steps /\ {} \in SUBSET Cards
                BY DEF Steps
              <7>2. [tx[r] EXCEPT !.at = "moving", !.newPos = n, !.todo = {}, !.snap = f]
                      \in Requests
                BY ONLY <6>1, <7>1, MovingTyped
              <7> QED BY <6>2, <7>2
            <6>4. moving(c).mem = tx[r].mem /\ moving(c).card = tx[r].card
              BY <6>1, <6>2 DEF Requests
            <6>5. moving(c).at = "moving"
              BY <6>1, <6>2 DEF Requests
            <6> QED BY <6>3, <6>4, <6>5
          <5>6. /\ passing(c).mem = tx[r].mem /\ passing(c).card = tx[r].card
                /\ passing(c).at = "topping" /\ passing(c) \in Requests
            BY <4>2, PassedTyped DEF LockTop
          <5>7. /\ q.mem = tx[r].mem /\ q.card = tx[r].card /\ q \in Requests
                /\ q.at \in {"moving", "topping"}
            BY <5>3, <5>5, <5>6
          <5>8. Takes(tx[r]) /\ ~Knows(q) /\ q.at # "writing"
            BY <4>2, <5>7 DEF LockTop, Takes, Knows
          <5> QED BY <5>2, <5>3, <5>7, <5>8
        <4> QED BY <2>2, <4>1, <4>2
      <3> DEFINE p == [q EXCEPT !.held = tx[r].held \cup {c}]
      <3>2. /\ p.at = q.at /\ p.op = q.op /\ p.card = q.card /\ p.seen = q.seen /\ p.mem = tx[r].mem
            /\ p.held = tx[r].held \cup {c}
            /\ Update(r, p)
        BY <3>1 DEF Lock, Requests
      <3> HIDE DEF p
      <3>3. Taken(p) /\ Known(p)
        BY <3>1, <3>2 DEF Taken, Takes, Known, Knows
      <3> QED BY <2>2, <3>2, <3>3, QuietStep DEF LockHead, LockTop
    <2>3. CASE NoCards(r) \/ InsertFails(r) \/ DeadlockVictim(r)
      BY <2>3, QuietFinish DEF NoCards, InsertFails, DeadlockVictim
    <2>4. CASE ReadMemory(r)
      <3> DEFINE c == tx[r].card
                 q == [tx[r] EXCEPT !.at = "writing", !.seen = reviews[c],
                                    !.mem = MemoryRow(c)]
      <3>1. CASE Finish(r)
        BY <2>4, <3>1, QuietFinish DEF ReadMemory
      <3>2. CASE Update(r, q) /\ row[c] # "gone"
        <4>1. /\ q.at = "writing" /\ q.op = tx[r].op /\ q.card = c /\ q.held = tx[r].held
              /\ q.seen = reviews[c] /\ q.mem = MemoryRow(c)
          BY DEF Requests
        <4> HIDE DEF q
        <4>2. Taken(q)
          BY <2>4, <4>1 DEF ReadMemory, Taken, Takes
        <4>3. Known(q)
          BY <2>4, <3>2, <4>1, NoCardAssumption
          DEF Known, Knows, MemoryRow, ReadMemory, Sound, IInv, NoRowNoReviews
        <4>4. q.mem = NoCard \/ MemoryFree(q.mem, r)
          BY <2>4, <4>1 DEF ReadMemory, MemoryReadable, MemoryRow
        <4> QED BY <2>4, <3>2, <4>2, <4>3, <4>4, QuietStep DEF ReadMemory
      <3> QED BY <2>4, <3>1, <3>2 DEF ReadMemory
    <2>5. CASE Flush(r)
      <3> DEFINE c == tx[r].card
                 last == tx[r].op = "answer" /\ IsLast(r)
                 q == [tx[r] EXCEPT !.at = "committing", !.mem = c, !.last = last]
      <3>1. Update(r, q) /\ UNCHANGED data /\ tx[r].at = "writing"
        BY <2>5 DEF Flush
      <3> HIDE DEF last
      <3>2. /\ q.at = "committing" /\ q.op = tx[r].op /\ q.card = c /\ q.held = tx[r].held
            /\ q.seen = tx[r].seen /\ q.mem = c
        BY DEF Requests
      <3> HIDE DEF q
      <3>3. Taken(q)
        BY <3>1, <3>2 DEF Taken, Takes
      <3>4. CASE tx[r].mem = NoCard
        <4>1. tx[r].seen = 0 /\ c \in Cards /\ c \notin stored /\ row[c] # "gone"
          BY <2>5, <3>1, <3>4 DEF Flush, Known, Sound
        <4>2. Known(q)
          BY <3>2, <4>1 DEF Known, IInv, NoRowNoReviews
        <4>3. MemoryFree(q.mem, r)
          BY <2>5, <3>2, <3>4 DEF Flush, Insertable
        <4> QED BY <3>1, <3>3, <4>2, <4>3, QuietStep
      <3>5. CASE tx[r].mem # NoCard
        <4>1. Known(q) /\ q.mem = tx[r].mem
          BY <3>1, <3>2, <3>5 DEF Known, Knows
        <4> QED BY <3>1, <3>3, <4>1, QuietStep
      <3> QED BY <3>4, <3>5
    <2>6. CASE CommitSkip(r)
      <3>1. /\ OpenUnanswered' /\ ReviewsCounted' /\ NoRowNoReviews'
            /\ Finish(r) /\ UNCHANGED <<row, reviews>>
        BY <2>6 DEF CommitSkip, IInv, OpenUnanswered, ReviewsCounted, NoRowNoReviews
      <3>2. ASSUME NEW s \in Clients \ {r}
            PROVE  /\ Takes(tx[s]) => row'[tx[s].card] = "open"
                   /\ Knows(tx[s]) => /\ reviews'[tx[s].card] = reviews[tx[s].card]
                                      /\ row'[tx[s].card] # "gone"
        BY <3>1 DEF Taken, Known
      <3> QED BY <3>1, <3>2, CommitStep
    <2>7. CASE CommitAnswer(r)
      <3> DEFINE c == tx[r].card
      <3>1. Takes(tx[r]) /\ Knows(tx[r]) /\ c \in Cards
        BY <2>7, Distinct DEF CommitAnswer, At, Takes, Knows, Sound
      <3>2. row[c] = "open" /\ answers[c] = 0 /\ tx[r].seen = reviews[c]
        BY <3>1 DEF Taken, Known, IInv, OpenUnanswered
      <3>3. /\ answers'[c] = 1 /\ row'[c] = "answered" /\ reviews'[c] = reviews[c] + 1
            /\ \A d \in Cards \ {c} : /\ answers'[d] = answers[d] /\ row'[d] = row[d]
                                      /\ reviews'[d] = reviews[d]
            /\ stored' = stored \cup {c}
        BY <2>7, <3>1, <3>2 DEF CommitAnswer, TypeOK
      <3>4. OpenUnanswered' /\ NoRowNoReviews'
        BY <3>3 DEF IInv, OpenUnanswered, NoRowNoReviews
      <3>5. ReviewsCounted'
        BY <2>7, <3>1, <3>2, <3>3 DEF CommitAnswer, IInv, ReviewsCounted, TypeOK
      <3>6. ASSUME NEW s \in Clients \ {r}
            PROVE  /\ Takes(tx[s]) => row'[tx[s].card] = "open"
                   /\ Knows(tx[s]) => /\ reviews'[tx[s].card] = reviews[tx[s].card]
                                      /\ row'[tx[s].card] # "gone"
        <4>1. /\ Takes(tx[s]) => tx[s].card \in Cards \ {c}
              /\ Knows(tx[s]) => tx[s].card \in Cards \ {c}
          BY <3>1, Distinct
        <4> QED BY <3>3, <4>1 DEF Taken, Known
      <3> QED BY <2>7, <3>4, <3>5, <3>6, CommitStep DEF CommitAnswer
    <2>8. CASE CommitDrill(r)
      <3> DEFINE c == tx[r].card
      <3>1. Knows(tx[r]) /\ c \in Cards
        BY <2>8, Distinct DEF CommitDrill, At, Knows, Sound
      <3>2. /\ drills'[c] = drills[c] + 1 /\ reviews'[c] = reviews[c] + 1
            /\ \A d \in Cards \ {c} : drills'[d] = drills[d] /\ reviews'[d] = reviews[d]
            /\ stored' = stored \cup {c} /\ UNCHANGED <<row, answers>>
        <4>1. tx[r].seen = reviews[c]
          BY <3>1 DEF Known
        <4> QED BY <2>8, <3>1, <4>1 DEF CommitDrill, TypeOK
      <3>3. OpenUnanswered' /\ NoRowNoReviews'
        BY <3>2 DEF IInv, OpenUnanswered, NoRowNoReviews
      <3>4. ReviewsCounted'
        <4>1. reviews[c] = answers[c] + drills[c] /\ answers[c] \in Nat /\ drills[c] \in Nat
          BY <3>1 DEF Known, IInv, ReviewsCounted, TypeOK
        <4>2. reviews'[c] = answers'[c] + drills'[c]
          BY <3>2, <4>1
        <4>3. \A d \in Cards \ {c} : row'[d] # "gone" => reviews'[d] = answers'[d] + drills'[d]
          BY <3>2 DEF IInv, ReviewsCounted
        <4> QED BY <4>2, <4>3 DEF ReviewsCounted
      <3>5. ASSUME NEW s \in Clients \ {r}
            PROVE  /\ Takes(tx[s]) => row'[tx[s].card] = "open"
                   /\ Knows(tx[s]) => /\ reviews'[tx[s].card] = reviews[tx[s].card]
                                      /\ row'[tx[s].card] # "gone"
        <4>1. Knows(tx[s]) => tx[s].card \in Cards \ {c}
          BY <3>1, Distinct
        <4> QED BY <3>2, <4>1 DEF Taken, Known
      <3> QED BY <2>8, <3>3, <3>4, <3>5, CommitStep DEF CommitDrill
    <2>9. CASE CommitEnd(r) \/ CommitPeek(r)
      <3>1. /\ OpenUnanswered' /\ ReviewsCounted' /\ NoRowNoReviews'
            /\ Finish(r) /\ UNCHANGED <<row, reviews>>
        BY <2>9 DEF CommitEnd, CommitPeek, IInv, OpenUnanswered, ReviewsCounted, NoRowNoReviews
      <3>2. ASSUME NEW s \in Clients \ {r}
            PROVE  /\ Takes(tx[s]) => row'[tx[s].card] = "open"
                   /\ Knows(tx[s]) => /\ reviews'[tx[s].card] = reviews[tx[s].card]
                                      /\ row'[tx[s].card] # "gone"
        BY <3>1 DEF Taken, Known
      <3> QED BY <3>1, <3>2, CommitStep
    <2>10. CASE PurgeMemory(r)
      <3> DEFINE c == tx[r].card
                 q == [tx[r] EXCEPT !.at = "unlinking",
                                    !.mem = MemoryRow(c)]
      <3>1. Update(r, q) /\ UNCHANGED data /\ MemoryReadable(c, r)
        BY <2>10 DEF PurgeMemory
      <3>2. q.at = "unlinking" /\ q.mem = MemoryRow(c)
        BY DEF Requests
      <3> HIDE DEF q
      <3>3. Taken(q) /\ Known(q)
        BY <3>2 DEF Taken, Takes, Known, Knows
      <3>4. q.mem = NoCard \/ MemoryFree(q.mem, r)
        BY <3>1, <3>2 DEF MemoryReadable, MemoryRow
      <3> QED BY <3>1, <3>3, <3>4, QuietStep
    <2>11. CASE Unlink(r)
      <3> DEFINE q == [tx[r] EXCEPT !.at = "cascading"]
      <3>1. Update(r, q) /\ UNCHANGED data
        BY <2>11 DEF Unlink
      <3>2. q.at = "cascading" /\ q.mem = tx[r].mem
        BY DEF Requests
      <3> HIDE DEF q
      <3>3. Taken(q) /\ Known(q)
        BY <3>2 DEF Taken, Takes, Known, Knows
      <3> QED BY <3>1, <3>2, <3>3, QuietStep
    <2>12. CASE CommitDelete(r)
      <3> DEFINE c == tx[r].card
      <3>1. c \in Cards /\ Free(c, r) /\ MemoryFree(c, r)
        BY <2>12 DEF CommitDelete, Sound
      <3>2. /\ row'[c] = "gone" /\ reviews'[c] = 0 /\ stored' = stored \ {c}
            /\ UNCHANGED <<answers, drills>>
            /\ \A d \in Cards \ {c} : row'[d] = row[d] /\ reviews'[d] = reviews[d]
        BY <2>12, <3>1 DEF CommitDelete, TypeOK
      <3>3. OpenUnanswered' /\ ReviewsCounted' /\ NoRowNoReviews'
        BY <3>1, <3>2 DEF IInv, OpenUnanswered, ReviewsCounted, NoRowNoReviews
      <3>4. ASSUME NEW s \in Clients \ {r}
            PROVE  /\ Takes(tx[s]) => row'[tx[s].card] = "open"
                   /\ Knows(tx[s]) => /\ reviews'[tx[s].card] = reviews[tx[s].card]
                                      /\ row'[tx[s].card] # "gone"
        <4>1. /\ Takes(tx[s]) => tx[s].card \in Cards \ {c}
              /\ Knows(tx[s]) => tx[s].card \in Cards \ {c}
          BY <3>1, Distinct DEF Taken, Known, Free, MemoryFree, Takes, Knows, Sound
        <4> QED BY <3>2, <4>1 DEF Taken, Known
      <3> QED BY <2>12, <3>3, <3>4, CommitStep DEF CommitDelete
    <2> QED BY <1>4, <2>1, <2>2, <2>3, <2>4, <2>5, <2>6, <2>7, <2>8, <2>9, <2>10, <2>11,
               <2>12 DEF Proceed
  <1> QED BY <1>1, <1>2, <1>3, <1>4 DEF Next

(* The inductive invariant holds in every behaviour of the session.         *)
LEMMA InvHolds == Spec => []IInv
  <1>1. ASSUME Init PROVE IInv
    <2>1. \A r \in Clients : tx[r] = Rest
      BY <1>1 DEF Init
    <2>2. TypeOK
      BY <1>1, InitTyped
    <2>3. CardTaken /\ MemoryKnown /\ MemoryExclusive
      BY <2>1, RestHolds DEF CardTaken, Taken, MemoryKnown, Known, MemoryExclusive
    <2>4. OpenUnanswered /\ ReviewsCounted /\ NoRowNoReviews
      BY <1>1 DEF Init, OpenUnanswered, ReviewsCounted, NoRowNoReviews
    <2> QED BY <2>2, <2>3, <2>4 DEF IInv
  <1> QED BY <1>1, InvStep, PTL DEF Spec

(* However many requests answer, skip and delete at the same time, no card  *)
(* of the session is scored twice.                                          *)
THEOREM NoCardAnsweredTwice == Spec => []AnsweredOnce
  <1>1. IInv => AnsweredOnce
    BY DEF IInv, OpenUnanswered, AnsweredOnce
  <1> QED BY <1>1, InvHolds, PTL

(* No answer, given in the session or directly, is lost from the spaced-    *)
(* repetition state of its card.                                            *)
THEOREM NoReviewLost == Spec => []ReviewsCounted
  <1>1. IInv => ReviewsCounted
    BY DEF IInv
  <1> QED BY <1>1, InvHolds, PTL

-----------------------------------------------------------------------------
(* Before start_session no card is in the session.                          *)
Fresh == session = "none" => InSession = {}

(* Fresh holds in every behaviour of the session.                           *)
LEMMA FreshHolds == Spec => []Fresh
  <1>1. Init => Fresh
    BY DEF Init, Fresh, InSession
  <1>2. IInv /\ Fresh /\ [Next]_vars => Fresh'
    <2> SUFFICES ASSUME IInv, Fresh, [Next]_vars, session' = "none" PROVE InSession' = {}
      BY DEF Fresh
    <2>1. CASE UNCHANGED <<session, row>>
      BY <2>1 DEF Fresh, InSession
    <2>2. CASE ~UNCHANGED <<session, row>>
      <3>1. ~StartSession /\ ~Expire /\ ~UNCHANGED vars
        BY <2>2 DEF StartSession, Expire, vars
      <3>2. PICK r \in Clients : CommitAnswer(r) \/ CommitDelete(r) \/ CommitEnd(r)
        BY <2>2, <3>1
        DEF Next, Arrive, Proceed, OpenSession, OpenEnd, Refuse, Drill, Peek, DeleteCard, Pick,
            LockHead, NoCards, RankTop, LockTop, CommitSkip, ReadMemory, Flush, InsertFails,
            CommitDrill, CommitPeek, PurgeMemory, Unlink, DeadlockVictim, data, vars
      <3>3. ~CommitEnd(r)
        BY DEF CommitEnd
      <3>4. CASE CommitAnswer(r)
        <4>1. session = "none"
          BY <3>4 DEF CommitAnswer
        <4>2. tx[r].card \in InSession
          BY <3>4, Distinct
          DEF CommitAnswer, At, IInv, TypeOK, RequestsOK, Sound, CardTaken, Taken, Takes, InSession
        <4> QED BY <4>1, <4>2 DEF Fresh
      <3>5. CASE CommitDelete(r)
        BY <3>5 DEF CommitDelete, Fresh, InSession, IInv, TypeOK
      <3> QED BY <3>2, <3>3, <3>4, <3>5
    <2> QED BY <2>1, <2>2
  <1> QED BY <1>1, <1>2, InvHolds, PTL DEF Spec

(* A skip never moves a card that has been answered, although it picked its *)
(* card from a snapshot taken before the answer.                            *)
THEOREM AnsweredCardsStayPut == Spec => AnsweredStaysPut
  <1>1. ASSUME IInv, Fresh, [Next]_vars, NEW c \in Cards, row[c] = "answered"
        PROVE  position'[c] = position[c]
    <2>1. CASE UNCHANGED position
      BY <2>1
    <2>2. CASE ~UNCHANGED position
      <3>1. ~StartSession
        BY <1>1 DEF StartSession, Fresh, InSession
      <3>2. PICK r \in Clients : CommitSkip(r)
        BY <1>1, <2>2, <3>1
        DEF Next, Arrive, Proceed, Expire, OpenSession, OpenEnd, Refuse, Drill, Peek, DeleteCard,
            Pick, LockHead, NoCards, RankTop, LockTop, ReadMemory, Flush, InsertFails,
            CommitAnswer, CommitDrill, CommitPeek, CommitEnd, CommitDelete, PurgeMemory,
            Unlink, DeadlockVictim, data, vars
      <3>3. row[tx[r].card] = "open"
        BY <1>1, <3>2 DEF CommitSkip, IInv, CardTaken, Taken, Takes
      <3> QED BY <1>1, <3>2, <3>3 DEF CommitSkip, IInv, TypeOK
    <2> QED BY <2>1, <2>2
  <1>2. IInv /\ Fresh /\ [Next]_vars
          => [\A c \in Cards : row[c] = "answered" => position'[c] = position[c]]_vars
    BY <1>1
  <1> QED BY <1>2, InvHolds, FreshHolds, PTL DEF Spec, AnsweredStaysPut

-----------------------------------------------------------------------------
(* What a request remembers and acts upon later.  A skip that looks for the *)
(* last position: the snapshot still has its card, at the place where it    *)
(* is, and no card has moved forward since.  A skip that has it: the card   *)
(* is in front of it.  An answer that found no other open card: there is    *)
(* none.                                                                    *)
Look(q) ==
  /\ q.at = "topping" => /\ q.card \in q.todo /\ q.snap[q.card] = position[q.card]
                         /\ \A c \in Cards : q.snap[c] <= position[c]
  /\ q.at = "moving" => q.newPos > position[q.card]
  /\ q.at = "committing" /\ q.last => q.op = "answer" /\ Open \subseteq {q.card}
Looks == \A r \in Clients : Look(tx[r])

LookInv == IInv /\ Fresh /\ Looks

(* A step of one request leaves the others as they are.                     *)
OthersWait(r) == \A s \in Clients \ {r} : tx'[s] = tx[s]

(* Steps that move no card forward, no card that another request has taken, *)
(* and open no card leave what the others remember true.                    *)
LEMMA OthersLook ==
  ASSUME IInv, TypeOK', Looks, NEW r \in Clients,
         OthersWait(r),
         \A c \in Cards : position[c] <= position'[c],
         \A s \in Clients \ {r} : Takes(tx[s]) => position'[tx[s].card] = position[tx[s].card],
         Open' \subseteq Open,
         Look(tx[r])'
  PROVE  Looks'
  <1> SUFFICES ASSUME NEW s \in Clients \ {r} PROVE Look(tx[s])'
    BY DEF Looks
  <1>1. tx'[s] = tx[s] /\ tx[s] \in Requests /\ Look(tx[s])
    BY DEF OthersWait, Looks, IInv, TypeOK, RequestsOK
  <1>2. /\ position \in [Cards -> Nat] /\ position' \in [Cards -> Nat]
        /\ tx[s].snap \in [Cards -> Nat]
    BY <1>1 DEF IInv, TypeOK, Requests
  <1>3. CASE tx[s].at = "topping"
    <2>1. position'[tx[s].card] = position[tx[s].card]
      BY <1>3 DEF Takes
    <2>2. \A c \in Cards : tx[s].snap[c] <= position'[c]
      BY <1>1, <1>2, <1>3 DEF Look
    <2> QED BY <1>1, <1>3, <2>1, <2>2 DEF Look
  <1>4. CASE tx[s].at = "moving"
    <2>1. position'[tx[s].card] = position[tx[s].card]
      BY <1>4 DEF Takes
    <2> QED BY <1>1, <1>4, <2>1 DEF Look
  <1>5. CASE tx[s].at \notin {"topping", "moving"}
    BY <1>1, <1>5 DEF Look
  <1> QED BY <1>3, <1>4, <1>5

(* A step of one request that neither moves a card nor opens one.           *)
LEMMA LookStep ==
  ASSUME LookInv, TypeOK', NEW r \in Clients, OthersWait(r),
         UNCHANGED position, Open' \subseteq Open, Look(tx[r])'
  PROVE  Looks'
  <1>1. \A c \in Cards : position[c] <= position'[c]
    BY DEF LookInv, IInv, TypeOK
  <1> QED BY <1>1, OthersLook DEF LookInv

(* The end of a request.                                                    *)
LEMMA LookFinish ==
  ASSUME LookInv, TypeOK', NEW r \in Clients, Finish(r), UNCHANGED position,
         Open' \subseteq Open
  PROVE  Looks'
  <1>1. tx'[r] = Rest /\ OthersWait(r)
    BY Updated DEF LookInv, IInv, TypeOK, Finish, OthersWait
  <1>2. Look(tx[r])'
    BY <1>1 DEF Look, Rest
  <1> QED BY <1>1, <1>2, LookStep

(* LookInv is inductive.                                                    *)
LEMMA LookInvStep == LookInv /\ IInv' /\ Fresh' /\ [Next]_vars => LookInv'
  <1> SUFFICES ASSUME LookInv, TypeOK', [Next]_vars PROVE Looks'
    BY DEF LookInv, IInv
  <1>0. /\ IInv /\ TypeOK /\ Looks /\ RequestsOK
        /\ \A r \in Clients : tx[r] \in Requests /\ Sound(tx[r]) /\ Look(tx[r])
    BY DEF LookInv, IInv, TypeOK, RequestsOK, Looks
  <1> USE <1>0
  <1>1. CASE StartSession
    <2>1. ASSUME NEW r \in Clients PROVE ~Takes(tx[r])
      <3>1. Takes(tx[r]) => tx[r].card \in InSession
        BY DEF CardTaken, Taken, Takes, Sound, InSession, IInv
      <3> QED BY <1>1, <3>1 DEF StartSession, LookInv, Fresh
    <2> QED BY <1>1, <2>1 DEF StartSession, Looks, Look, Takes
  <1>2. CASE Expire \/ UNCHANGED vars
    BY <1>2 DEF Expire, vars, Looks, Look, Open
  <1>3. ASSUME NEW r \in Clients, Arrive(r) PROVE Looks'
    <2>1. CASE Refuse(r)
      BY <1>2, <2>1 DEF Refuse
    <2>2. CASE ~Refuse(r)
      <3>1. UNCHANGED data
        BY <1>3, <2>2 DEF Arrive, OpenSession, OpenEnd, Drill, Peek, DeleteCard
      <3>2. PICK op, at, c : /\ Begin(r, op, at, c)
                             /\ at \in {"picking", "closing", "scoring", "purging"}
        BY <1>3, <2>2 DEF Arrive, OpenSession, OpenEnd, Drill, Peek, DeleteCard
      <3>3. OthersWait(r) /\ tx'[r] = [tx[r] EXCEPT !.op = op, !.at = at, !.card = c]
        BY <3>2, Updated DEF Begin, OthersWait
      <3>4. tx'[r].at = at
        BY <3>3 DEF Requests
      <3>5. Look(tx[r])' /\ Open' = Open
        BY <3>1, <3>2, <3>4 DEF Look, data, Open
      <3> QED BY <3>1, <3>3, <3>5, LookStep DEF data
    <2> QED BY <2>1, <2>2
  <1>4. ASSUME NEW r \in Clients, Proceed(r) PROVE Looks'
    <2>0. UNCHANGED data => UNCHANGED position /\ Open' = Open
      BY DEF data, Open
    <2>1. CASE NoCards(r) \/ InsertFails(r) \/ DeadlockVictim(r) \/ CommitEnd(r)
               \/ CommitPeek(r)
      <3>1. Finish(r) /\ UNCHANGED <<row, position>>
        BY <2>1 DEF NoCards, InsertFails, DeadlockVictim, CommitEnd, CommitPeek, data
      <3>2. Open' = Open
        BY <3>1 DEF Open
      <3> QED BY <3>1, <3>2, LookFinish
    <2>2. CASE CommitAnswer(r) \/ CommitDrill(r) \/ CommitDelete(r)
      <3>1. Finish(r) /\ UNCHANGED position
        BY <2>2 DEF CommitAnswer, CommitDrill, CommitDelete
      <3>2. \A c \in Cards : row'[c] \in {row[c], "answered", "gone"}
        BY <2>2 DEF CommitAnswer, CommitDrill, CommitDelete, TypeOK
      <3>3. Open' \subseteq Open
        BY <3>2 DEF Open
      <3> QED BY <3>1, <3>3, LookFinish
    <2>3. CASE Pick(r) \/ PurgeMemory(r) \/ Unlink(r)
      <3>1. UNCHANGED data /\ OthersWait(r)
        BY <2>3, Updated DEF Pick, PurgeMemory, Unlink, OthersWait
      <3>2. tx'[r].at \in {"locking", "unlinking", "cascading"}
        <4>1. CASE Pick(r)
          <5>1. tx'[r] = [tx[r] EXCEPT !.at = "locking", !.todo = Open, !.snap = position]
            BY <4>1, Updated DEF Pick
          <5> QED BY <5>1 DEF Requests
        <4>2. CASE PurgeMemory(r)
          <5>1. PICK m : m = MemoryRow(tx[r].card)
            OBVIOUS
          <5>2. tx'[r] = [tx[r] EXCEPT !.at = "unlinking", !.mem = m]
            BY <4>2, <5>1, Updated DEF PurgeMemory
          <5> QED BY <5>2 DEF Requests
        <4>3. CASE Unlink(r)
          <5>1. tx'[r] = [tx[r] EXCEPT !.at = "cascading"]
            BY <4>3, Updated DEF Unlink
          <5> QED BY <5>1 DEF Requests
        <4> QED BY <2>3, <4>1, <4>2, <4>3
      <3>3. Look(tx[r])'
        BY <3>2 DEF Look
      <3> QED BY <2>0, <3>1, <3>3, LookStep
    <2>4. CASE LockHead(r)
      <3>1. PICK c : Lock(r, c, Chosen(r, c)) \/ PassOver(r, c)
        BY <2>4 DEF LockHead
      <3>2. UNCHANGED data /\ OthersWait(r)
        BY <2>4, <3>1, Updated DEF LockHead, PassOver, Lock, OthersWait
      <3>3. tx'[r].at \in {"scoring", "ranking", "locking"}
        <4>1. CASE PassOver(r, c)
          <5>1. tx'[r] = [[tx[r] EXCEPT !.todo = @ \ {c}] EXCEPT !.held = tx[r].held \cup {c}]
            BY <4>1, Updated DEF PassOver, Lock
          <5> QED BY <2>4, <5>1 DEF LockHead, Requests
        <4>2. CASE Lock(r, c, Chosen(r, c))
          <5>1. PICK f : f = Rest.snap
            OBVIOUS
          <5>2. PICK at \in {"scoring", "ranking"} :
                  tx'[r] = [[tx[r] EXCEPT !.at = at, !.card = c, !.todo = {}, !.snap = f]
                              EXCEPT !.held = tx[r].held \cup {c}]
            BY <4>2, <5>1, Updated DEF Lock, Chosen
          <5> QED BY <5>2 DEF Requests
        <4> QED BY <3>1, <4>1, <4>2
      <3>4. Look(tx[r])'
        BY <3>3 DEF Look
      <3> QED BY <2>0, <3>2, <3>4, LookStep
    <2>5. CASE ReadMemory(r)
      <3>1. CASE Finish(r)
        BY <2>0, <2>5, <3>1, LookFinish DEF ReadMemory
      <3>2. CASE ~Finish(r)
        <4>1. UNCHANGED data /\ OthersWait(r)
          BY <2>5, <3>2, Updated DEF ReadMemory, OthersWait
        <4>2. tx'[r].at = "writing"
          <5>1. PICK n, m : /\ n = reviews[tx[r].card]
                            /\ m = MemoryRow(tx[r].card)
            OBVIOUS
          <5>2. tx'[r] = [tx[r] EXCEPT !.at = "writing", !.seen = n, !.mem = m]
            BY <2>5, <3>2, <5>1, Updated DEF ReadMemory
          <5> QED BY <5>2 DEF Requests
        <4>3. Look(tx[r])'
          BY <4>2 DEF Look
        <4> QED BY <2>0, <4>1, <4>3, LookStep
      <3> QED BY <3>1, <3>2
    <2>6. CASE Flush(r)
      <3> DEFINE c == tx[r].card
                 last == tx[r].op = "answer" /\ IsLast(r)
                 q == [tx[r] EXCEPT !.at = "committing", !.mem = c, !.last = last]
      <3>1. UNCHANGED data /\ OthersWait(r) /\ tx'[r] = q
        BY <2>6, Updated DEF Flush, OthersWait
      <3>2. last => tx[r].op = "answer" /\ Open \subseteq {c}
        BY DEF IsLast
      <3> HIDE DEF last
      <3>3. q.at = "committing" /\ q.op = tx[r].op /\ q.card = c /\ q.last = last
        BY DEF Requests
      <3> HIDE DEF q
      <3>4. Look(tx[r])'
        BY <2>0, <3>1, <3>2, <3>3 DEF Look
      <3> QED BY <2>0, <3>1, <3>4, LookStep
    <2>7. CASE RankTop(r)
      <3>1. UNCHANGED data /\ OthersWait(r)
        BY <2>7, Updated DEF RankTop, OthersWait
      <3>2. /\ tx'[r].at = "topping" /\ tx'[r].card = tx[r].card
            /\ tx'[r].todo = InSession /\ tx'[r].snap = position
        BY <2>7 DEF RankTop, Update, RequestsOK, Requests
      <3>3. tx[r].card \in InSession
        BY <2>7 DEF RankTop, IInv, CardTaken, Taken, Takes, Sound, InSession
      <3>4. \A c \in Cards : position[c] <= position[c]
        BY DEF TypeOK
      <3>5. Look(tx[r])'
        BY <2>0, <3>1, <3>2, <3>3, <3>4 DEF Look
      <3> QED BY <2>0, <3>1, <3>5, LookStep
    <2>8. CASE LockTop(r)
      <3>1. PICK c \in Highest(r) :
              IF row[c] = "gone"
              THEN PassOver(r, c)
              ELSE Lock(r, c, [tx[r] EXCEPT !.at = "moving", !.newPos = position[c] + 1,
                                            !.todo = {}, !.snap = Rest.snap])
        BY <2>8 DEF LockTop
      <3>2. /\ tx[r].at = "topping" /\ c \in Cards /\ tx[r].card \in Cards
            /\ tx[r].card \in tx[r].todo /\ row[tx[r].card] = "open"
        BY <2>8 DEF LockTop, Look, Highest, Requests, IInv, CardTaken, Taken, Takes, Sound
      <3>3. UNCHANGED data /\ OthersWait(r)
        BY <2>8, <3>1, Updated DEF LockTop, PassOver, Lock, OthersWait
      <3>4. CASE row[c] = "gone"
        <4>1. /\ tx'[r].at = "topping" /\ tx'[r].card = tx[r].card
              /\ tx'[r].todo = tx[r].todo \ {c} /\ tx'[r].snap = tx[r].snap
          <5>1. tx'[r] = [[tx[r] EXCEPT !.todo = @ \ {c}] EXCEPT !.held = tx[r].held \cup {c}]
            BY <3>1, <3>4, Updated DEF PassOver, Lock
          <5> QED BY <3>2, <5>1 DEF Requests
        <4>2. Look(tx[r])
          OBVIOUS
        <4>3. Look(tx[r])'
          BY <2>0, <3>2, <3>3, <3>4, <4>1, <4>2 DEF Look
        <4> QED BY <2>0, <3>3, <4>3, LookStep
      <3>5. CASE row[c] # "gone"
        <4>1. PICK n, f : n = position[c] + 1 /\ f = Rest.snap
          OBVIOUS
        <4>2. tx'[r] = [[tx[r] EXCEPT !.at = "moving", !.newPos = n, !.todo = {}, !.snap = f]
                          EXCEPT !.held = tx[r].held \cup {c}]
          BY <3>1, <3>5, <4>1, Updated DEF Lock
        <4>3. tx'[r].at = "moving" /\ tx'[r].card = tx[r].card /\ tx'[r].newPos = n
          BY <4>2 DEF Requests
        <4>4. /\ tx[r].snap[tx[r].card] <= tx[r].snap[c]
              /\ tx[r].snap[c] <= position[c]
              /\ tx[r].snap[tx[r].card] = position[tx[r].card]
          BY <3>2 DEF Highest, Look
        <4>5. n > position[tx[r].card]
          <5>1. /\ position[c] \in Nat /\ position[tx[r].card] \in Nat
                /\ tx[r].snap[c] \in Nat
            BY <3>2 DEF TypeOK, Requests
          <5> QED BY <4>1, <4>4, <5>1
        <4>6. Look(tx[r])'
          BY <2>0, <3>3, <4>3, <4>5 DEF Look
        <4> QED BY <2>0, <3>3, <4>6, LookStep
      <3> QED BY <3>4, <3>5
    <2>9. CASE CommitSkip(r)
      <3>1. PICK x \in Cards, n \in Nat :
              /\ x = tx[r].card /\ n = tx[r].newPos /\ n > position[x]
              /\ position' = [position EXCEPT ![x] = n]
        BY <2>9 DEF CommitSkip, Sound, Requests, Look
      <3>2. tx'[r] = Rest /\ OthersWait(r)
        BY <2>9, Updated DEF CommitSkip, Finish, OthersWait
      <3>3. \A c \in Cards : position[c] <= position'[c]
        BY <3>1 DEF TypeOK
      <3>4. Takes(tx[r])
        BY <2>9 DEF CommitSkip, Takes
      <3>5. ASSUME NEW s \in Clients \ {r}, Takes(tx[s])
            PROVE  position'[tx[s].card] = position[tx[s].card]
        <4>1. tx[s].card # x /\ tx[s].card \in Cards
          BY <3>1, <3>4, <3>5, Distinct DEF Takes, Sound
        <4> QED BY <3>1, <4>1 DEF TypeOK
      <3>6. Look(tx[r])' /\ Open' \subseteq Open
        BY <2>9, <3>2 DEF CommitSkip, Look, Rest, Open
      <3> QED BY <3>2, <3>3, <3>5, <3>6, OthersLook
    <2> QED BY <1>4, <2>1, <2>2, <2>3, <2>4, <2>5, <2>6, <2>7, <2>8, <2>9 DEF Proceed
  <1> QED BY <1>1, <1>2, <1>3, <1>4 DEF Next

(* LookInv holds in every behaviour of the session.                         *)
LEMMA LookInvHolds == Spec => []LookInv
  <1>1. Init => Looks
    <2> SUFFICES ASSUME Init, NEW r \in Clients PROVE Look(tx[r])
      BY DEF Looks
    <2>1. tx[r] = Rest
      BY DEF Init
    <2> QED BY <2>1 DEF Look, Rest
  <1>2. IInv /\ Fresh /\ Looks /\ IInv' /\ Fresh' /\ [Next]_vars => Looks'
    BY LookInvStep DEF LookInv
  <1>3. Spec => []Looks
    BY <1>1, <1>2, InvHolds, FreshHolds, PTL DEF Spec
  <1> QED BY <1>3, InvHolds, FreshHolds, PTL DEF LookInv

(* Whatever other skips, answers and deletions happen while a skip waits    *)
(* for its locks, it moves its card back.                                   *)
THEOREM SkipsMoveBack == Spec => []SkipMovesBack
  <1>1. LookInv => SkipMovesBack
    BY DEF LookInv, Looks, Look, SkipMovesBack
  <1> QED BY <1>1, LookInvHolds, PTL

-----------------------------------------------------------------------------
(* The steps that change the status of the session.                         *)
LEMMA SessionSteps ==
  ASSUME [Next]_vars, session' # session
  PROVE  \/ StartSession
         \/ \E r \in Clients : CommitEnd(r)
         \/ \E r \in Clients : CommitAnswer(r) /\ tx[r].last
  <1>1. CASE StartSession \/ Expire \/ UNCHANGED vars
    BY <1>1 DEF Expire, vars
  <1>2. ASSUME NEW r \in Clients, Arrive(r) \/ Proceed(r), ~CommitEnd(r), ~CommitAnswer(r)
        PROVE  FALSE
    BY <1>2
    DEF Arrive, Proceed, OpenSession, OpenEnd, Refuse, Drill, Peek, DeleteCard, Pick, LockHead,
        NoCards, RankTop, LockTop, CommitSkip, ReadMemory, Flush, InsertFails, CommitDrill,
        CommitPeek, PurgeMemory, Unlink, CommitDelete, DeadlockVictim, data, vars
  <1>3. ASSUME NEW r \in Clients, CommitAnswer(r) PROVE tx[r].last
    BY <1>3 DEF CommitAnswer
  <1> QED BY <1>1, <1>2, <1>3 DEF Next

(* An ended session is not reopened by an answer that had read it active.   *)
THEOREM NeverReopened == Spec => EndedStaysEnded
  <1>1. [Next]_vars => [session = "ended" => session' = "ended"]_vars
    <2>1. StartSession => session = "none"
      BY DEF StartSession
    <2>2. \A r \in Clients : CommitEnd(r) \/ (CommitAnswer(r) /\ tx[r].last)
                               => session' = "ended"
      BY DEF CommitEnd, CommitAnswer
    <2> QED BY <2>1, <2>2, SessionSteps
  <1> QED BY <1>1, PTL DEF Spec, EndedStaysEnded

(* The answer that ends the session leaves no open card, although other     *)
(* requests ran between its check and its commit.                           *)
THEOREM EndedByLastAnswer == Spec => EndsOnlyWhenDone
  <1>1. ASSUME LookInv, [Next]_vars, session = "active", session' = "ended",
               ~\E r \in Clients : CommitEnd(r), NEW c \in Cards
        PROVE  row'[c] # "open"
    <2>1. PICK r \in Clients : CommitAnswer(r) /\ tx[r].last
      BY <1>1, SessionSteps DEF StartSession
    <2>2. Open \subseteq {tx[r].card} /\ row \in [Cards -> RowStates]
      BY <1>1, <2>1 DEF LookInv, Looks, Look, CommitAnswer, At, IInv, TypeOK
    <2>3. row' = [row EXCEPT ![tx[r].card] = "answered"]
      BY <2>1 DEF CommitAnswer
    <2> QED BY <2>2, <2>3 DEF Open
  <1>2. LookInv /\ [Next]_vars
          => [session = "active" /\ session' = "ended" /\ ~(\E r \in Clients : CommitEnd(r))
                => \A c \in Cards : row'[c] # "open"]_vars
    BY <1>1
  <1> QED BY <1>2, LookInvHolds, PTL DEF Spec, EndsOnlyWhenDone
=============================================================================
