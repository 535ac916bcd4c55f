--------------------------- MODULE RateLimitProofs ---------------------------
(***************************************************************************)
(* Proofs about RateLimit, for any requests, identifiers, windows, limits  *)
(* and any number of faults.                                               *)
(*                                                                         *)
(* BaseInv says what the stage of a request says of it and that no counter *)
(* goes away before its window is over; on it rest three arguments:        *)
(*  - a counter without expiry: LeakNeedsTwoFaults is inductive with it;   *)
(*  - the limit: in its window every request that was counted holds a      *)
(*    place of its own, none beyond the counter (Places), so that those    *)
(*    who pass are no more than there are places up to the limit;          *)
(*  - the cause of a refusal: a counter is no further than the requests    *)
(*    that took a place and those that may have been counted twice         *)
(*    (UsedUp), and neither become fewer.                                  *)
(* Only finitely many requests have been sent at any time (Sent), however  *)
(* many there may be.                                                      *)
(***************************************************************************)
EXTENDS RateLimit, Integers, FiniteSetTheorems, TLAPS

(* The types of counters and requests.                                      *)
Counter == [value : Nat, expires : Nat]
Request == [at : Stages, path : Paths, body : Bodies \cup {"absent"},
            key : Keys \cup {<<>>}, ttl : Nat, value : Nat, late : BOOLEAN,
            hits : Nat, answer : Answers]

(* What the stage of a request says of it: its key is that of a counter     *)
(* whose window ends within its time to live; only a failed EVAL leads to   *)
(* the substitute; what is not counted yet has no place and no answer.      *)
ShapeOf(r) ==
  /\ req[r].at = "unsent" => req[r].key = <<>> /\ req[r].hits = 0 /\ req[r].value = 0
  /\ req[r].at # "unsent" => /\ req[r].key \in Keys /\ req[r].ttl > 0
                             /\ now + req[r].ttl >= WindowEnd(req[r].key)
  /\ req[r].at = "eval" => req[r].hits = 0
  /\ req[r].at \in {"incr", "expire"} => req[r].hits >= 1
  /\ req[r].at \in {"eval", "incr", "expire"} => req[r].value = 0
  /\ req[r].at # "answered" => req[r].answer = "none"

Shape == \A r \in Requests : ShapeOf(r)

(* No counter goes away before its window is over.                          *)
Expiries ==
  \A k \in Keys : counters[k].expires # Never =>
                    counters[k].value > 0 /\ counters[k].expires >= WindowEnd(k)

BaseInv == TypeOK /\ Shape /\ Expiries

-----------------------------------------------------------------------------
(* Facts about types.                                                       *)
LEMMA Typed ==
  TypeOK <=> /\ now \in 0..MaxTime /\ faults \in 0..MaxFaults
             /\ counters \in [Keys -> Counter]
             /\ req \in [Requests -> Request]
  BY DEF TypeOK, Counter, Request

LEMMA CategoryTyped ==
  ASSUME NEW p \in Paths, NEW m \in Methods
  PROVE  Category(p, m) \in Categories
  BY DEF Category, Paths, Methods, Categories

LEMMA WindowEndTyped ==
  ASSUME NEW k \in Keys
  PROVE  k[1] \in Categories /\ WindowEnd(k) \in Nat /\ WindowEnd(k) > 0 /\ Limit[k[1]] \in Nat
  <1>1. k[1] \in Categories /\ k[3] \in 0..MaxTime
    BY DEF Keys
  <1>2. Window[k[1]] \in Nat /\ Window[k[1]] > 0 /\ Limit[k[1]] \in Nat
    BY <1>1, WindowAssumption, LimitAssumption
  <1>3. k[3] + 1 \in Nat /\ k[3] + 1 > 0
    BY <1>1, BoundsAssumption
  <1>4. ASSUME NEW a \in Nat, NEW b \in Nat, a > 0, b > 0 PROVE a * b \in Nat /\ a * b > 0
    BY <1>4
  <1> QED BY <1>1, <1>2, <1>3, <1>4 DEF WindowEnd

(* An instant lies in the window its quotient names.                        *)
LEMMA InWindow ==
  ASSUME NEW n \in Nat, NEW w \in Nat, w > 0
  PROVE  /\ n \div w \in 0..n
         /\ (n \div w + 1) * w > n
  <1>1. n \div w \in Int /\ w * (n \div w) <= n /\ n < w * (n \div w) + w
    OBVIOUS
  <1> DEFINE q == n \div w
  <1>2. q >= 0
    <2>1. ASSUME q <= -1 PROVE FALSE
      <3>1. w * q <= w * (-1)
        BY <1>1, <2>1
      <3> QED BY <1>1, <3>1
    <2> QED BY <1>1, <2>1
  <1>3. q <= n
    <2>1. ASSUME q > n PROVE FALSE
      <3>1. w * q >= 1 * q
        BY <1>1, <1>2
      <3> QED BY <1>1, <2>1, <3>1
    <2> QED BY <1>1, <2>1
  <1>4. (q + 1) * w = w * q + w
    BY <1>1
  <1> QED BY <1>1, <1>2, <1>3, <1>4
-----------------------------------------------------------------------------
(* What the handlers do to the request and its counter: nothing else moves, *)
(* a count is judged, or the request goes on without one.                   *)
Same(r) ==
  /\ req' \in [Requests -> Request] /\ counters' \in [Keys -> Counter]
  /\ now' = now
  /\ \A s \in Requests : s # r => req'[s] = req[s]
  /\ \A k \in Keys : k # req[r].key => counters'[k] = counters[k]
  /\ req'[r].key = req[r].key /\ req'[r].ttl = req[r].ttl

JudgedOn(r, v) ==
  /\ req'[r].value = v /\ req'[r].hits = req[r].hits
  /\ req'[r].late = FALSE => ~(now >= WindowEnd(req[r].key))
  /\ IF v > Limit[req[r].key[1]]
     THEN req'[r].at = "answered" /\ req'[r].answer = "refused"
     ELSE /\ req'[r].at \in {"app", "answered"} /\ req'[r].answer # "refused"
          /\ req'[r].at = "app" => req'[r].answer = "none"

GoesOn(r) ==
  /\ req'[r].value = req[r].value
  /\ req'[r].late = req[r].late
  /\ req'[r].at \in {"app", "answered"} /\ req'[r].answer # "refused"
  /\ req'[r].at = "app" => req'[r].answer = "none"

(* What the operators of the model make of a request.                       *)
LEMMA SizeAnswerTyped ==
  ASSUME NEW q
  PROVE  SizeAnswer(q) \in {"none", "malformed", "too_large"}
  BY DEF SizeAnswer

LEMMA AdmittedFields ==
  ASSUME NEW q \in Request
  PROVE  /\ Admitted(q) \in Request
         /\ Admitted(q).key = q.key /\ Admitted(q).ttl = q.ttl /\ Admitted(q).value = q.value
         /\ Admitted(q).late = q.late /\ Admitted(q).hits = q.hits
         /\ Admitted(q).at \in {"app", "answered"} /\ Admitted(q).answer # "refused"
         /\ Admitted(q).at = "app" => Admitted(q).answer = "none"
  BY SizeAnswerTyped DEF Admitted, Request, Stages, Answers

LEMMA JudgedFields ==
  ASSUME NEW q \in Request, NEW v \in Nat
  PROVE  /\ Judged(q, v) \in Request
         /\ Judged(q, v).key = q.key /\ Judged(q, v).ttl = q.ttl
         /\ Judged(q, v).value = v /\ Judged(q, v).hits = q.hits
         /\ Judged(q, v).late = (now >= WindowEnd(q.key))
         /\ IF v > Limit[q.key[1]]
            THEN Judged(q, v).at = "answered" /\ Judged(q, v).answer = "refused"
            ELSE /\ Judged(q, v).at \in {"app", "answered"}
                 /\ Judged(q, v).answer # "refused"
                 /\ Judged(q, v).at = "app" => Judged(q, v).answer = "none"
  <1> DEFINE l == now >= WindowEnd(q.key)
             p == [q EXCEPT !.value = v, !.late = l]
             x == [q EXCEPT !.at = "answered", !.answer = "refused", !.value = v, !.late = l]
  <1>0. l \in BOOLEAN
    OBVIOUS
  <1>1. Judged(q, v) = IF v > Limit[q.key[1]] THEN x ELSE Admitted(p)
    BY DEF Judged
  <1> HIDE DEF l
  <1>2. /\ p \in Request /\ p.key = q.key /\ p.ttl = q.ttl /\ p.value = v /\ p.late = l
        /\ p.hits = q.hits
    BY <1>0 DEF Request
  <1>3. /\ x \in Request /\ x.key = q.key /\ x.ttl = q.ttl /\ x.value = v /\ x.late = l
        /\ x.hits = q.hits /\ x.at = "answered" /\ x.answer = "refused"
    BY <1>0 DEF Request, Stages, Answers
  <1> HIDE DEF p, x
  <1>4. CASE v > Limit[q.key[1]]
    BY <1>1, <1>3, <1>4 DEF l
  <1>5. CASE ~(v > Limit[q.key[1]])
    BY <1>1, <1>2, <1>5, AdmittedFields DEF l
  <1> QED BY <1>4, <1>5

(* The key of a request that was sent is that of a counter.                 *)
LEMMA UnderWay ==
  ASSUME BaseInv, NEW r \in Requests, req[r].at # "unsent"
  PROVE  /\ req \in [Requests -> Request] /\ counters \in [Keys -> Counter]
         /\ req[r] \in Request /\ req[r].key \in Keys /\ req[r].ttl \in Nat /\ req[r].ttl > 0
         /\ req[r].hits \in Nat /\ req[r].value \in Nat
         /\ now \in Nat /\ now + req[r].ttl >= WindowEnd(req[r].key)
         /\ counters[req[r].key] \in Counter
         /\ counters[req[r].key].value \in Nat /\ counters[req[r].key].expires \in Nat
  <1>1. req \in [Requests -> Request] /\ counters \in [Keys -> Counter] /\ now \in Nat
    BY Typed, BoundsAssumption DEF BaseInv
  <1>2. req[r] \in Request
    BY <1>1
  <1>3. req[r].ttl \in Nat /\ req[r].hits \in Nat /\ req[r].value \in Nat
    BY <1>2 DEF Request
  <1>4. req[r].key \in Keys /\ req[r].ttl > 0 /\ now + req[r].ttl >= WindowEnd(req[r].key)
    BY DEF BaseInv, Shape, ShapeOf
  <1>5. counters[req[r].key] \in Counter
    BY <1>1, <1>4
  <1> QED BY <1>1, <1>2, <1>3, <1>4, <1>5 DEF Counter

(* What the operators of the model make of all requests and counters.       *)
LEMMA MoveOnly ==
  ASSUME req \in [Requests -> Request], NEW r \in Requests, NEW q \in Request, Move(r, q)
  PROVE  /\ req' \in [Requests -> Request] /\ req'[r] = q
         /\ \A s \in Requests : s # r => req'[s] = req[s]
  BY DEF Move

LEMMA CountedFields ==
  ASSUME counters \in [Keys -> Counter], NEW k \in Keys
  PROVE  /\ Counted(k) \in [Keys -> Counter]
         /\ Counted(k)[k].value = counters[k].value + 1
         /\ Counted(k)[k].expires = counters[k].expires
         /\ \A l \in Keys : l # k => Counted(k)[l] = counters[l]
  BY DEF Counted, Counter

LEMMA ScriptedFields ==
  ASSUME counters \in [Keys -> Counter], NEW k \in Keys, NEW ttl \in Nat, now \in Nat
  PROVE  /\ Scripted(k, ttl) \in [Keys -> Counter]
         /\ Scripted(k, ttl)[k].value = counters[k].value + 1
         /\ Scripted(k, ttl)[k].expires =
              IF counters[k].value = 0 THEN now + ttl ELSE counters[k].expires
         /\ \A l \in Keys : l # k => Scripted(k, ttl)[l] = counters[l]
  BY DEF Scripted, Counter

LEMMA ExpiringFields ==
  ASSUME counters \in [Keys -> Counter], NEW k \in Keys, NEW ttl \in Nat, now \in Nat
  PROVE  /\ Expiring(k, ttl) \in [Keys -> Counter]
         /\ Expiring(k, ttl)[k].value = counters[k].value
         /\ Expiring(k, ttl)[k].expires =
              IF counters[k] = Absent THEN counters[k].expires ELSE now + ttl
         /\ \A l \in Keys : l # k => Expiring(k, ttl)[l] = counters[l]
  BY DEF Expiring, Counter

LEMMA HitFields ==
  ASSUME NEW q \in Request
  PROVE  /\ Hit(q) \in Request /\ Hit(q).hits = q.hits + 1
         /\ Hit(q).at = q.at /\ Hit(q).answer = q.answer
         /\ Hit(q).key = q.key /\ Hit(q).ttl = q.ttl /\ Hit(q).value = q.value
         /\ Hit(q).late = q.late
  BY DEF Hit, Request

LEMMA StagedFields ==
  ASSUME NEW q \in Request, NEW a \in Stages, NEW q2, q2 = [q EXCEPT !.at = a]
  PROVE  /\ q2 \in Request /\ q2.at = a /\ q2.answer = q.answer /\ q2.key = q.key
         /\ q2.ttl = q.ttl /\ q2.value = q.value /\ q2.late = q.late /\ q2.hits = q.hits
  BY DEF Request

(* The counter of r, now and after the step.                                *)
Value(r) == counters[req[r].key].value
NewValue(r) == counters'[req[r].key].value
Expires(r) == counters[req[r].key].expires
NewExpires(r) == counters'[req[r].key].expires

(* A request that is judged.                                                *)
LEMMA JudgedHere ==
  ASSUME NEW r \in Requests, req[r] \in Request, NEW v \in Nat, req'[r] = Judged(req[r], v)
  PROVE  JudgedOn(r, v) /\ req'[r].key = req[r].key /\ req'[r].ttl = req[r].ttl
  <1> DEFINE q == req[r]
  <1> HIDE DEF q
  <1>1. q \in Request /\ req'[r] = Judged(q, v)
    BY DEF q
  <1>2. /\ req'[r].key = q.key /\ req'[r].ttl = q.ttl
        /\ req'[r].value = v /\ req'[r].hits = q.hits
        /\ req'[r].late = (now >= WindowEnd(q.key))
        /\ IF v > Limit[q.key[1]]
           THEN req'[r].at = "answered" /\ req'[r].answer = "refused"
           ELSE /\ req'[r].at \in {"app", "answered"}
                /\ req'[r].answer # "refused"
                /\ req'[r].at = "app" => req'[r].answer = "none"
    BY <1>1, JudgedFields
  <1>3. ASSUME NEW l, l = (now >= WindowEnd(q.key)), l = FALSE
        PROVE  ~(now >= WindowEnd(q.key))
    BY <1>3
  <1>4. req'[r].late = FALSE => ~(now >= WindowEnd(q.key))
    BY <1>2, <1>3
  <1> QED BY <1>2, <1>4 DEF JudgedOn, q

(* Each handler of a request, field by field.                               *)
EvalDone(r) ==
  /\ req[r].at = "eval" /\ Same(r) /\ JudgedOn(r, Value(r) + 1)
  /\ NewValue(r) = Value(r) + 1
  /\ NewExpires(r) = IF Value(r) = 0 THEN now + req[r].ttl ELSE Expires(r)

LEMMA EvalStep ==
  ASSUME BaseInv, NEW r \in Requests, Eval(r)
  PROVE  EvalDone(r)
  <1> DEFINE k == req[r].key
  <1>0. req[r].at = "eval"
    BY DEF Eval
  <1>1. /\ req \in [Requests -> Request] /\ counters \in [Keys -> Counter]
        /\ req[r] \in Request /\ k \in Keys /\ req[r].ttl \in Nat /\ now \in Nat
        /\ counters[k].value \in Nat
    BY <1>0, UnderWay
  <1>2. counters' = Scripted(k, req[r].ttl) /\ Move(r, Judged(req[r], counters[k].value + 1))
    BY DEF Eval
  <1>3. counters[k].value + 1 \in Nat
    BY <1>1
  <1>4. Judged(req[r], counters[k].value + 1) \in Request
    BY <1>1, <1>3, JudgedFields
  <1>5. /\ req' \in [Requests -> Request] /\ req'[r] = Judged(req[r], counters[k].value + 1)
        /\ \A s \in Requests : s # r => req'[s] = req[s]
    BY <1>1, <1>2, <1>4, MoveOnly
  <1>6. now' = now
    BY DEF Eval
  <1>7. JudgedOn(r, counters[k].value + 1) /\ req'[r].key = k /\ req'[r].ttl = req[r].ttl
    BY <1>1, <1>3, <1>5, JudgedHere
  <1>8. /\ counters' \in [Keys -> Counter] /\ counters'[k].value = counters[k].value + 1
        /\ counters'[k].expires =
             IF counters[k].value = 0 THEN now + req[r].ttl ELSE counters[k].expires
        /\ \A l \in Keys : l # k => counters'[l] = counters[l]
    BY <1>1, <1>2, ScriptedFields
  <1>9. Same(r)
    BY <1>5, <1>6, <1>7, <1>8 DEF Same
  <1> QED BY <1>0, <1>7, <1>8, <1>9 DEF EvalDone, Value, NewValue, Expires, NewExpires

IncrDone(r) ==
  /\ req[r].at = "incr" /\ Same(r)
  /\ NewValue(r) = Value(r) + 1 /\ NewExpires(r) = Expires(r)
  /\ IF Value(r) = 0
     THEN /\ req'[r].at = "expire" /\ req'[r].value = req[r].value
          /\ req'[r].late = req[r].late
          /\ req'[r].hits = req[r].hits /\ req'[r].answer = req[r].answer
     ELSE JudgedOn(r, Value(r) + 1)

LEMMA IncrStep ==
  ASSUME BaseInv, NEW r \in Requests, Incr(r)
  PROVE  IncrDone(r)
  <1> DEFINE k == req[r].key
             v == counters[k].value + 1
             q == [req[r] EXCEPT !.at = "expire"]
  <1>0. req[r].at = "incr"
    BY DEF Incr
  <1>1. /\ req \in [Requests -> Request] /\ counters \in [Keys -> Counter]
        /\ req[r] \in Request /\ k \in Keys /\ counters[k].value \in Nat
    BY <1>0, UnderWay
  <1>2. counters' = Counted(k) /\ now' = now
    BY DEF Incr
  <1>3. v \in Nat
    BY <1>1
  <1>4. /\ counters' \in [Keys -> Counter] /\ counters'[k].value = counters[k].value + 1
        /\ counters'[k].expires = counters[k].expires
        /\ \A l \in Keys : l # k => counters'[l] = counters[l]
    BY <1>1, <1>2, CountedFields
  <1>5. CASE counters[k].value = 0
    <2>1. Move(r, q)
      BY <1>5 DEF Incr
    <2>2. /\ q \in Request /\ q.at = "expire" /\ q.answer = req[r].answer /\ q.key = k
          /\ q.ttl = req[r].ttl /\ q.value = req[r].value /\ q.late = req[r].late
          /\ q.hits = req[r].hits
      BY <1>1, StagedFields DEF Stages
    <2> HIDE DEF q
    <2>3. /\ req' \in [Requests -> Request] /\ req'[r] = q
          /\ \A s \in Requests : s # r => req'[s] = req[s]
      BY <1>1, <2>1, <2>2, MoveOnly
    <2> QED BY <1>0, <1>2, <1>4, <1>5, <2>2, <2>3
            DEF IncrDone, Same, Value, NewValue, Expires, NewExpires
  <1>6. CASE counters[k].value # 0
    <2>1. Move(r, Judged(req[r], v))
      BY <1>1, <1>6 DEF Incr
    <2> HIDE DEF v
    <2>2. /\ Judged(req[r], v) \in Request
          /\ Judged(req[r], v).key = k /\ Judged(req[r], v).ttl = req[r].ttl
      BY <1>1, <1>3, JudgedFields
    <2>3. /\ req' \in [Requests -> Request] /\ req'[r] = Judged(req[r], v)
          /\ \A s \in Requests : s # r => req'[s] = req[s]
      BY <1>1, <2>1, <2>2, MoveOnly
    <2>4. JudgedOn(r, v)
      BY <1>1, <1>3, <2>3, JudgedHere
    <2>5. Same(r)
      BY <1>2, <1>4, <2>2, <2>3 DEF Same
    <2> QED BY <1>0, <1>4, <1>6, <2>4, <2>5
            DEF IncrDone, Value, NewValue, Expires, NewExpires, v
  <1> QED BY <1>5, <1>6

ExpireSet(r) ==
  /\ NewValue(r) = Value(r)
  /\ NewExpires(r) = IF counters[req[r].key] = Absent THEN Expires(r) ELSE now + req[r].ttl

ExpireDone(r) ==
  /\ req[r].at = "expire" /\ Same(r) /\ JudgedOn(r, 1) /\ ExpireSet(r)

LEMMA ExpireStep ==
  ASSUME BaseInv, NEW r \in Requests, Expire(r)
  PROVE  ExpireDone(r)
  <1> DEFINE k == req[r].key
  <1>0. req[r].at = "expire"
    BY DEF Expire
  <1>1. /\ req \in [Requests -> Request] /\ counters \in [Keys -> Counter]
        /\ req[r] \in Request /\ k \in Keys /\ req[r].ttl \in Nat /\ now \in Nat
    BY <1>0, UnderWay
  <1>2. counters' = Expiring(k, req[r].ttl) /\ Move(r, Judged(req[r], 1)) /\ now' = now
    BY DEF Expire
  <1>3. Judged(req[r], 1) \in Request
    BY <1>1, JudgedFields
  <1>4. /\ req' \in [Requests -> Request] /\ req'[r] = Judged(req[r], 1)
        /\ \A s \in Requests : s # r => req'[s] = req[s]
    BY <1>1, <1>2, <1>3, MoveOnly
  <1>5. JudgedOn(r, 1) /\ req'[r].key = k /\ req'[r].ttl = req[r].ttl
    BY <1>1, <1>4, JudgedHere
  <1>6. /\ counters' \in [Keys -> Counter] /\ counters'[k].value = counters[k].value
        /\ counters'[k].expires =
             IF counters[k] = Absent THEN counters[k].expires ELSE now + req[r].ttl
        /\ \A l \in Keys : l # k => counters'[l] = counters[l]
    BY <1>1, <1>2, ExpiringFields
  <1>7. Same(r)
    BY <1>2, <1>4, <1>5, <1>6 DEF Same
  <1> QED BY <1>0, <1>5, <1>6, <1>7
          DEF ExpireDone, ExpireSet, Value, NewValue, Expires, NewExpires

AnswerDone(r) ==
  /\ req[r].at = "app" /\ Same(r) /\ counters' = counters
  /\ req'[r].at = "answered" /\ req'[r].answer = "served"
  /\ req'[r].value = req[r].value /\ req'[r].late = req[r].late
  /\ req'[r].hits = req[r].hits

LEMMA AnswerStep ==
  ASSUME BaseInv, NEW r \in Requests, Answer(r)
  PROVE  AnswerDone(r)
  <1> DEFINE q == [req[r] EXCEPT !.at = "answered", !.answer = "served"]
  <1>0. req[r].at = "app"
    BY DEF Answer
  <1>1. /\ req \in [Requests -> Request] /\ counters \in [Keys -> Counter]
        /\ req[r] \in Request
    BY <1>0, UnderWay
  <1>2. Move(r, q) /\ counters' = counters /\ now' = now
    BY DEF Answer
  <1>3. /\ q \in Request /\ q.at = "answered" /\ q.answer = "served"
        /\ q.key = req[r].key /\ q.ttl = req[r].ttl /\ q.value = req[r].value
        /\ q.late = req[r].late /\ q.hits = req[r].hits
    BY <1>1 DEF Request, Stages, Answers
  <1> HIDE DEF q
  <1>4. /\ req' \in [Requests -> Request] /\ req'[r] = q
        /\ \A s \in Requests : s # r => req'[s] = req[s]
    BY <1>1, <1>2, <1>3, MoveOnly
  <1> QED BY <1>0, <1>1, <1>2, <1>3, <1>4 DEF AnswerDone, Same

(* The commands that do not come back.                                      *)
Lost(r) == req'[r].hits = req[r].hits + 1

EvalLost(r) ==
  /\ req[r].at = "eval" /\ Same(r) /\ Lost(r)
  /\ req'[r].at = "incr" /\ req'[r].answer = req[r].answer
  /\ req'[r].value = req[r].value /\ req'[r].late = req[r].late
  /\ \/ NewValue(r) = Value(r) /\ NewExpires(r) = Expires(r)
     \/ /\ NewValue(r) = Value(r) + 1
        /\ NewExpires(r) = IF Value(r) = 0 THEN now + req[r].ttl ELSE Expires(r)

LEMMA EvalFailsStep ==
  ASSUME BaseInv, NEW r \in Requests, NEW applied \in BOOLEAN, EvalFails(r, applied)
  PROVE  EvalLost(r)
  <1> DEFINE k == req[r].key
             p == [req[r] EXCEPT !.at = "incr"]
  <1>0. req[r].at = "eval"
    BY DEF EvalFails
  <1>1. /\ req \in [Requests -> Request] /\ counters \in [Keys -> Counter]
        /\ req[r] \in Request /\ k \in Keys /\ req[r].ttl \in Nat /\ now \in Nat
    BY <1>0, UnderWay
  <1>2. /\ counters' = IF applied THEN Scripted(k, req[r].ttl) ELSE counters
        /\ Move(r, Hit(p)) /\ now' = now
    BY DEF EvalFails
  <1>3. /\ p \in Request /\ p.at = "incr" /\ p.answer = req[r].answer /\ p.key = k
        /\ p.ttl = req[r].ttl /\ p.value = req[r].value /\ p.late = req[r].late
        /\ p.hits = req[r].hits
    BY <1>1, StagedFields DEF Stages
  <1> HIDE DEF p
  <1>4. /\ Hit(p) \in Request /\ Hit(p).hits = p.hits + 1
        /\ Hit(p).at = p.at /\ Hit(p).answer = p.answer
        /\ Hit(p).key = p.key /\ Hit(p).ttl = p.ttl /\ Hit(p).value = p.value
        /\ Hit(p).late = p.late
    BY <1>3, HitFields
  <1>5. /\ req' \in [Requests -> Request] /\ req'[r] = Hit(p)
        /\ \A s \in Requests : s # r => req'[s] = req[s]
    BY <1>1, <1>2, <1>4, MoveOnly
  <1>6. /\ counters' \in [Keys -> Counter]
        /\ \A l \in Keys : l # k => counters'[l] = counters[l]
        /\ \/ NewValue(r) = Value(r) /\ NewExpires(r) = Expires(r)
           \/ /\ NewValue(r) = Value(r) + 1
              /\ NewExpires(r) = IF Value(r) = 0 THEN now + req[r].ttl ELSE Expires(r)
    <2>1. CASE applied
      BY <1>1, <1>2, <2>1, ScriptedFields DEF Value, NewValue, Expires, NewExpires
    <2>2. CASE ~applied
      BY <1>1, <1>2, <2>2 DEF Value, NewValue, Expires, NewExpires
    <2> QED BY <2>1, <2>2
  <1>7. Same(r)
    BY <1>2, <1>3, <1>4, <1>5, <1>6 DEF Same
  <1> QED BY <1>0, <1>3, <1>4, <1>5, <1>6, <1>7 DEF EvalLost, Lost

IncrLost(r) ==
  /\ req[r].at = "incr" /\ Same(r) /\ Lost(r) /\ GoesOn(r)
  /\ NewValue(r) \in {Value(r), Value(r) + 1} /\ NewExpires(r) = Expires(r)

LEMMA LostAndAdmitted ==
  ASSUME NEW r \in Requests, req \in [Requests -> Request],
         Move(r, Admitted(Hit(req[r])))
  PROVE  /\ req' \in [Requests -> Request] /\ Lost(r) /\ GoesOn(r)
         /\ \A s \in Requests : s # r => req'[s] = req[s]
         /\ req'[r].key = req[r].key /\ req'[r].ttl = req[r].ttl
  <1> DEFINE q == req[r]
  <1>1. q \in Request
    OBVIOUS
  <1> HIDE DEF q
  <1>2. /\ Hit(q) \in Request /\ Hit(q).hits = q.hits + 1
        /\ Hit(q).key = q.key /\ Hit(q).ttl = q.ttl /\ Hit(q).value = q.value
        /\ Hit(q).late = q.late
    BY <1>1, HitFields
  <1> DEFINE p == Admitted(Hit(q))
  <1>3. /\ p \in Request
        /\ p.key = q.key /\ p.ttl = q.ttl /\ p.value = q.value
        /\ p.late = q.late /\ p.hits = q.hits + 1
        /\ p.at \in {"app", "answered"} /\ p.answer # "refused"
        /\ p.at = "app" => p.answer = "none"
    BY <1>2, AdmittedFields
  <1>4. Move(r, p)
    BY DEF q
  <1> HIDE DEF p
  <1>5. /\ req' \in [Requests -> Request] /\ req'[r] = p
        /\ \A s \in Requests : s # r => req'[s] = req[s]
    BY <1>3, <1>4, MoveOnly
  <1> QED BY <1>3, <1>5 DEF Lost, GoesOn, q

LEMMA IncrFailsStep ==
  ASSUME BaseInv, NEW r \in Requests, NEW applied \in BOOLEAN, IncrFails(r, applied)
  PROVE  IncrLost(r)
  <1> DEFINE k == req[r].key
  <1>0. req[r].at = "incr"
    BY DEF IncrFails
  <1>1. /\ req \in [Requests -> Request] /\ counters \in [Keys -> Counter] /\ k \in Keys
    BY <1>0, UnderWay
  <1>2. /\ counters' = IF applied THEN Counted(k) ELSE counters
        /\ Move(r, Admitted(Hit(req[r]))) /\ now' = now
    BY DEF IncrFails
  <1>3. /\ counters' \in [Keys -> Counter]
        /\ \A l \in Keys : l # k => counters'[l] = counters[l]
        /\ NewValue(r) \in {Value(r), Value(r) + 1} /\ NewExpires(r) = Expires(r)
    <2>1. CASE applied
      BY <1>1, <1>2, <2>1, CountedFields DEF Value, NewValue, Expires, NewExpires
    <2>2. CASE ~applied
      BY <1>1, <1>2, <2>2 DEF Value, NewValue, Expires, NewExpires
    <2> QED BY <2>1, <2>2
  <1>4. /\ req' \in [Requests -> Request] /\ Lost(r) /\ GoesOn(r)
        /\ \A s \in Requests : s # r => req'[s] = req[s]
        /\ req'[r].key = req[r].key /\ req'[r].ttl = req[r].ttl
    BY <1>1, <1>2, LostAndAdmitted
  <1> QED BY <1>0, <1>2, <1>3, <1>4 DEF IncrLost, Same

ExpireLost(r) ==
  /\ req[r].at = "expire" /\ Same(r) /\ Lost(r) /\ GoesOn(r)
  /\ NewValue(r) = Value(r)
  /\ \/ NewExpires(r) = Expires(r)
     \/ ExpireSet(r)

LEMMA ExpireFailsStep ==
  ASSUME BaseInv, NEW r \in Requests, NEW applied \in BOOLEAN, ExpireFails(r, applied)
  PROVE  ExpireLost(r)
  <1> DEFINE k == req[r].key
  <1>0. req[r].at = "expire"
    BY DEF ExpireFails
  <1>1. /\ req \in [Requests -> Request] /\ counters \in [Keys -> Counter] /\ k \in Keys
        /\ req[r].ttl \in Nat /\ now \in Nat
    BY <1>0, UnderWay
  <1>2. /\ counters' = IF applied THEN Expiring(k, req[r].ttl) ELSE counters
        /\ Move(r, Admitted(Hit(req[r]))) /\ now' = now
    BY DEF ExpireFails
  <1>3. /\ counters' \in [Keys -> Counter]
        /\ \A l \in Keys : l # k => counters'[l] = counters[l]
        /\ NewValue(r) = Value(r) /\ (NewExpires(r) = Expires(r) \/ ExpireSet(r))
    <2>1. CASE applied
      BY <1>1, <1>2, <2>1, ExpiringFields DEF Value, NewValue, Expires, NewExpires, ExpireSet
    <2>2. CASE ~applied
      BY <1>1, <1>2, <2>2 DEF Value, NewValue, Expires, NewExpires
    <2> QED BY <2>1, <2>2
  <1>4. /\ req' \in [Requests -> Request] /\ Lost(r) /\ GoesOn(r)
        /\ \A s \in Requests : s # r => req'[s] = req[s]
        /\ req'[r].key = req[r].key /\ req'[r].ttl = req[r].ttl
    BY <1>1, <1>2, LostAndAdmitted
  <1> QED BY <1>0, <1>2, <1>3, <1>4 DEF ExpireLost, Same

(* A step of one request.                                                   *)
Advance(r) ==
  \/ EvalDone(r) \/ IncrDone(r) \/ ExpireDone(r) \/ AnswerDone(r)
  \/ EvalLost(r) \/ IncrLost(r) \/ ExpireLost(r)

(* The steps there are.                                                     *)
LEMMA NextCases ==
  ASSUME BaseInv, Next
  PROVE  \/ Tick
         \/ Crash
         \/ \E r \in Requests, i \in Identifiers, e \in Endpoints, b \in Bodies :
              Arrive(r, i, e, b)
         \/ \E r \in Requests : Advance(r)
  <1>1. ASSUME NEW r \in Requests, Handle(r) PROVE Advance(r)
    BY <1>1, EvalStep, IncrStep, ExpireStep, AnswerStep DEF Handle, Advance
  <1>2. ASSUME NEW r \in Requests, NEW applied \in BOOLEAN,
               EvalFails(r, applied) \/ IncrFails(r, applied) \/ ExpireFails(r, applied)
        PROVE  Advance(r)
    BY <1>2, EvalFailsStep, IncrFailsStep, ExpireFailsStep DEF Advance
  <1> QED BY <1>1, <1>2 DEF Next

(* What every step of a request keeps of it, and of its counter.            *)
LEMMA AdvanceFacts ==
  ASSUME BaseInv, NEW r \in Requests, Advance(r)
  PROVE  /\ Same(r) /\ req[r].at \notin {"unsent", "dropped", "answered"}
         /\ NewValue(r) \in {Value(r), Value(r) + 1}
         /\ \/ NewExpires(r) = Expires(r)
            \/ NewExpires(r) = now + req[r].ttl /\ NewValue(r) > 0
         /\ req'[r].hits \in {req[r].hits, req[r].hits + 1}
  <1>1. Same(r) /\ req[r].at \in {"eval", "incr", "expire", "app"}
    BY DEF Advance, EvalDone, IncrDone, ExpireDone, AnswerDone, EvalLost, IncrLost, ExpireLost
  <1>2. Value(r) \in Nat /\ Expires(r) \in Nat
    BY <1>1, UnderWay DEF Value, Expires
  <1>3. Value(r) = 0 => counters[req[r].key] = Absent
    <2>1. counters[req[r].key] \in Counter /\ req[r].key \in Keys
      BY <1>1, UnderWay
    <2>2. Value(r) = 0 => counters[req[r].key].expires = Never
      BY <2>1 DEF BaseInv, Expiries, Value
    <2> QED BY <2>1, <2>2 DEF Counter, Absent, Value, Never
  <1>4. CASE EvalDone(r)
    BY <1>1, <1>2, <1>4 DEF EvalDone, JudgedOn
  <1>5. CASE IncrDone(r)
    BY <1>1, <1>2, <1>5 DEF IncrDone, JudgedOn
  <1>6. CASE ExpireDone(r)
    BY <1>1, <1>2, <1>3, <1>6 DEF ExpireDone, JudgedOn, ExpireSet
  <1>7. CASE AnswerDone(r)
    BY <1>1, <1>2, <1>7 DEF AnswerDone, Value, NewValue, Expires, NewExpires
  <1>8. CASE EvalLost(r)
    BY <1>1, <1>2, <1>8 DEF EvalLost, Lost
  <1>9. CASE IncrLost(r)
    BY <1>1, <1>2, <1>9 DEF IncrLost, Lost
  <1>10. CASE ExpireLost(r)
    BY <1>1, <1>2, <1>3, <1>10 DEF ExpireLost, Lost, ExpireSet
  <1> QED BY <1>4, <1>5, <1>6, <1>7, <1>8, <1>9, <1>10 DEF Advance

(* The arrival of a request, and a crash, field by field.                   *)
LEMMA UnsentTyped == Unsent \in Request
  BY DEF Unsent, Request, Stages, Answers, Paths

LEMMA SentTyped ==
  ASSUME NEW u \in Request, NEW p \in Paths, NEW b \in Bodies, NEW k \in Keys, NEW t \in Nat
  PROVE  [u EXCEPT !.at = "eval", !.path = p, !.body = b, !.key = k, !.ttl = t] \in Request
  BY DEF Request, Stages

LEMMA ArriveShape ==
  ASSUME BaseInv, NEW r \in Requests, NEW i \in Identifiers, NEW e \in Endpoints,
         NEW b \in Bodies, Arrive(r, i, e, b)
  PROVE  /\ req[r].at = "unsent" /\ req' \in [Requests -> Request]
         /\ \A s \in Requests : s # r => req'[s] = req[s]
         /\ req'[r].at = "eval" /\ req'[r].key \in Keys /\ req'[r].ttl > 0
         /\ now + req'[r].ttl >= WindowEnd(req'[r].key)
         /\ req'[r].hits = 0 /\ req'[r].value = 0 /\ req'[r].answer = "none"
         /\ req'[r].late = FALSE
         /\ UNCHANGED <<now, counters, faults>>
  <1> DEFINE c == Category(e[1], e[2])
             n == now \div Window[c]
             k == <<c, i, n>>
             t == Ttl(k)
             q == [Unsent EXCEPT !.at = "eval", !.path = e[1], !.body = b, !.key = k, !.ttl = t]
  <1>1. req[r].at = "unsent" /\ Move(r, q) /\ UNCHANGED <<now, counters, faults>>
    BY DEF Arrive
  <1>2. e[1] \in Paths /\ e[2] \in Methods
    BY EndpointsAssumption
  <1>3. c \in Categories
    BY <1>2, CategoryTyped
  <1> HIDE DEF c
  <1>4. Window[c] \in Nat /\ Window[c] > 0
    BY <1>3, WindowAssumption
  <1>5. now \in Nat /\ now <= MaxTime /\ req \in [Requests -> Request]
    BY Typed, BoundsAssumption DEF BaseInv
  <1>6. n \in 0..now /\ (n + 1) * Window[c] > now
    BY <1>4, <1>5, InWindow
  <1> HIDE DEF n
  <1>7. k \in Keys /\ k[1] = c /\ k[3] = n
    BY <1>3, <1>5, <1>6, BoundsAssumption DEF Keys
  <1> HIDE DEF k
  <1>8. t \in Nat /\ t > 0 /\ now + t = WindowEnd(k)
    <2>1. WindowEnd(k) \in Nat
      BY <1>7, WindowEndTyped
    <2>2. WindowEnd(k) > now
      BY <1>6, <1>7 DEF WindowEnd
    <2> QED BY <1>5, <2>1, <2>2 DEF Ttl
  <1> HIDE DEF t
  <1>9. /\ q.at = "eval" /\ q.path = e[1] /\ q.body = b /\ q.key = k /\ q.ttl = t
        /\ q.value = 0 /\ q.late = FALSE /\ q.hits = 0 /\ q.answer = "none"
    BY DEF Unsent
  <1>10. q \in Request
    BY <1>2, <1>7, <1>8, UnsentTyped, SentTyped
  <1> HIDE DEF q
  <1>11. /\ req' \in [Requests -> Request] /\ req'[r] = q
         /\ \A s \in Requests : s # r => req'[s] = req[s]
    BY <1>1, <1>5, <1>10, MoveOnly
  <1>12. /\ req'[r].at = "eval" /\ req'[r].key \in Keys /\ req'[r].ttl > 0
         /\ req'[r].hits = 0 /\ req'[r].value = 0 /\ req'[r].answer = "none"
         /\ req'[r].late = FALSE
    BY <1>7, <1>8, <1>9, <1>11
  <1>13. now + req'[r].ttl >= WindowEnd(req'[r].key)
    <2>1. WindowEnd(k) \in Nat
      BY <1>7, WindowEndTyped
    <2> QED BY <1>5, <1>8, <1>9, <1>11, <2>1
  <1> QED BY <1>1, <1>11, <1>12, <1>13

LEMMA CrashFields ==
  ASSUME BaseInv, Crash
  PROVE  /\ req' \in [Requests -> Request] /\ UNCHANGED <<now, counters>>
         /\ \A r \in Requests :
              /\ req'[r].key = req[r].key /\ req'[r].ttl = req[r].ttl
              /\ req'[r].value = req[r].value /\ req'[r].late = req[r].late
              /\ req'[r].answer = req[r].answer
              /\ ~InFlight(r) => req'[r] = req[r]
              /\ InFlight(r) => req'[r].at = "dropped" /\ req'[r].hits = req[r].hits + 1
  <1> DEFINE D(r) == [req[r] EXCEPT !.at = "dropped"]
  <1>1. /\ req' = [r \in Requests |-> IF InFlight(r) THEN Hit(D(r)) ELSE req[r]]
        /\ UNCHANGED <<now, counters>>
    BY DEF Crash
  <1>2. req \in [Requests -> Request]
    BY Typed DEF BaseInv
  <1>3. ASSUME NEW r \in Requests
        PROVE  /\ D(r) \in Request /\ D(r).at = "dropped" /\ D(r).answer = req[r].answer
               /\ D(r).key = req[r].key /\ D(r).ttl = req[r].ttl
               /\ D(r).value = req[r].value /\ D(r).late = req[r].late
               /\ D(r).hits = req[r].hits
    BY <1>2, StagedFields DEF Stages
  <1> HIDE DEF D
  <1>4. ASSUME NEW r \in Requests
        PROVE  /\ Hit(D(r)) \in Request /\ Hit(D(r)).hits = req[r].hits + 1
               /\ Hit(D(r)).at = "dropped" /\ Hit(D(r)).answer = req[r].answer
               /\ Hit(D(r)).key = req[r].key /\ Hit(D(r)).ttl = req[r].ttl
               /\ Hit(D(r)).value = req[r].value /\ Hit(D(r)).late = req[r].late
    BY <1>3, HitFields
  <1>5. ASSUME NEW r \in Requests
        PROVE  req'[r] = IF InFlight(r) THEN Hit(D(r)) ELSE req[r]
    BY <1>1
  <1>6. ASSUME NEW r \in Requests PROVE req'[r] \in Request
    BY <1>2, <1>4, <1>5
  <1>7. req' \in [Requests -> Request]
    BY <1>1, <1>6
  <1> QED BY <1>1, <1>4, <1>5, <1>7

(* The common invariant holds at the start and is kept.                     *)
LEMMA BaseInit == Init => BaseInv
  <1> SUFFICES ASSUME Init PROVE BaseInv
    OBVIOUS
  <1>1. now = 0 /\ faults = 0 /\ 0 \in 0..MaxTime /\ 0 \in 0..MaxFaults
    BY BoundsAssumption DEF Init
  <1>2. Absent \in Counter /\ Absent.expires = Never
    BY DEF Absent, Counter, Never
  <1>3. counters \in [Keys -> Counter] /\ \A k \in Keys : counters[k].expires = Never
    BY <1>2 DEF Init
  <1>4. req \in [Requests -> Request] /\ \A r \in Requests : req[r] = Unsent
    BY UnsentTyped DEF Init
  <1>5. /\ Unsent.at = "unsent" /\ Unsent.key = <<>> /\ Unsent.hits = 0
        /\ Unsent.value = 0 /\ Unsent.answer = "none"
    BY DEF Unsent
  <1>6. Shape
    BY <1>4, <1>5 DEF Shape, ShapeOf
  <1> QED BY <1>1, <1>3, <1>4, <1>6, Typed DEF BaseInv, Expiries

(* The clock and the number of faults keep within their bounds.             *)
LEMMA BoundsKept ==
  ASSUME TypeOK, Next
  PROVE  now' \in 0..MaxTime /\ faults' \in 0..MaxFaults
  <1> USE BoundsAssumption
  <1>0. now \in 0..MaxTime /\ faults \in 0..MaxFaults
    BY DEF TypeOK
  <1>1. CASE Tick
    BY <1>0, <1>1 DEF Tick
  <1>2. CASE Crash
    BY <1>0, <1>2 DEF Crash
  <1>3. ASSUME NEW r \in Requests, NEW i \in Identifiers, NEW e \in Endpoints,
               NEW b \in Bodies, Arrive(r, i, e, b)
        PROVE  now' \in 0..MaxTime /\ faults' \in 0..MaxFaults
    <2>1. UNCHANGED <<now, counters, faults>>
      BY <1>3 DEF Arrive
    <2> QED BY <1>0, <2>1
  <1>4. ASSUME NEW r \in Requests, Handle(r)
        PROVE  now' \in 0..MaxTime /\ faults' \in 0..MaxFaults
    <2>1. now' = now /\ faults' = faults
      BY <1>4 DEF Handle, Eval, Incr, Expire, Answer
    <2> QED BY <1>0, <2>1
  <1>5. ASSUME NEW r \in Requests, NEW applied \in BOOLEAN,
               EvalFails(r, applied) \/ IncrFails(r, applied) \/ ExpireFails(r, applied)
        PROVE  now' \in 0..MaxTime /\ faults' \in 0..MaxFaults
    <2>1. now' = now /\ faults < MaxFaults /\ faults' = faults + 1
      BY <1>5 DEF EvalFails, IncrFails, ExpireFails
    <2> QED BY <1>0, <2>1
  <1> QED BY <1>1, <1>2, <1>3, <1>4, <1>5 DEF Next

(* The clock only takes counters away whose time has come.                  *)
LEMMA TickFields ==
  ASSUME BaseInv, Tick
  PROVE  /\ now' = now + 1 /\ req' = req /\ counters' \in [Keys -> Counter]
         /\ \A k \in Keys :
              \/ counters'[k] = counters[k]
              \/ /\ counters'[k] = Absent /\ counters[k].expires # Never
                 /\ counters[k].expires <= now'
  <1>1. counters \in [Keys -> Counter] /\ Absent \in Counter
    BY Typed DEF BaseInv, Absent, Never, Counter
  <1>2. counters' = [k \in Keys |-> IF Expired(counters[k], now') THEN Absent ELSE counters[k]]
    BY DEF Tick
  <1>3. counters' \in [Keys -> Counter]
    BY <1>1, <1>2
  <1>4. ASSUME NEW k \in Keys
        PROVE  \/ counters'[k] = counters[k]
               \/ /\ counters'[k] = Absent /\ counters[k].expires # Never
                  /\ counters[k].expires <= now'
    <2>1. counters'[k] = IF Expired(counters[k], now') THEN Absent ELSE counters[k]
      BY <1>2
    <2>2. CASE Expired(counters[k], now')
      BY <2>1, <2>2 DEF Expired
    <2>3. CASE ~Expired(counters[k], now')
      BY <2>1, <2>3
    <2> QED BY <2>2, <2>3
  <1>5. now' = now + 1 /\ req' = req
    BY DEF Tick
  <1> QED BY <1>3, <1>4, <1>5

(* A step of a request keeps what its stage says of it.                     *)
LEMMA ShapeAdvance ==
  ASSUME BaseInv, NEW r \in Requests, Advance(r)
  PROVE  ShapeOf(r)'
  <1>1. /\ Same(r) /\ req[r].at \notin {"unsent", "dropped", "answered"}
    BY AdvanceFacts
  <1>2. /\ req'[r].key = req[r].key /\ req'[r].ttl = req[r].ttl /\ now' = now
    BY <1>1 DEF Same
  <1>3. ShapeOf(r) /\ req[r].hits \in Nat
    BY <1>1, UnderWay DEF BaseInv, Shape, ShapeOf
  <1>4. /\ req[r].key \in Keys /\ req[r].ttl > 0
        /\ now + req[r].ttl >= WindowEnd(req[r].key)
    BY <1>1, <1>3 DEF ShapeOf
  <1>5. /\ req'[r].at # "unsent"
        /\ req'[r].at # "eval"
        /\ req'[r].at = "incr" => req'[r].hits >= 1
        /\ req'[r].at = "expire" => req'[r].hits >= 1
        /\ req'[r].at \in {"eval", "incr", "expire"} => req'[r].value = 0
        /\ req'[r].at # "answered" => req'[r].answer = "none"
    <2>1. CASE EvalDone(r)
      BY <2>1 DEF EvalDone, JudgedOn
    <2>2. CASE IncrDone(r)
      BY <1>3, <2>2 DEF IncrDone, JudgedOn, ShapeOf
    <2>3. CASE ExpireDone(r)
      BY <2>3 DEF ExpireDone, JudgedOn
    <2>4. CASE AnswerDone(r)
      BY <2>4 DEF AnswerDone
    <2>5. CASE EvalLost(r)
      BY <1>3, <2>5 DEF EvalLost, Lost, ShapeOf
    <2>6. CASE IncrLost(r)
      BY <2>6 DEF IncrLost, GoesOn
    <2>7. CASE ExpireLost(r)
      BY <2>7 DEF ExpireLost, GoesOn
    <2> QED BY <2>1, <2>2, <2>3, <2>4, <2>5, <2>6, <2>7 DEF Advance
  <1> QED BY <1>2, <1>4, <1>5 DEF ShapeOf

(* No step breaks the common invariant.                                     *)
LEMMA BaseStep ==
  ASSUME BaseInv, [Next]_vars
  PROVE  BaseInv'
  <1>0. /\ now \in Nat /\ counters \in [Keys -> Counter] /\ req \in [Requests -> Request]
        /\ \A r \in Requests : ShapeOf(r)
    BY Typed, BoundsAssumption DEF BaseInv, Shape, ShapeOf
  <1>1. CASE UNCHANGED vars
    BY <1>1 DEF BaseInv, TypeOK, Shape, ShapeOf, Expiries, vars
  <1>2. ASSUME Next, req' \in [Requests -> Request], counters' \in [Keys -> Counter]
        PROVE  TypeOK'
    BY <1>2, BoundsKept, Typed DEF BaseInv, TypeOK, Counter, Request
  <1>3. ASSUME \A s \in Requests : ShapeOf(s)' PROVE Shape'
    BY <1>3 DEF ShapeOf, Shape
  <1>4. CASE Next /\ Tick
    <2>1. /\ now' = now + 1 /\ req' = req /\ counters' \in [Keys -> Counter]
          /\ \A k \in Keys : counters'[k] \in {counters[k], Absent}
      BY <1>4, TickFields
    <2>2. ASSUME NEW s \in Requests PROVE ShapeOf(s)'
      <3>1. req[s] \in Request
        BY <1>0
      <3>2. req[s].ttl \in Nat
        BY <3>1 DEF Request
      <3>3. req[s].key \in Keys => WindowEnd(req[s].key) \in Nat
        BY WindowEndTyped
      <3> QED BY <1>0, <2>1, <3>2, <3>3 DEF ShapeOf
    <2>3. Expiries'
      <3>1. Absent.expires = Never
        BY DEF Absent
      <3> QED BY <2>1, <3>1 DEF Expiries, BaseInv
    <2> QED BY <1>0, <1>2, <1>3, <1>4, <2>1, <2>2, <2>3 DEF BaseInv
  <1>5. CASE Next /\ Crash
    <2>1. /\ req' \in [Requests -> Request] /\ now' = now /\ counters' = counters
          /\ \A r \in Requests :
              /\ req'[r].key = req[r].key /\ req'[r].ttl = req[r].ttl
              /\ req'[r].value = req[r].value /\ req'[r].answer = req[r].answer
              /\ ~InFlight(r) => req'[r] = req[r]
              /\ InFlight(r) => req'[r].at = "dropped"
      BY <1>5, CrashFields
    <2>2. ASSUME NEW s \in Requests PROVE ShapeOf(s)'
      <3>1. ShapeOf(s)
        BY <1>0
      <3>2. CASE InFlight(s)
        BY <2>1, <3>1, <3>2 DEF ShapeOf, InFlight
      <3>3. CASE ~InFlight(s)
        BY <2>1, <3>1, <3>3 DEF ShapeOf
      <3> QED BY <3>2, <3>3
    <2>3. Expiries'
      BY <2>1 DEF Expiries, BaseInv
    <2> QED BY <1>0, <1>2, <1>3, <1>5, <2>1, <2>2, <2>3 DEF BaseInv
  <1>6. ASSUME Next, NEW r \in Requests, NEW i \in Identifiers, NEW e \in Endpoints,
               NEW b \in Bodies, Arrive(r, i, e, b)
        PROVE  BaseInv'
    <2>1. /\ req' \in [Requests -> Request]
          /\ \A s \in Requests : s # r => req'[s] = req[s]
          /\ req'[r].at = "eval" /\ req'[r].key \in Keys /\ req'[r].ttl > 0
          /\ now + req'[r].ttl >= WindowEnd(req'[r].key)
          /\ req'[r].hits = 0 /\ req'[r].value = 0 /\ req'[r].answer = "none"
          /\ UNCHANGED <<now, counters, faults>>
      BY <1>6, ArriveShape
    <2>2. ShapeOf(r)'
      BY <2>1 DEF ShapeOf
    <2>3. ASSUME NEW s \in Requests, s # r PROVE ShapeOf(s)'
      BY <1>0, <2>1, <2>3 DEF ShapeOf
    <2>4. Expiries'
      BY <2>1 DEF Expiries, BaseInv
    <2> QED BY <1>0, <1>2, <1>3, <1>6, <2>1, <2>2, <2>3, <2>4 DEF BaseInv
  <1>7. ASSUME Next, NEW r \in Requests, Advance(r)
        PROVE  BaseInv'
    <2>0. /\ Same(r) /\ req[r].at # "unsent"
          /\ NewValue(r) \in {Value(r), Value(r) + 1}
          /\ \/ NewExpires(r) = Expires(r)
             \/ NewExpires(r) = now + req[r].ttl /\ NewValue(r) > 0
      BY <1>7, AdvanceFacts
    <2>1. ShapeOf(r)'
      BY <1>7, ShapeAdvance
    <2>2. ASSUME NEW s \in Requests, s # r PROVE ShapeOf(s)'
      <3>1. req'[s] = req[s] /\ now' = now
        BY <2>0, <2>2 DEF Same
      <3> QED BY <1>0, <3>1 DEF ShapeOf
    <2>3. ASSUME NEW k \in Keys, counters'[k].expires # Never
          PROVE  counters'[k].value > 0 /\ counters'[k].expires >= WindowEnd(k)
      <3>1. CASE k = req[r].key
        <4>1. /\ now + req[r].ttl >= WindowEnd(k) /\ Value(r) \in Nat
          BY <2>0, <3>1, UnderWay DEF Value
        <4>2. Expires(r) # Never => Value(r) > 0 /\ Expires(r) >= WindowEnd(k)
          BY <3>1 DEF BaseInv, Expiries, Value, Expires
        <4> QED BY <2>0, <2>3, <3>1, <4>1, <4>2 DEF NewValue, NewExpires
      <3>2. CASE k # req[r].key
        <4>1. counters'[k] = counters[k]
          BY <2>0, <3>2 DEF Same
        <4> QED BY <2>3, <4>1 DEF BaseInv, Expiries
      <3> QED BY <3>1, <3>2
    <2>4. Expiries'
      BY <2>3 DEF Expiries
    <2>5. req' \in [Requests -> Request] /\ counters' \in [Keys -> Counter]
      BY <2>0 DEF Same
    <2> QED BY <1>2, <1>3, <1>7, <2>1, <2>2, <2>4, <2>5 DEF BaseInv
  <1>8. CASE Next
    BY <1>4, <1>5, <1>6, <1>7, <1>8, NextCases
  <1> QED BY <1>1, <1>8

-----------------------------------------------------------------------------
(* Counters without an expiry.                                              *)
LeakInv == BaseInv /\ LeakNeedsTwoFaults

(* s answers for counter k having no expiry.                                *)
AnswersFor(s, k) == req[s].key = k /\ (req[s].at = "expire" \/ req[s].hits >= 2)

(* No step leaves a counter without expiry that nobody answers for.         *)
LEMMA LeakStep ==
  ASSUME LeakInv, [Next]_vars
  PROVE  LeakNeedsTwoFaults'
  <1> SUFFICES ASSUME NEW k \in Keys, counters'[k].value > 0, counters'[k].expires = Never
               PROVE  \E s \in Requests : AnswersFor(s, k)'
    BY DEF LeakNeedsTwoFaults, Of, AnswersFor
  <1>0. BaseInv
    BY DEF LeakInv
  <1>1. counters[k].value > 0 /\ counters[k].expires = Never
          => \E s \in Requests : AnswersFor(s, k)
    BY DEF LeakInv, LeakNeedsTwoFaults, Of, AnswersFor
  <1>2. \A s \in Requests : req[s] \in Request /\ req[s].hits \in Nat /\ ShapeOf(s)
    <2>1. \A s \in Requests : req[s] \in Request /\ ShapeOf(s)
      BY <1>0, Typed DEF BaseInv, Shape, ShapeOf
    <2> QED BY <2>1 DEF Request
  <1>3. CASE UNCHANGED vars
    BY <1>1, <1>3 DEF vars, AnswersFor
  <1>4. CASE Tick
    <2>1. req' = req /\ (counters'[k] = counters[k] \/ counters'[k] = Absent)
      BY <1>0, <1>4, TickFields
    <2>2. Absent.value = 0
      BY DEF Absent
    <2> QED BY <1>1, <2>1, <2>2 DEF AnswersFor
  <1>5. CASE Crash
    <2>1. /\ counters' = counters
          /\ \A s \in Requests :
              /\ req'[s].key = req[s].key
              /\ ~InFlight(s) => req'[s] = req[s]
              /\ InFlight(s) => req'[s].at = "dropped" /\ req'[s].hits = req[s].hits + 1
      BY <1>0, <1>5, CrashFields
    <2>2. PICK s \in Requests : AnswersFor(s, k)
      BY <1>1, <2>1
    <2>3. CASE InFlight(s)
      BY <1>2, <2>1, <2>2, <2>3 DEF AnswersFor, ShapeOf
    <2>4. CASE ~InFlight(s)
      BY <2>1, <2>2, <2>4 DEF AnswersFor
    <2> QED BY <2>3, <2>4
  <1>6. ASSUME NEW r \in Requests, NEW i \in Identifiers, NEW e \in Endpoints,
               NEW b \in Bodies, Arrive(r, i, e, b)
        PROVE  \E s \in Requests : AnswersFor(s, k)'
    <2>1. /\ req[r].at = "unsent" /\ counters' = counters
          /\ \A s \in Requests : s # r => req'[s] = req[s]
      BY <1>0, <1>6, ArriveShape
    <2>2. PICK s \in Requests : AnswersFor(s, k)
      BY <1>1, <2>1
    <2>3. s # r
      BY <1>2, <2>1, <2>2 DEF AnswersFor, ShapeOf
    <2> QED BY <2>1, <2>2, <2>3 DEF AnswersFor
  <1>7. ASSUME NEW r \in Requests, Advance(r)
        PROVE  \E s \in Requests : AnswersFor(s, k)'
    <2>0. /\ Same(r) /\ req[r].at \notin {"unsent", "dropped", "answered"}
          /\ req[r].key \in Keys /\ Value(r) \in Nat /\ Expires(r) \in Nat
          /\ now \in Nat /\ req[r].ttl \in Nat /\ req[r].ttl > 0
      BY <1>0, <1>7, AdvanceFacts, UnderWay DEF Value, Expires
    <2>1. ASSUME NEW s \in Requests, AnswersFor(s, k), s # r PROVE AnswersFor(s, k)'
      BY <2>0, <2>1 DEF Same, AnswersFor
    <2>2. CASE req[r].key # k
      <3>1. counters'[k] = counters[k]
        BY <2>0, <2>2 DEF Same
      <3>2. PICK s \in Requests : AnswersFor(s, k)
        BY <1>1, <3>1
      <3>3. s # r
        BY <2>2, <3>2 DEF AnswersFor
      <3> QED BY <2>1, <3>2, <3>3
    <2>3. CASE req[r].key = k
      <3>0. /\ NewValue(r) > 0 /\ NewExpires(r) = Never
            /\ Value(r) > 0 /\ Expires(r) = Never => \E s \in Requests : AnswersFor(s, k)
            /\ req'[r].key = k
        BY <1>1, <2>0, <2>3 DEF Value, NewValue, Expires, NewExpires, Same
      <3>a. ASSUME AnswersFor(r, k)', AnswersFor(r, k) \/ TRUE
            PROVE  \E s \in Requests : AnswersFor(s, k)'
        BY <3>a
      <3>b. ASSUME Value(r) > 0, Expires(r) = Never, AnswersFor(r, k) => AnswersFor(r, k)'
            PROVE  \E s \in Requests : AnswersFor(s, k)'
        BY <2>1, <3>0, <3>b
      <3>1. CASE EvalDone(r)
        <4>1. ~AnswersFor(r, k)
          BY <1>2, <3>1 DEF EvalDone, AnswersFor, ShapeOf
        <4> QED BY <2>0, <3>0, <3>1, <3>b, <4>1 DEF EvalDone, Never
      <3>2. CASE IncrDone(r)
        <4>1. CASE Value(r) = 0
          BY <3>0, <3>2, <3>a, <4>1 DEF IncrDone, AnswersFor
        <4>2. CASE Value(r) # 0
          <5>1. AnswersFor(r, k) => AnswersFor(r, k)'
            BY <3>0, <3>2, <4>2 DEF IncrDone, JudgedOn, AnswersFor
          <5> QED BY <2>0, <3>0, <3>2, <3>b, <4>2, <5>1 DEF IncrDone
        <4> QED BY <4>1, <4>2
      <3>3. CASE ExpireDone(r)
        <4>1. counters[k] = Absent
          BY <2>0, <2>3, <3>0, <3>3 DEF ExpireDone, ExpireSet, Never
        <4>2. Value(r) = 0
          BY <2>3, <4>1 DEF Value, Absent
        <4> QED BY <3>0, <3>3, <4>2 DEF ExpireDone, ExpireSet
      <3>4. CASE AnswerDone(r)
        <4>1. Value(r) > 0 /\ Expires(r) = Never
          BY <2>3, <3>0, <3>4 DEF AnswerDone, Value, NewValue, Expires, NewExpires
        <4>2. AnswersFor(r, k) => AnswersFor(r, k)'
          BY <3>0, <3>4 DEF AnswerDone, AnswersFor
        <4> QED BY <3>b, <4>1, <4>2
      <3>5. CASE EvalLost(r)
        <4>1. ~AnswersFor(r, k)
          BY <1>2, <3>5 DEF EvalLost, AnswersFor, ShapeOf
        <4> QED BY <2>0, <3>0, <3>5, <3>b, <4>1 DEF EvalLost, Never
      <3>6. CASE IncrLost(r)
        <4>1. AnswersFor(r, k)'
          BY <1>2, <3>0, <3>6 DEF IncrLost, Lost, AnswersFor, ShapeOf
        <4> QED BY <4>1
      <3>7. CASE ExpireLost(r)
        <4>1. AnswersFor(r, k)'
          BY <1>2, <3>0, <3>7 DEF ExpireLost, Lost, AnswersFor, ShapeOf
        <4> QED BY <4>1
      <3> QED BY <1>7, <3>1, <3>2, <3>3, <3>4, <3>5, <3>6, <3>7 DEF Advance
    <2> QED BY <2>2, <2>3
  <1>8. CASE Next
    BY <1>0, <1>4, <1>5, <1>6, <1>7, <1>8, NextCases
  <1> QED BY <1>3, <1>8

(* The place in the count a request holds in its window: the one it was     *)
(* told or, while it is about to set the expiry, the first.                 *)
Holds(r) ==
  \/ req[r].value > 0 /\ req[r].late = FALSE
  \/ req[r].at = "expire" /\ now < WindowEnd(req[r].key)

Place(r) == IF req[r].at = "expire" THEN 1 ELSE req[r].value

(* Nobody holds a place beyond the counter, and no two the same.            *)
Below(r) ==
  Holds(r) /\ now < WindowEnd(req[r].key) => Place(r) <= counters[req[r].key].value
Differ(r, s) ==
  Holds(r) /\ Holds(s) /\ req[r].key = req[s].key => Place(r) # Place(s)

Places ==
  /\ \A r \in Requests : Below(r)
  /\ \A r, s \in Requests : r # s => Differ(r, s)

(* Who is not refused has a place within the limit.                         *)
WithinLimit(r) ==
  req[r].value > 0 /\ req[r].answer # "refused" => req[r].value <= Limit[req[r].key[1]]

Sent == {r \in Requests : req[r].at # "unsent"}

LimitInv ==
  /\ BaseInv /\ IsFiniteSet(Sent) /\ Places
  /\ \A r \in Requests : WithinLimit(r)

(* The place r holds after its step it held before, or it is the next one.  *)
HoldsOrNext(r) ==
  Holds(r)' => \/ Holds(r) /\ Place(r)' = Place(r)
               \/ Place(r)' = Value(r) + 1 /\ NewValue(r) = Value(r) + 1
                  /\ now < WindowEnd(req[r].key)

(* A step of a request gives it no place but the next.                      *)
LEMMA AdvanceHolds ==
  ASSUME BaseInv, NEW r \in Requests, Advance(r)
  PROVE  HoldsOrNext(r)
  <1>0. /\ Same(r) /\ req[r].at # "unsent"
    BY AdvanceFacts
  <1>1. /\ now' = now /\ req'[r].key = req[r].key
    BY <1>0 DEF Same
  <1>2. /\ req[r].at = "eval" \/ req[r].at = "incr" \/ req[r].at = "expire" => req[r].value = 0
        /\ req[r].key \in Keys /\ now \in Nat /\ Value(r) \in Nat
    BY <1>0, UnderWay DEF BaseInv, Shape, ShapeOf, Value
  <1>3. WindowEnd(req[r].key) \in Nat
    BY <1>2, WindowEndTyped
  <1>4. CASE EvalDone(r)
    <2>1. /\ req'[r].value = Value(r) + 1
          /\ req'[r].late = FALSE => ~(now >= WindowEnd(req[r].key))
          /\ req'[r].at # "expire" /\ NewValue(r) = Value(r) + 1
      BY <1>4 DEF EvalDone, JudgedOn
    <2> QED BY <1>1, <1>2, <1>3, <2>1 DEF HoldsOrNext, Holds, Place
  <1>5. CASE IncrDone(r)
    <2>1. CASE Value(r) = 0
      <3>1. req'[r].at = "expire" /\ req'[r].value = 0 /\ NewValue(r) = Value(r) + 1
        BY <1>2, <1>5, <2>1 DEF IncrDone
      <3> QED BY <1>1, <2>1, <3>1 DEF HoldsOrNext, Holds, Place
    <2>2. CASE Value(r) # 0
      <3>1. /\ req'[r].value = Value(r) + 1
            /\ req'[r].late = FALSE => ~(now >= WindowEnd(req[r].key))
            /\ req'[r].at # "expire" /\ NewValue(r) = Value(r) + 1
        BY <1>5, <2>2 DEF IncrDone, JudgedOn
      <3> QED BY <1>1, <1>2, <1>3, <3>1 DEF HoldsOrNext, Holds, Place
    <2> QED BY <2>1, <2>2
  <1>6. CASE ExpireDone(r)
    <2>1. /\ req'[r].value = 1 /\ (req'[r].late = FALSE => ~(now >= WindowEnd(req[r].key)))
          /\ req'[r].at # "expire" /\ req[r].at = "expire"
      BY <1>6 DEF ExpireDone, JudgedOn
    <2> QED BY <1>1, <1>2, <1>3, <2>1 DEF HoldsOrNext, Holds, Place
  <1>7. CASE AnswerDone(r)
    BY <1>7 DEF AnswerDone, HoldsOrNext, Holds, Place
  <1>8. CASE EvalLost(r)
    BY <1>2, <1>8 DEF EvalLost, HoldsOrNext, Holds
  <1>9. CASE IncrLost(r)
    BY <1>2, <1>9 DEF IncrLost, GoesOn, HoldsOrNext, Holds
  <1>10. CASE ExpireLost(r)
    BY <1>2, <1>10 DEF ExpireLost, GoesOn, HoldsOrNext, Holds
  <1> QED BY <1>4, <1>5, <1>6, <1>7, <1>8, <1>9, <1>10 DEF Advance

(* A step of a request lets it pass only within the limit.                  *)
LEMMA AdvanceWithin ==
  ASSUME BaseInv, NEW r \in Requests, Advance(r), WithinLimit(r)
  PROVE  WithinLimit(r)'
  <1>0. /\ Same(r) /\ req[r].at # "unsent" /\ req[r].at # "answered"
    BY AdvanceFacts
  <1>1. req'[r].key = req[r].key
    BY <1>0 DEF Same
  <1>2. /\ req[r].at = "eval" \/ req[r].at = "incr" \/ req[r].at = "expire" => req[r].value = 0
        /\ req[r].answer = "none" /\ req[r].key \in Keys /\ Value(r) \in Nat
    BY <1>0, UnderWay DEF BaseInv, Shape, ShapeOf, Value
  <1>3. Limit[req[r].key[1]] \in Nat
    BY <1>2, WindowEndTyped
  <1>a. ASSUME NEW v \in Nat, JudgedOn(r, v) PROVE WithinLimit(r)'
    BY <1>1, <1>3, <1>a DEF JudgedOn, WithinLimit
  <1>4. CASE EvalDone(r)
    BY <1>2, <1>4, <1>a DEF EvalDone
  <1>5. CASE IncrDone(r)
    <2>1. CASE Value(r) = 0
      BY <1>2, <1>5, <2>1 DEF IncrDone, WithinLimit
    <2>2. CASE Value(r) # 0
      BY <1>2, <1>5, <2>2, <1>a DEF IncrDone
    <2> QED BY <2>1, <2>2
  <1>6. CASE ExpireDone(r)
    BY <1>6, <1>a DEF ExpireDone
  <1>7. CASE AnswerDone(r)
    BY <1>1, <1>2, <1>7 DEF AnswerDone, WithinLimit
  <1>8. CASE EvalLost(r)
    BY <1>2, <1>8 DEF EvalLost, WithinLimit
  <1>9. CASE IncrLost(r)
    BY <1>2, <1>9 DEF IncrLost, GoesOn, WithinLimit
  <1>10. CASE ExpireLost(r)
    BY <1>2, <1>10 DEF ExpireLost, GoesOn, WithinLimit
  <1> QED BY <1>4, <1>5, <1>6, <1>7, <1>8, <1>9, <1>10 DEF Advance

(* A step of r leaves what the others hold.                                 *)
LEMMA OthersHold ==
  ASSUME NEW r \in Requests, Same(r), NEW s \in Requests, s # r
  PROVE  /\ Holds(s)' <=> Holds(s)
         /\ Place(s)' = Place(s)
         /\ WithinLimit(s) => WithinLimit(s)'
         /\ req'[s].key = req[s].key
  BY DEF Same, Holds, Place, WithinLimit

(* A step of a request keeps the places apart.                              *)
LEMMA PlacesAdvance ==
  ASSUME BaseInv, Places, NEW r \in Requests, Advance(r)
  PROVE  Places'
  <1>0. /\ Same(r) /\ req[r].at # "unsent" /\ NewValue(r) \in {Value(r), Value(r) + 1}
        /\ HoldsOrNext(r)
    BY AdvanceFacts, AdvanceHolds
  <1>1. /\ now' = now /\ req'[r].key = req[r].key /\ Value(r) \in Nat /\ req[r].key \in Keys
        /\ now \in Nat
    BY <1>0, UnderWay DEF Same, Value
  <1>2. \A s \in Requests : Place(s) \in Nat /\ (req[s].at # "unsent" => req[s].key \in Keys)
    <2>1. ASSUME NEW s \in Requests PROVE Place(s) \in Nat
      <3>1. req[s] \in Request
        BY Typed DEF BaseInv
      <3> QED BY <3>1 DEF Place, Request
    <2> QED BY <2>1 DEF BaseInv, Shape, ShapeOf
  <1>h. ASSUME NEW s \in Requests, Holds(s) PROVE req[s].key \in Keys
    BY <1>h DEF BaseInv, Shape, ShapeOf, Holds
  <1>3. Below(r)'
    <2> SUFFICES ASSUME Holds(r)', now < WindowEnd(req[r].key)
                 PROVE  Place(r)' <= NewValue(r)
      BY <1>1 DEF Below, NewValue
    <2>1. Holds(r) => Place(r) <= Value(r)
      BY DEF Places, Below, Value
    <2> QED BY <1>0, <1>1, <1>2, <2>1 DEF HoldsOrNext
  <1>4. ASSUME NEW s \in Requests, s # r PROVE Below(s)'
    <2>1. /\ Holds(s)' <=> Holds(s)
          /\ Place(s)' = Place(s) /\ req'[s].key = req[s].key
      BY <1>0, <1>4, OthersHold
    <2> SUFFICES ASSUME Holds(s), now < WindowEnd(req[s].key)
                 PROVE  Place(s) <= counters'[req[s].key].value
      BY <1>1, <2>1 DEF Below
    <2>2. Place(s) <= counters[req[s].key].value
      BY DEF Places, Below
    <2>3. req[s].key \in Keys
      BY <1>h
    <2>4. CASE req[s].key = req[r].key
      BY <1>0, <1>1, <1>2, <2>2, <2>4 DEF Value, NewValue
    <2>5. CASE req[s].key # req[r].key
      BY <1>0, <2>2, <2>3, <2>5 DEF Same
    <2> QED BY <2>4, <2>5
  <1>5. ASSUME NEW s \in Requests, s # r PROVE Differ(r, s)'
    <2>1. /\ Holds(s)' <=> Holds(s)
          /\ Place(s)' = Place(s) /\ req'[s].key = req[s].key
      BY <1>0, <1>5, OthersHold
    <2> SUFFICES ASSUME Holds(r)', Holds(s), req[r].key = req[s].key
                 PROVE  Place(r)' # Place(s)
      BY <1>1, <2>1 DEF Differ
    <2>2. CASE Holds(r) /\ Place(r)' = Place(r)
      BY <1>5, <2>2 DEF Places, Differ
    <2>3. CASE Place(r)' = Value(r) + 1 /\ now < WindowEnd(req[r].key)
      <3>1. Place(s) <= Value(r)
        BY <2>3 DEF Places, Below, Value
      <3> QED BY <1>1, <1>2, <2>3, <3>1
    <2> QED BY <1>0, <2>2, <2>3 DEF HoldsOrNext
  <1>6. ASSUME NEW s \in Requests, NEW t \in Requests, s # r, t # r, s # t PROVE Differ(s, t)'
    <2>1. /\ Holds(s)' <=> Holds(s)
          /\ Place(s)' = Place(s) /\ req'[s].key = req[s].key
          /\ Holds(t)' <=> Holds(t)
          /\ Place(t)' = Place(t) /\ req'[t].key = req[t].key
      BY <1>0, <1>6, OthersHold
    <2> QED BY <1>6, <2>1 DEF Places, Differ
  <1>7. ASSUME NEW s \in Requests, s # r PROVE Differ(s, r)'
    BY <1>5, <1>7 DEF Differ
  <1> QED BY <1>3, <1>4, <1>5, <1>6, <1>7 DEF Places

(* So does the clock: counters that go away have no window left.            *)
LEMMA PlacesTick ==
  ASSUME BaseInv, Places, Tick
  PROVE  Places'
  <1>1. /\ now' = now + 1 /\ req' = req /\ now \in Nat
        /\ \A k \in Keys :
             \/ counters'[k] = counters[k]
             \/ counters[k].expires # Never /\ counters[k].expires <= now'
    BY TickFields, Typed, BoundsAssumption DEF BaseInv
  <1>2. ASSUME NEW r \in Requests, Holds(r)
        PROVE  req[r].key \in Keys /\ WindowEnd(req[r].key) \in Nat
    <2>1. req[r].key \in Keys
      BY <1>2 DEF BaseInv, Shape, ShapeOf, Holds
    <2> QED BY <2>1, WindowEndTyped
  <1>3. ASSUME NEW r \in Requests PROVE Place(r)' = Place(r) /\ (Holds(r)' => Holds(r))
    <2>1. Place(r)' = Place(r)
      BY <1>1 DEF Place
    <2>2. ASSUME req[r].at = "expire", now + 1 < WindowEnd(req[r].key)
          PROVE  now < WindowEnd(req[r].key)
      <3>1. req[r].key \in Keys
        BY <2>2 DEF BaseInv, Shape, ShapeOf
      <3> QED BY <1>1, <2>2, <3>1, WindowEndTyped
    <2>3. Holds(r)' => Holds(r)
      BY <1>1, <2>2 DEF Holds
    <2> QED BY <2>1, <2>3
  <1>4. ASSUME NEW r \in Requests PROVE Below(r)'
    <2> SUFFICES ASSUME Holds(r)', now + 1 < WindowEnd(req[r].key)
                 PROVE  Place(r) <= counters'[req[r].key].value
      BY <1>1, <1>3 DEF Below
    <2>1. Holds(r) /\ req[r].key \in Keys /\ WindowEnd(req[r].key) \in Nat
      BY <1>2, <1>3
    <2>2. counters[req[r].key].expires \in Nat
      BY <2>1, Typed DEF BaseInv, Counter
    <2>3. counters'[req[r].key] = counters[req[r].key]
      BY <1>1, <2>1, <2>2 DEF BaseInv, Expiries
    <2> QED BY <1>1, <2>1, <2>3 DEF Places, Below
  <1>5. ASSUME NEW r \in Requests, NEW s \in Requests, r # s PROVE Differ(r, s)'
    <2>1. Differ(r, s)
      BY <1>5 DEF Places
    <2> QED BY <1>1, <1>3, <2>1 DEF Differ
  <1> QED BY <1>4, <1>5 DEF Places

(* So does every step that gives nobody a place.                            *)
LEMMA PlacesOfOthers ==
  ASSUME Places, UNCHANGED <<now, counters>>,
         \A r \in Requests : Holds(r)' => /\ Holds(r) /\ Place(r)' = Place(r)
                                          /\ req'[r].key = req[r].key
  PROVE  Places'
  <1>1. ASSUME NEW r \in Requests PROVE Below(r)'
    BY DEF Places, Below
  <1>2. ASSUME NEW r \in Requests, NEW s \in Requests, r # s PROVE Differ(r, s)'
    BY <1>2 DEF Places, Differ
  <1> QED BY <1>1, <1>2 DEF Places

(* The invariant of the limit holds at the start and is kept.               *)
LEMMA LimitInit == Init => LimitInv
  <1> SUFFICES ASSUME Init PROVE LimitInv
    OBVIOUS
  <1>1. \A r \in Requests : req[r] = Unsent
    BY DEF Init
  <1>2. \A r \in Requests : req[r].at = "unsent" /\ req[r].value = 0
    BY <1>1 DEF Unsent
  <1>3. Sent = {}
    BY <1>2 DEF Sent
  <1>4. \A r \in Requests : ~Holds(r) /\ WithinLimit(r)
    BY <1>2 DEF Holds, WithinLimit
  <1> QED BY <1>3, <1>4, BaseInit, FS_EmptySet DEF LimitInv, Places, Below, Differ

(* Only a request that arrives is sent.                                     *)
LEMMA SentStep ==
  ASSUME BaseInv, IsFiniteSet(Sent), [Next]_vars
  PROVE  IsFiniteSet(Sent')
  <1>a. ASSUME \A s \in Requests : req[s].at = "unsent" => req'[s].at = "unsent"
        PROVE  IsFiniteSet(Sent')
    <2>1. Sent' \subseteq Sent
      BY <1>a DEF Sent
    <2> QED BY <2>1, FS_Subset
  <1>1. CASE UNCHANGED vars
    BY <1>1, <1>a DEF vars
  <1>2. CASE Tick
    BY <1>2, <1>a DEF Tick
  <1>3. CASE Crash
    BY <1>3, <1>a, CrashFields DEF InFlight
  <1>4. ASSUME NEW r \in Requests, NEW i \in Identifiers, NEW e \in Endpoints,
               NEW b \in Bodies, Arrive(r, i, e, b)
        PROVE  IsFiniteSet(Sent')
    <2>1. \A s \in Requests : s # r => req'[s] = req[s]
      BY <1>4, ArriveShape
    <2>2. Sent' \subseteq Sent \cup {r}
      BY <2>1 DEF Sent
    <2>3. IsFiniteSet(Sent \cup {r})
      BY FS_AddElement
    <2> QED BY <2>2, <2>3, FS_Subset
  <1>5. ASSUME NEW r \in Requests, Advance(r) PROVE IsFiniteSet(Sent')
    <2>1. /\ req[r].at # "unsent"
          /\ \A s \in Requests : s # r => req'[s] = req[s]
      BY <1>5, AdvanceFacts DEF Same
    <2> QED BY <2>1, <1>a
  <1> QED BY <1>1, <1>2, <1>3, <1>4, <1>5, NextCases

(* No step breaks the invariant of the limit.                               *)
LEMMA LimitStep ==
  ASSUME LimitInv, [Next]_vars
  PROVE  LimitInv'
  <1>0. BaseInv /\ Places /\ (\A s \in Requests : WithinLimit(s)) /\ BaseInv'
        /\ IsFiniteSet(Sent')
    BY BaseStep, SentStep DEF LimitInv
  <1>1. CASE UNCHANGED vars
    BY <1>0, <1>1
       DEF LimitInv, Places, Below, Differ, Holds, Place, WithinLimit, vars
  <1>2. CASE Tick
    <2>1. req' = req
      BY <1>2 DEF Tick
    <2>2. \A s \in Requests : WithinLimit(s)'
      BY <1>0, <2>1 DEF WithinLimit
    <2> QED BY <1>0, <1>2, <2>2, PlacesTick DEF LimitInv
  <1>3. CASE Crash
    <2>1. /\ UNCHANGED <<now, counters>>
          /\ \A r \in Requests :
              /\ req'[r].key = req[r].key
              /\ req'[r].value = req[r].value /\ req'[r].late = req[r].late
              /\ req'[r].answer = req[r].answer
              /\ ~InFlight(r) => req'[r] = req[r]
              /\ InFlight(r) => req'[r].at = "dropped"
      BY <1>0, <1>3, CrashFields
    <2>2. ASSUME NEW r \in Requests, Holds(r)'
          PROVE  Holds(r) /\ Place(r)' = Place(r) /\ req'[r].key = req[r].key
      <3>1. req[r].at = "expire" => req[r].value = 0
        BY <1>0 DEF BaseInv, Shape, ShapeOf
      <3>2. CASE InFlight(r)
        <4>1. req'[r].value > 0 /\ req'[r].late = FALSE /\ req'[r].at = "dropped"
          BY <2>1, <2>2, <3>2 DEF Holds
        <4>2. req[r].value > 0 /\ req[r].late = FALSE /\ req[r].at # "expire"
          BY <2>1, <3>1, <4>1
        <4> QED BY <2>1, <4>1, <4>2 DEF Holds, Place
      <3>3. CASE ~InFlight(r)
        BY <2>1, <2>2, <3>3 DEF Holds, Place
      <3> QED BY <3>2, <3>3
    <2>3. Places'
      BY <1>0, <2>1, <2>2, PlacesOfOthers
    <2>4. \A s \in Requests : WithinLimit(s)'
      BY <1>0, <2>1 DEF WithinLimit
    <2> QED BY <1>0, <2>3, <2>4 DEF LimitInv
  <1>4. ASSUME NEW r \in Requests, NEW i \in Identifiers, NEW e \in Endpoints,
               NEW b \in Bodies, Arrive(r, i, e, b)
        PROVE  LimitInv'
    <2>1. /\ UNCHANGED <<now, counters>> /\ req'[r].at = "eval" /\ req'[r].value = 0
          /\ \A s \in Requests : s # r => req'[s] = req[s]
      BY <1>0, <1>4, ArriveShape
    <2>2. ~Holds(r)' /\ WithinLimit(r)'
      BY <2>1 DEF Holds, WithinLimit
    <2>3. ASSUME NEW s \in Requests, s # r
          PROVE  /\ Holds(s)' => Holds(s) /\ Place(s)' = Place(s) /\ req'[s].key = req[s].key
                 /\ WithinLimit(s)'
      BY <1>0, <2>1, <2>3 DEF Holds, Place, WithinLimit
    <2>4. Places'
      BY <1>0, <2>1, <2>2, <2>3, PlacesOfOthers
    <2> QED BY <1>0, <2>2, <2>3, <2>4 DEF LimitInv
  <1>5. ASSUME NEW r \in Requests, Advance(r) PROVE LimitInv'
    <2>1. Places' /\ WithinLimit(r)' /\ Same(r)
      BY <1>0, <1>5, PlacesAdvance, AdvanceWithin, AdvanceFacts
    <2>2. \A s \in Requests : WithinLimit(s)'
      BY <1>0, <2>1, OthersHold
    <2> QED BY <1>0, <2>1, <2>2 DEF LimitInv
  <1>6. CASE Next
    BY <1>0, <1>2, <1>3, <1>4, <1>5, <1>6, NextCases
  <1> QED BY <1>1, <1>6

(* There are n numbers up to n.                                             *)
LEMMA UpTo ==
  ASSUME NEW n \in Nat
  PROVE  IsFiniteSet(1..n) /\ Cardinality(1..n) = n
  <1>1. /\ IsFiniteSet(1..n)
        /\ Cardinality(1..n) = IF 1 > n THEN 0 ELSE n - 1 + 1
    BY FS_Interval
  <1>2. (IF 1 > n THEN 0 ELSE n - 1 + 1) = n
    OBVIOUS
  <1> QED BY <1>1, <1>2

(* Those who passed in a window hold different places up to the limit.      *)
LEMMA LimitImplied == LimitInv => LimitKept
  <1> SUFFICES ASSUME LimitInv, NEW k \in Keys
               PROVE  Cardinality(Of(k) \cap Passed) <= Limit[k[1]]
    BY DEF LimitKept
  <1> DEFINE S == Of(k) \cap Passed
             n == Limit[k[1]]
             f == [r \in S |-> req[r].value]
  <1>1. n \in Nat
    BY WindowEndTyped
  <1>2. IsFiniteSet(1..n) /\ Cardinality(1..n) = n
    BY <1>1, UpTo
  <1>3. ASSUME NEW r \in S
        PROVE  /\ r \in Requests /\ req[r].key = k /\ Holds(r) /\ Place(r) = req[r].value
               /\ req[r].value \in 1..n
    <2>1. /\ r \in Requests /\ req[r].key = k /\ req[r].value > 0 /\ ~req[r].late
          /\ req[r].answer # "refused"
      BY DEF Of, Passed, Refused
    <2>2. req[r] \in Request
      BY <2>1, Typed DEF LimitInv, BaseInv
    <2>a. ASSUME NEW l \in BOOLEAN, ~l PROVE l = FALSE
      BY <2>a
    <2>b. req[r].late \in BOOLEAN /\ req[r].value \in Nat
      BY <2>2 DEF Request
    <2>3. req[r].late = FALSE /\ req[r].value \in Nat
      BY <2>1, <2>a, <2>b
    <2>4. req[r].at # "expire"
      BY <2>1 DEF LimitInv, BaseInv, Shape, ShapeOf
    <2>5. req[r].value <= n
      BY <2>1 DEF LimitInv, WithinLimit
    <2> QED BY <1>1, <2>1, <2>3, <2>4, <2>5 DEF Holds, Place
  <1>4. f \in Injection(S, 1..n)
    <2>1. f \in [S -> 1..n]
      BY <1>3
    <2>2. ASSUME NEW r \in S, NEW s \in S, f[r] = f[s] PROVE r = s
      <3>1. Place(r) = Place(s)
        BY <1>3, <2>2
      <3> QED BY <1>3, <3>1 DEF LimitInv, Places, Differ
    <2> HIDE DEF S, f
    <2> QED BY <2>1, <2>2 DEF Injection, IsInjective
  <1> HIDE DEF S, f, n
  <1>5. Cardinality(S) <= Cardinality(1..n)
    BY <1>2, <1>4, FS_Injection
  <1> QED BY <1>2, <1>5 DEF S, n

(* r has taken a place of window k, or a fault has hit it.                  *)
Took(r, k) ==
  /\ req[r].key = k /\ req[r].answer # "refused"
  /\ req[r].at \in {"expire", "app", "answered", "dropped"}
Hurt(r, k) == req[r].key = k /\ req[r].hits > 0

Taken(k) == {r \in Requests : Took(r, k)}
Again(k) == {r \in Requests : Hurt(r, k)}
Used(k) == Cardinality(Taken(k)) + Cardinality(Again(k))

(* A counter is no further than what was used of its window, unless that    *)
(* is the limit; whoever is refused is so because the limit was used.       *)
UsedUp == \A k \in Keys : counters[k].value <= Used(k) \/ Limit[k[1]] <= Used(k)
Justified == \A r \in Refused : Limit[req[r].key[1]] <= Used(req[r].key)

CauseInv == BaseInv /\ IsFiniteSet(Sent) /\ UsedUp /\ Justified

(* What was used can be counted, before and after a step.                   *)
LEMMA UsedTyped ==
  ASSUME BaseInv, IsFiniteSet(Sent), NEW k \in Keys
  PROVE  /\ IsFiniteSet(Taken(k)) /\ IsFiniteSet(Again(k))
         /\ Cardinality(Taken(k)) \in Nat /\ Cardinality(Again(k)) \in Nat
         /\ Used(k) \in Nat
  <1>1. Taken(k) \subseteq Sent
    BY DEF Taken, Took, Sent
  <1>2. Again(k) \subseteq Sent
    BY DEF Again, Hurt, Sent, BaseInv, Shape, ShapeOf
  <1>3. IsFiniteSet(Taken(k)) /\ IsFiniteSet(Again(k))
    BY <1>1, <1>2, FS_Subset
  <1> QED BY <1>3, FS_CardinalityType DEF Used

LEMMA UsedTypedNext ==
  ASSUME BaseInv', IsFiniteSet(Sent'), NEW k \in Keys
  PROVE  /\ IsFiniteSet(Taken(k)') /\ IsFiniteSet(Again(k)')
         /\ Cardinality(Taken(k)') \in Nat /\ Cardinality(Again(k)') \in Nat
         /\ Used(k)' \in Nat
  <1>1. Taken(k)' \subseteq Sent'
    BY DEF Taken, Took, Sent
  <1>2. Again(k)' \subseteq Sent'
    BY DEF Again, Hurt, Sent, BaseInv, Shape, ShapeOf
  <1>3. IsFiniteSet(Taken(k)') /\ IsFiniteSet(Again(k)')
    BY <1>1, <1>2, FS_Subset
  <1>4. Cardinality(Taken(k)') \in Nat /\ Cardinality(Again(k)') \in Nat
    BY <1>3, FS_CardinalityType
  <1> QED BY <1>3, <1>4 DEF Used

(* A larger set counts more.                                                *)
LEMMA Larger ==
  ASSUME NEW S, NEW T, S \subseteq T, IsFiniteSet(T)
  PROVE  /\ Cardinality(S) \in Nat /\ Cardinality(T) \in Nat
         /\ Cardinality(S) <= Cardinality(T)
         /\ S # T => Cardinality(S) + 1 <= Cardinality(T)
  <1>1. IsFiniteSet(S) /\ Cardinality(S) <= Cardinality(T)
        /\ (Cardinality(S) = Cardinality(T) => S = T)
    BY FS_Subset
  <1>2. Cardinality(S) \in Nat /\ Cardinality(T) \in Nat
    BY <1>1, FS_CardinalityType
  <1> QED BY <1>1, <1>2

(* What was used of k stays used.                                           *)
Grows(k) == /\ \A r \in Requests : Took(r, k) => Took(r, k)'
            /\ \A r \in Requests : Hurt(r, k) => Hurt(r, k)'

(* Then no less is used than before, and more if r is new among them.       *)
LEMMA GrowsMore ==
  ASSUME BaseInv, IsFiniteSet(Sent), BaseInv', IsFiniteSet(Sent'), NEW k \in Keys, Grows(k)
  PROVE  /\ Used(k) \in Nat /\ Used(k)' \in Nat /\ Used(k) <= Used(k)'
         /\ \A r \in Requests :
              (~Took(r, k) /\ Took(r, k)') \/ (~Hurt(r, k) /\ Hurt(r, k)')
                => Used(k) + 1 <= Used(k)'
  <1>1. /\ IsFiniteSet(Taken(k)') /\ IsFiniteSet(Again(k)')
        /\ Cardinality(Taken(k)') \in Nat /\ Cardinality(Again(k)') \in Nat
    BY UsedTypedNext
  <1>2. Taken(k) \subseteq Taken(k)' /\ Again(k) \subseteq Again(k)'
    BY DEF Grows, Taken, Again
  <1>3. /\ Cardinality(Taken(k)) \in Nat /\ Cardinality(Again(k)) \in Nat
        /\ Cardinality(Taken(k)) <= Cardinality(Taken(k)')
        /\ Cardinality(Again(k)) <= Cardinality(Again(k)')
        /\ Taken(k) # Taken(k)' => Cardinality(Taken(k)) + 1 <= Cardinality(Taken(k)')
        /\ Again(k) # Again(k)' => Cardinality(Again(k)) + 1 <= Cardinality(Again(k)')
    BY <1>1, <1>2, Larger
  <1>4. Used(k)' = Cardinality(Taken(k)') + Cardinality(Again(k)')
    BY DEF Used
  <1>5. ASSUME NEW r \in Requests, (~Took(r, k) /\ Took(r, k)') \/ (~Hurt(r, k) /\ Hurt(r, k)')
        PROVE  Taken(k) # Taken(k)' \/ Again(k) # Again(k)'
    BY <1>5 DEF Taken, Again
  <1> QED BY <1>1, <1>3, <1>4, <1>5 DEF Used

(* A step of r that counts it uses a place more, unless the limit is used.  *)
LEMMA AdvanceUses ==
  ASSUME BaseInv, NEW r \in Requests, Advance(r), NEW k, k = req[r].key
  PROVE  /\ Took(r, k) /\ Limit[k[1]] > 0 => Took(r, k)'
         /\ Hurt(r, k) => Hurt(r, k)'
         /\ \/ NewValue(r) = Value(r)
            \/ NewValue(r) = Value(r) + 1 /\ Limit[k[1]] <= Value(r)
            \/ /\ NewValue(r) = Value(r) + 1
               /\ (~Took(r, k) /\ Took(r, k)') \/ (~Hurt(r, k) /\ Hurt(r, k)')
         /\ req'[r].answer = "refused" => Limit[k[1]] <= Value(r) \/ Limit[k[1]] = 0
  <1>0. /\ Same(r) /\ req[r].at # "unsent" /\ req[r].at # "answered"
        /\ req'[r].hits \in {req[r].hits, req[r].hits + 1}
    BY AdvanceFacts
  <1>1. req'[r].key = k
    BY <1>0 DEF Same
  <1>2. /\ req[r].answer = "none" /\ req[r].key \in Keys /\ Value(r) \in Nat
        /\ req[r].hits \in Nat /\ (req[r].at = "eval" => req[r].hits = 0)
    BY <1>0, UnderWay DEF BaseInv, Shape, ShapeOf, Value
  <1>3. Limit[k[1]] \in Nat
    BY <1>2, WindowEndTyped
  <1>4. Hurt(r, k) => Hurt(r, k)'
    BY <1>0, <1>1, <1>2 DEF Hurt
  <1>a. ASSUME NEW v \in Nat, JudgedOn(r, v)
        PROVE  IF v > Limit[k[1]] THEN req'[r].answer = "refused"
                                  ELSE Took(r, k)' /\ req'[r].answer # "refused"
    BY <1>1, <1>a DEF JudgedOn, Took
  <1>b. ASSUME GoesOn(r) PROVE Took(r, k)' /\ req'[r].answer # "refused"
    BY <1>1, <1>b DEF GoesOn, Took
  <1>5. CASE EvalDone(r)
    <2>1. ~Took(r, k) /\ NewValue(r) = Value(r) + 1
      BY <1>5 DEF EvalDone, Took
    <2>2. JudgedOn(r, Value(r) + 1)
      BY <1>5 DEF EvalDone
    <2> QED BY <1>2, <1>3, <1>4, <1>a, <2>1, <2>2
  <1>6. CASE IncrDone(r)
    <2>1. ~Took(r, k) /\ NewValue(r) = Value(r) + 1
      BY <1>6 DEF IncrDone, Took
    <2>2. CASE Value(r) = 0
      <3>1. Took(r, k)' /\ req'[r].answer # "refused"
        BY <1>1, <1>2, <1>6, <2>2 DEF IncrDone, Took
      <3> QED BY <1>4, <2>1, <3>1
    <2>3. CASE Value(r) # 0
      <3>1. JudgedOn(r, Value(r) + 1)
        BY <1>6, <2>3 DEF IncrDone
      <3> QED BY <1>2, <1>3, <1>4, <1>a, <2>1, <3>1
    <2> QED BY <2>2, <2>3
  <1>7. CASE ExpireDone(r)
    <2>1. NewValue(r) = Value(r) /\ JudgedOn(r, 1)
      BY <1>7 DEF ExpireDone, ExpireSet
    <2> QED BY <1>3, <1>4, <1>a, <2>1
  <1>8. CASE AnswerDone(r)
    <2>1. NewValue(r) = Value(r) /\ Took(r, k)' /\ req'[r].answer # "refused"
      BY <1>1, <1>8 DEF AnswerDone, Value, NewValue, Took
    <2> QED BY <1>4, <2>1
  <1>9. CASE EvalLost(r)
    <2>1. /\ ~Took(r, k) /\ ~Hurt(r, k) /\ Hurt(r, k)' /\ req'[r].answer # "refused"
          /\ NewValue(r) \in {Value(r), Value(r) + 1}
      BY <1>1, <1>2, <1>9 DEF EvalLost, Lost, Took, Hurt
    <2> QED BY <1>4, <2>1
  <1>10. CASE IncrLost(r)
    <2>1. ~Took(r, k) /\ NewValue(r) \in {Value(r), Value(r) + 1} /\ GoesOn(r)
      BY <1>10 DEF IncrLost, Took
    <2> QED BY <1>4, <1>b, <2>1
  <1>11. CASE ExpireLost(r)
    <2>1. NewValue(r) = Value(r) /\ GoesOn(r)
      BY <1>11 DEF ExpireLost
    <2> QED BY <1>4, <1>b, <2>1
  <1> QED BY <1>5, <1>6, <1>7, <1>8, <1>9, <1>10, <1>11 DEF Advance

(* A step that counts nothing and refuses nobody need only keep what is used. *)
LEMMA CauseKept ==
  ASSUME CauseInv, BaseInv', IsFiniteSet(Sent'),
         \A k \in Keys : Grows(k) /\ counters'[k].value <= counters[k].value,
         \A r \in Requests : req'[r].answer = "refused" =>
                               req[r].answer = "refused" /\ req'[r].key = req[r].key
  PROVE  CauseInv'
  <1>1. \A k \in Keys : /\ Used(k) \in Nat /\ Used(k)' \in Nat /\ Used(k) <= Used(k)'
                        /\ Limit[k[1]] \in Nat
                        /\ counters[k].value \in Nat /\ counters'[k].value \in Nat
    <2> TAKE k \in Keys
    <2>1. counters \in [Keys -> Counter]
      BY Typed DEF CauseInv, BaseInv
    <2>2. TypeOK'
      BY DEF BaseInv
    <2>3. counters' \in [Keys -> [value : Nat, expires : Nat]]
      BY <2>2 DEF TypeOK
    <2> QED BY <2>1, <2>3, GrowsMore, WindowEndTyped DEF CauseInv, Counter
  <1>2. UsedUp'
    BY <1>1 DEF CauseInv, UsedUp
  <1>3. Justified'
    <2> SUFFICES ASSUME NEW r \in Requests, req'[r].answer = "refused"
                 PROVE  Limit[req'[r].key[1]] <= Used(req[r].key)'
      BY DEF Justified, Refused
    <2>1. PICK k : k = req[r].key
      OBVIOUS
    <2>2. req[r].answer = "refused" /\ req'[r].key = k
      BY <2>1
    <2>3. Limit[k[1]] <= Used(k)
      BY <2>1, <2>2 DEF CauseInv, Justified, Refused
    <2>4. k \in Keys
      BY <2>1, <2>2 DEF CauseInv, BaseInv, Shape, ShapeOf
    <2>5. Limit[k[1]] <= Used(k)'
      BY <1>1, <2>3, <2>4
    <2>6. Used(req[r].key)' = Used(k)'
      BY <2>2 DEF Used, Taken, Again, Took, Hurt
    <2> QED BY <2>2, <2>5, <2>6
  <1> QED BY <1>2, <1>3 DEF CauseInv

(* The invariant of refusals holds at the start and is kept.                *)
LEMMA CauseInit == Init => CauseInv
  <1> SUFFICES ASSUME Init PROVE CauseInv
    OBVIOUS
  <1>1. BaseInv /\ IsFiniteSet(Sent)
    BY LimitInit DEF LimitInv
  <1>2. \A k \in Keys : counters[k].value = 0
    BY DEF Init, Absent
  <1>3. \A k \in Keys : Used(k) \in Nat
    BY <1>1, UsedTyped
  <1>4. Refused = {}
    BY DEF Init, Unsent, Refused
  <1> QED BY <1>1, <1>2, <1>3, <1>4 DEF CauseInv, UsedUp, Justified

(* No step breaks the invariant of refusals.                                *)
LEMMA CauseStep ==
  ASSUME CauseInv, [Next]_vars
  PROVE  CauseInv'
  <1>0. /\ BaseInv /\ IsFiniteSet(Sent) /\ BaseInv' /\ IsFiniteSet(Sent')
        /\ req \in [Requests -> Request] /\ counters \in [Keys -> Counter]
        /\ \A k \in Keys : counters[k].value \in Nat
    BY BaseStep, SentStep, Typed DEF CauseInv, BaseInv, Counter
  <1>1. CASE UNCHANGED vars
    <2>1. UNCHANGED <<counters, req>>
      BY <1>1 DEF vars
    <2>2. \A k \in Keys : Grows(k) /\ counters'[k].value <= counters[k].value
      BY <1>0, <2>1 DEF Grows, Took, Hurt
    <2> QED BY <1>0, <2>1, <2>2, CauseKept
  <1>2. CASE Tick
    <2>1. req' = req /\ \A k \in Keys : counters'[k] \in {counters[k], Absent}
      BY <1>0, <1>2, TickFields
    <2>2. Absent.value = 0
      BY DEF Absent
    <2>3. \A k \in Keys : Grows(k) /\ counters'[k].value <= counters[k].value
      BY <1>0, <2>1, <2>2 DEF Grows, Took, Hurt
    <2> QED BY <1>0, <2>1, <2>3, CauseKept
  <1>3. CASE Crash
    <2>1. /\ UNCHANGED counters
          /\ \A r \in Requests :
              /\ req'[r].key = req[r].key /\ req'[r].answer = req[r].answer
              /\ ~InFlight(r) => req'[r] = req[r]
              /\ InFlight(r) => req'[r].at = "dropped" /\ req'[r].hits = req[r].hits + 1
      BY <1>0, <1>3, CrashFields
    <2>2. ASSUME NEW r \in Requests, NEW k
          PROVE  (Took(r, k) => Took(r, k)') /\ (Hurt(r, k) => Hurt(r, k)')
      <3>1. req[r] \in Request
        BY <1>0
      <3>2. req[r].hits \in Nat
        BY <3>1 DEF Request
      <3>3. CASE InFlight(r)
        BY <2>1, <3>2, <3>3 DEF Took, Hurt
      <3>4. CASE ~InFlight(r)
        BY <2>1, <3>4 DEF Took, Hurt
      <3> QED BY <3>3, <3>4
    <2>3. \A k \in Keys : Grows(k) /\ counters'[k].value <= counters[k].value
      BY <1>0, <2>1, <2>2 DEF Grows
    <2> QED BY <1>0, <2>1, <2>3, CauseKept
  <1>4. ASSUME NEW r \in Requests, NEW i \in Identifiers, NEW e \in Endpoints,
               NEW b \in Bodies, Arrive(r, i, e, b)
        PROVE  CauseInv'
    <2>1. /\ UNCHANGED counters /\ req[r].at = "unsent" /\ req'[r].answer = "none"
          /\ \A s \in Requests : s # r => req'[s] = req[s]
      BY <1>0, <1>4, ArriveShape
    <2>2. req[r].hits = 0
      BY <1>0, <2>1 DEF BaseInv, Shape, ShapeOf
    <2>3. ASSUME NEW s \in Requests, NEW k
          PROVE  (Took(s, k) => Took(s, k)') /\ (Hurt(s, k) => Hurt(s, k)')
      <3>1. CASE s = r
        BY <2>1, <2>2, <3>1 DEF Took, Hurt
      <3>2. CASE s # r
        BY <2>1, <3>2 DEF Took, Hurt
      <3> QED BY <3>1, <3>2
    <2>4. \A k \in Keys : Grows(k) /\ counters'[k].value <= counters[k].value
      BY <1>0, <2>1, <2>3 DEF Grows
    <2>5. ASSUME NEW s \in Requests, req'[s].answer = "refused"
          PROVE  req[s].answer = "refused" /\ req'[s].key = req[s].key
      BY <2>1, <2>5
    <2> QED BY <1>0, <2>4, <2>5, CauseKept
  <1>5. ASSUME NEW r \in Requests, Advance(r) PROVE CauseInv'
    <2>0. PICK k : k = req[r].key
      OBVIOUS
    <2>1. /\ Same(r) /\ req[r].at # "unsent" /\ k \in Keys /\ Limit[k[1]] \in Nat
          /\ Value(r) \in Nat
      BY <1>0, <1>5, <2>0, AdvanceFacts, UnderWay, WindowEndTyped DEF Value
    <2>2. /\ Took(r, k) /\ Limit[k[1]] > 0 => Took(r, k)'
          /\ Hurt(r, k) => Hurt(r, k)'
          /\ \/ NewValue(r) = Value(r)
             \/ NewValue(r) = Value(r) + 1 /\ Limit[k[1]] <= Value(r)
             \/ /\ NewValue(r) = Value(r) + 1
                /\ (~Took(r, k) /\ Took(r, k)') \/ (~Hurt(r, k) /\ Hurt(r, k)')
          /\ req'[r].answer = "refused" => Limit[k[1]] <= Value(r) \/ Limit[k[1]] = 0
      BY <1>0, <1>5, <2>0, AdvanceUses
    <2>3. ASSUME NEW s \in Requests, s # r, NEW l
          PROVE  (Took(s, l) => Took(s, l)') /\ (Hurt(s, l) => Hurt(s, l)')
      BY <2>1, <2>3 DEF Same, Took, Hurt
    <2>4. ASSUME NEW l \in Keys, l # k PROVE Grows(l)
      BY <2>0, <2>3, <2>4 DEF Grows, Took, Hurt
    <2>5. Limit[k[1]] > 0 => Grows(k)
      BY <2>2, <2>3 DEF Grows
    <2>6. \A l \in Keys : Used(l) \in Nat /\ Limit[l[1]] \in Nat /\ Used(l)' \in Nat
      <3> TAKE l \in Keys
      <3>1. Used(l) \in Nat /\ Limit[l[1]] \in Nat
        BY <1>0, UsedTyped, WindowEndTyped
      <3>2. Used(l)' \in Nat
        BY <1>0, UsedTypedNext
      <3> QED BY <3>1, <3>2
    <2>7. ASSUME NEW l \in Keys, Grows(l) PROVE Used(l) <= Used(l)'
      BY <1>0, <2>7, GrowsMore
    <2>8. UsedUp'
      <3> SUFFICES ASSUME NEW l \in Keys
                   PROVE  counters'[l].value <= Used(l)' \/ Limit[l[1]] <= Used(l)'
        BY DEF UsedUp
      <3>0. counters[l].value <= Used(l) \/ Limit[l[1]] <= Used(l)
        BY DEF CauseInv, UsedUp
      <3>1. CASE l # k
        <4>1. counters'[l] = counters[l] /\ Used(l) <= Used(l)'
          BY <2>0, <2>1, <2>4, <2>7, <3>1 DEF Same
        <4> QED BY <1>0, <2>6, <3>0, <4>1
      <3>2. CASE l = k /\ Limit[k[1]] = 0
        BY <2>6, <3>2
      <3>3. CASE l = k /\ Limit[k[1]] > 0
        <4>1. Grows(k) /\ Used(k) <= Used(k)'
          BY <2>1, <2>5, <2>7, <3>3
        <4>2. /\ Value(r) <= Used(k) \/ Limit[k[1]] <= Used(k)
              /\ NewValue(r) = counters'[l].value
          BY <2>0, <3>0, <3>3 DEF Value, NewValue
        <4>3. (~Took(r, k) /\ Took(r, k)') \/ (~Hurt(r, k) /\ Hurt(r, k)')
                => Used(k) + 1 <= Used(k)'
          BY <1>0, <2>1, <4>1, GrowsMore
        <4> QED BY <2>1, <2>2, <2>6, <3>3, <4>1, <4>2, <4>3
      <3> QED BY <2>1, <3>1, <3>2, <3>3
    <2>9. Justified'
      <3> SUFFICES ASSUME NEW s \in Requests, req'[s].answer = "refused"
                   PROVE  Limit[req'[s].key[1]] <= Used(req[s].key)'
        BY DEF Justified, Refused
      <3>1. PICK l : l = req[s].key
        OBVIOUS
      <3>2. req'[s].key = l
        BY <2>1, <3>1 DEF Same
      <3>3. Used(req[s].key)' = Used(l)'
        BY <3>2 DEF Used, Taken, Again, Took, Hurt
      <3>4. ASSUME Limit[l[1]] <= Used(l) \/ Limit[l[1]] = 0, l \in Keys
            PROVE  Limit[l[1]] <= Used(l)'
        <4>1. CASE Limit[l[1]] = 0
          BY <2>6, <3>4, <4>1
        <4>2. CASE Limit[l[1]] # 0
          <5>1. Used(l) <= Used(l)'
            BY <2>4, <2>5, <2>6, <2>7, <3>4, <4>2
          <5> QED BY <2>6, <3>4, <4>2, <5>1
        <4> QED BY <4>1, <4>2
      <3>5. CASE s = r
        <4>1. Limit[k[1]] <= Value(r) \/ Limit[k[1]] = 0
          BY <2>2, <3>5
        <4>2. Value(r) <= Used(k) \/ Limit[k[1]] <= Used(k)
          BY <2>0, <2>1 DEF CauseInv, UsedUp, Value
        <4>3. Limit[k[1]] <= Used(k) \/ Limit[k[1]] = 0
          BY <2>1, <2>6, <4>1, <4>2
        <4> QED BY <2>0, <2>1, <3>1, <3>2, <3>3, <3>4, <3>5, <4>3
      <3>6. CASE s # r
        <4>1. req[s].answer = "refused"
          BY <2>1, <3>6 DEF Same
        <4>2. l \in Keys /\ Limit[l[1]] <= Used(l)
          BY <1>0, <3>1, <4>1 DEF CauseInv, Justified, Refused, BaseInv, Shape, ShapeOf
        <4> QED BY <3>2, <3>3, <3>4, <4>2
      <3> QED BY <3>5, <3>6
    <2> QED BY <1>0, <2>8, <2>9 DEF CauseInv
  <1>6. CASE Next
    BY <1>0, <1>2, <1>3, <1>4, <1>5, <1>6, NextCases
  <1> QED BY <1>1, <1>6

(* What was used are requests of the window that RefusedForCause counts.    *)
LEMMA CauseImplied == CauseInv => RefusedForCause
  <1> SUFFICES ASSUME CauseInv, NEW r \in Requests, req[r].answer = "refused"
               PROVE  Cardinality(Of(req[r].key) \ Refused)
                        + Cardinality({s \in Of(req[r].key) : req[s].hits > 0})
                      >= Limit[req[r].key[1]]
    BY DEF RefusedForCause, Refused
  <1> DEFINE k == req[r].key
             same == Of(k) \ Refused
             again == {s \in Of(k) : req[s].hits > 0}
  <1>1. k \in Keys /\ Limit[k[1]] <= Used(k)
    BY DEF CauseInv, Justified, Refused, BaseInv, Shape, ShapeOf
  <1>2. again = Again(k)
    BY DEF Again, Hurt, Of
  <1>3. Taken(k) \subseteq same
    BY DEF Taken, Took, Of, Refused
  <1>4. IsFiniteSet(same)
    <2>1. same \subseteq Sent
      <3> SUFFICES ASSUME NEW s \in Requests, req[s].key = k, req[s].at = "unsent"
                   PROVE  FALSE
        BY DEF Of, Sent
      <3>1. k = <<>>
        BY DEF CauseInv, BaseInv, Shape, ShapeOf
      <3>2. k[1] \in Categories
        BY <1>1, WindowEndTyped
      <3> QED BY <1>1, <3>1 DEF Keys
    <2> QED BY <2>1, FS_Subset DEF CauseInv
  <1> HIDE DEF k, same, again
  <1>5. Cardinality(Taken(k)) <= Cardinality(same) /\ Cardinality(Taken(k)) \in Nat
        /\ Cardinality(same) \in Nat
    BY <1>3, <1>4, Larger
  <1>6. Cardinality(Again(k)) \in Nat
    BY <1>1, UsedTyped DEF CauseInv
  <1>7. Limit[k[1]] \in Nat
    BY <1>1, WindowEndTyped
  <1>8. Cardinality(same) + Cardinality(again) >= Limit[k[1]]
    BY <1>1, <1>2, <1>5, <1>6, <1>7 DEF Used
  <1> QED BY <1>8 DEF k, same, again
-----------------------------------------------------------------------------
(* The variables keep their types whatever commands and replies are lost.   *)
THEOREM TypeCorrect == Spec => []TypeOK
  <1>1. BaseInv /\ [Next]_vars => BaseInv'
    BY BaseStep
  <1>2. BaseInv => TypeOK
    BY DEF BaseInv
  <1> QED BY BaseInit, <1>1, <1>2, PTL DEF Spec

(* For any requests, windows, limits, faults and crashes, no more requests  *)
(* than the limit pass of those counted in their window, whether EVAL or    *)
(* its substitute counted them (middleware/rate_limit.py, dispatch).        *)
THEOREM LimitAlwaysKept == Spec => []LimitKept
  BY LimitInit, LimitStep, LimitImplied, PTL DEF Spec

(* Nobody is refused before the requests of the window, those counted twice *)
(* after a lost reply included, have used up the limit.                     *)
THEOREM AlwaysRefusedForCause == Spec => []RefusedForCause
  BY CauseInit, CauseStep, CauseImplied, PTL DEF Spec

(* At the start there are no counters.                                      *)
LEMMA LeakInit == Init => LeakInv
  <1> SUFFICES ASSUME Init PROVE LeakInv
    OBVIOUS
  <1>1. \A k \in Keys : counters[k].value = 0
    BY DEF Init, Absent
  <1> QED BY <1>1, BaseInit DEF LeakInv, LeakNeedsTwoFaults

(* A counter that never expires belongs to a request about to set its       *)
(* expiry, or to one that has met two faults.                               *)
THEOREM LeaksNeedTwoFaults == Spec => []LeakNeedsTwoFaults
  <1>1. LeakInv /\ [Next]_vars => LeakInv'
    BY BaseStep, LeakStep DEF LeakInv
  <1>2. LeakInv => LeakNeedsTwoFaults
    BY DEF LeakInv
  <1> QED BY LeakInit, <1>1, <1>2, PTL DEF Spec
=============================================================================
