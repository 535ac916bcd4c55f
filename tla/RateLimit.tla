------------------------------ MODULE RateLimit ------------------------------
(***************************************************************************)
(* The checks a request passes before any route: the rate limiter          *)
(* (middleware/rate_limit.py), which counts it in Redis, and the guard on  *)
(* the size of its body (middleware/input_limits.py), in that order.       *)
(*                                                                         *)
(* The limiter reads the clock once.  The window of that instant is in the *)
(* counter's key and the rest of the window is the time to live it gives   *)
(* the counter; the command reaches Redis later, in another window maybe.  *)
(* One EVAL counts and sets the expiry; if it fails, INCR and EXPIRE take  *)
(* its place, and if one of those fails the request goes on uncounted.  A  *)
(* command that fails may have taken effect: only its reply is lost.       *)
(***************************************************************************)
EXTENDS Naturals, FiniteSets

CONSTANTS Requests,     \* each is sent once
          Identifiers,  \* who sends them: an API key or, without one, an address
          Endpoints,    \* the <<path, method>> they name
          Bodies,       \* what their Content-Length says
          Window,       \* [Categories -> ticks of the clock in a window]
          Limit,        \* [Categories -> requests allowed in a window]
          MaxTime,      \* bound on the clock
          MaxFaults     \* bound on lost commands and restarts

Paths == {"import", "auth", "provision", "session", "other"}
Methods == {"GET", "POST"}
Categories == {"import", "auth", "session", "read", "write"}

ASSUME EndpointsAssumption == Endpoints \subseteq Paths \X Methods
ASSUME BodiesAssumption == Bodies \subseteq {"absent", "fits", "malformed", "large"}
ASSUME WindowAssumption == Window \in [Categories -> Nat \ {0}]
ASSUME LimitAssumption == Limit \in [Categories -> Nat]
ASSUME BoundsAssumption == MaxTime \in Nat /\ MaxFaults \in Nat

VARIABLES now,      \* the clock
          counters, \* [Keys -> the counter kept in Redis]
          req,      \* [Requests -> the request and how far it has come]
          faults    \* commands lost and restarts so far

vars == <<now, counters, req, faults>>

Keys == Categories \X Identifiers \X (0..MaxTime)

(* A counter that is not there has the value 0; one that never expires has  *)
(* 0 as the time it expires.                                                *)
Never == 0
Absent == [value |-> 0, expires |-> Never]

Stages == {"unsent", "eval", "incr", "expire", "app", "answered", "dropped"}
Answers == {"none", "served", "refused", "malformed", "too_large"}

(* key, ttl: fixed on arrival; value: its place in the count (0: unknown);  *)
(* late: was it counted after the window?  hits: the faults it has met.     *)
Unsent == [at |-> "unsent", path |-> "other", body |-> "absent", key |-> <<>>, ttl |-> 0,
           value |-> 0, late |-> FALSE, hits |-> 0, answer |-> "none"]

Init ==
  /\ now = 0 /\ faults = 0
  /\ counters = [k \in Keys |-> Absent]
  /\ req = [r \in Requests |-> Unsent]

-----------------------------------------------------------------------------
(* _resolve_category_and_limit                                              *)
Category(path, method) ==
  CASE path = "import" -> "import"
    [] path \in {"auth", "provision"} -> "auth"
    [] path = "session" /\ method # "GET" -> "session"
    [] OTHER -> IF method = "GET" THEN "read" ELSE "write"

WindowEnd(k) == (k[3] + 1) * Window[k[1]]

(* MUTANT of Ttl: counted from the second after this one.                   *)
TtlOneShort(k) == WindowEnd(k) - (now + 1)

Ttl(k) == WindowEnd(k) - now

Move(r, request) == req' = [req EXCEPT ![r] = request]
InFlight(r) == req[r].at \in {"eval", "incr", "expire", "app"}

(* InputSizeLimitMiddleware: the import validates its uploads itself.       *)
SizeAnswer(q) ==
  CASE q.path # "import" /\ q.body = "malformed" -> "malformed"
    [] q.path # "import" /\ q.body = "large" -> "too_large"
    [] OTHER -> "none"

Admitted(q) ==
  [q EXCEPT !.at = IF SizeAnswer(q) = "none" THEN "app" ELSE "answered",
            !.answer = SizeAnswer(q)]

(* MUTANT of Judged: the last request the limit allows is refused.          *)
JudgedStrictly(q, v) ==
  IF v >= Limit[q.key[1]]
  THEN [q EXCEPT !.at = "answered", !.answer = "refused", !.value = v,
                 !.late = now >= WindowEnd(q.key)]
  ELSE Admitted([q EXCEPT !.value = v, !.late = now >= WindowEnd(q.key)])

(* The reply of the count is judged without another await.                  *)
Judged(q, v) ==
  IF v > Limit[q.key[1]]
  THEN [q EXCEPT !.at = "answered", !.answer = "refused", !.value = v,
                 !.late = now >= WindowEnd(q.key)]
  ELSE Admitted([q EXCEPT !.value = v, !.late = now >= WindowEnd(q.key)])

-----------------------------------------------------------------------------
(* Redis drops a counter when its time has come.                            *)
Expired(c, t) == c.expires # Never /\ c.expires <= t

Tick ==
  /\ now < MaxTime
  /\ now' = now + 1
  /\ counters' = [k \in Keys |-> IF Expired(counters[k], now') THEN Absent ELSE counters[k]]
  /\ UNCHANGED <<req, faults>>

Arrive(r, i, e, b) ==
  /\ req[r].at = "unsent"
  /\ LET category == Category(e[1], e[2])
         key == <<category, i, now \div Window[category]>>
     IN Move(r, [Unsent EXCEPT !.at = "eval", !.path = e[1], !.body = b, !.key = key,
                               !.ttl = Ttl(key)])
  /\ UNCHANGED <<now, counters, faults>>

Counted(k) == [counters EXCEPT ![k].value = @ + 1]

(* The script: INCR and, for the first, EXPIRE.                             *)
Scripted(k, ttl) ==
  [counters EXCEPT ![k] = [value |-> @.value + 1,
                           expires |-> IF @.value = 0 THEN now + ttl ELSE @.expires]]

Eval(r) ==
  /\ req[r].at = "eval"
  /\ counters' = Scripted(req[r].key, req[r].ttl)
  /\ Move(r, Judged(req[r], counters[req[r].key].value + 1))
  /\ UNCHANGED <<now, faults>>

(* MUTANT of Incr: nothing gives the counter an expiry.                     *)
IncrWithoutExpire(r) ==
  /\ req[r].at = "incr"
  /\ counters' = Counted(req[r].key)
  /\ Move(r, Judged(req[r], counters[req[r].key].value + 1))
  /\ UNCHANGED <<now, faults>>

(* The substitute: INCR, then EXPIRE if the counter was not there.          *)
Incr(r) ==
  LET v == counters[req[r].key].value + 1
  IN /\ req[r].at = "incr"
     /\ counters' = Counted(req[r].key)
     /\ Move(r, IF v = 1 THEN [req[r] EXCEPT !.at = "expire"] ELSE Judged(req[r], v))
     /\ UNCHANGED <<now, faults>>

Expiring(k, ttl) ==
  IF counters[k] = Absent THEN counters ELSE [counters EXCEPT ![k].expires = now + ttl]

Expire(r) ==
  /\ req[r].at = "expire"
  /\ counters' = Expiring(req[r].key, req[r].ttl)
  /\ Move(r, Judged(req[r], 1))
  /\ UNCHANGED <<now, faults>>

-----------------------------------------------------------------------------
(* The command does not come back; in the case "applied" it took effect.    *)
Hit(q) == [q EXCEPT !.hits = @ + 1]

EvalFails(r, applied) ==
  /\ req[r].at = "eval" /\ faults < MaxFaults
  /\ counters' = IF applied THEN Scripted(req[r].key, req[r].ttl) ELSE counters
  /\ Move(r, Hit([req[r] EXCEPT !.at = "incr"]))
  /\ faults' = faults + 1
  /\ UNCHANGED now

IncrFails(r, applied) ==
  /\ req[r].at = "incr" /\ faults < MaxFaults
  /\ counters' = IF applied THEN Counted(req[r].key) ELSE counters
  /\ Move(r, Admitted(Hit(req[r])))
  /\ faults' = faults + 1
  /\ UNCHANGED now

ExpireFails(r, applied) ==
  /\ req[r].at = "expire" /\ faults < MaxFaults
  /\ counters' = IF applied THEN Expiring(req[r].key, req[r].ttl) ELSE counters
  /\ Move(r, Admitted(Hit(req[r])))
  /\ faults' = faults + 1
  /\ UNCHANGED now

(* The API process stops: its requests end without an answer.               *)
Crash ==
  /\ faults < MaxFaults
  /\ \E r \in Requests : InFlight(r)
  /\ req' = [r \in Requests |-> IF InFlight(r) THEN Hit([req[r] EXCEPT !.at = "dropped"])
                                               ELSE req[r]]
  /\ faults' = faults + 1
  /\ UNCHANGED <<now, counters>>

(* The route answers; an exception it lets through becomes a 500.           *)
Answer(r) ==
  /\ req[r].at = "app"
  /\ Move(r, [req[r] EXCEPT !.at = "answered", !.answer = "served"])
  /\ UNCHANGED <<now, counters, faults>>

-----------------------------------------------------------------------------
Handle(r) == Eval(r) \/ Incr(r) \/ Expire(r) \/ Answer(r)

Next ==
  \/ Tick
  \/ Crash
  \/ \E r \in Requests, i \in Identifiers, e \in Endpoints, b \in Bodies : Arrive(r, i, e, b)
  \/ \E r \in Requests : Handle(r)
  \/ \E r \in Requests, applied \in BOOLEAN :
       EvalFails(r, applied) \/ IncrFails(r, applied) \/ ExpireFails(r, applied)

Spec == Init /\ [][Next]_vars

-----------------------------------------------------------------------------
TypeOK ==
  /\ now \in 0..MaxTime /\ faults \in 0..MaxFaults
  /\ counters \in [Keys -> [value : Nat, expires : Nat]]
  /\ req \in [Requests -> [at : Stages, path : Paths, body : Bodies \cup {"absent"},
                           key : Keys \cup {<<>>}, ttl : Nat, value : Nat, late : BOOLEAN,
                           hits : Nat, answer : Answers]]

Of(k) == {r \in Requests : req[r].key = k}
Refused == {r \in Requests : req[r].answer = "refused"}
Passed == {r \in Requests : req[r].value > 0 /\ ~req[r].late} \ Refused

(* The limit is kept (rate_limit.py:92): of the requests that were counted  *)
(* before their window ended, whatever the order their commands reached     *)
(* Redis in and whichever of the two ways counted them, no more than the    *)
(* limit pass.                                                              *)
LimitKept == \A k \in Keys : Cardinality(Of(k) \cap Passed) <= Limit[k[1]]

(* Nobody is refused early: a request is refused only if the limit was used *)
(* up by requests of its window that were not refused or were counted a     *)
(* second time because the reply to their EVAL was lost (rate_limit.py:83). *)
RefusedForCause ==
  \A r \in Refused :
    LET same == Of(req[r].key) \ Refused
        again == {s \in Of(req[r].key) : req[s].hits > 0}
    IN Cardinality(same) + Cardinality(again) >= Limit[req[r].key[1]]

(* Counters go away: one without an expiry belongs to a request that is     *)
(* about to set it or that has met two faults, the loss of EVAL and then    *)
(* of INCR's reply, of EXPIRE or of the process (rate_limit.py:83-85).      *)
LeakNeedsTwoFaults ==
  \A k \in Keys :
    counters[k].value > 0 /\ counters[k].expires = Never =>
      \E r \in Of(k) : req[r].at = "expire" \/ req[r].hits >= 2
=============================================================================
