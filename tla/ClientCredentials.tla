-------------------------- MODULE ClientCredentials --------------------------
(***************************************************************************)
(* The credentials of the Flutter client (core/api/api_client.dart,        *)
(* features/auth/auth_repository.dart): an access token in memory, and an  *)
(* API key and a user id in the secure storage of the device.              *)
(*                                                                         *)
(* Tasks interleave at their awaits.  What a task asks of the storage is   *)
(* done in the order in which it was asked for, the key before the id, and *)
(* each answer lets the task go on at once.  A 401 to any request starts a *)
(* handler of its own that drops the token and clears the storage, before  *)
(* the task that sent the request learns of it.                            *)
(***************************************************************************)
EXTENDS Naturals, Sequences

CONSTANTS Tasks,     \* what the app may have going on at a time
          Accounts,  \* an account: its API key and its user id
          Calls,     \* kinds of requests: with the token, or to register
          Nobody,    \* no key, no id
          MaxTokens  \* bound on the tokens the server issues

ASSUME CallsAssumption == Calls \subseteq {"call", "register"}
ASSUME NobodyAssumption == Nobody \notin Accounts
ASSUME MaxTokensAssumption == MaxTokens \in Nat

Tokens == 1..MaxTokens
NoToken == 0

VARIABLES token,     \* the access token in memory
          stored,    \* [key, uid: whose they are]
          queue,     \* what the storage still has to do
          task,      \* [Tasks -> the task and how far it has come]
          handler,   \* [Tasks -> the handler of its 401]
          open,      \* accounts the server has, their keys active
          owner,     \* [Tokens -> whose token it is]
          valid,     \* tokens the server accepts
          refused,   \* tokens whose 401 the client has seen (history)
          overtaken  \* did the token come from a refresh that the credentials
                     \* were changed under? (history)

client == <<token, stored, queue, task, handler, refused, overtaken>>
server == <<open, owner, valid>>
vars == <<client, server>>

(* acct, uid: whose key and id it exchanges; carried: the token sent along; *)
(* status, got: the answer; stale: have the credentials changed meanwhile?  *)
Rest == [kind |-> "none", at |-> "idle", acct |-> Nobody, uid |-> Nobody,
         carried |-> NoToken, status |-> "none", got |-> NoToken, stale |-> FALSE]

Init ==
  /\ token = NoToken /\ stored = [key |-> Nobody, uid |-> Nobody]
  /\ queue = <<>>
  /\ task = [t \in Tasks |-> Rest] /\ handler = [t \in Tasks |-> "none"]
  /\ open = Accounts /\ owner = [k \in Tokens |-> Nobody] /\ valid = {}
  /\ refused = {} /\ overtaken = FALSE

-----------------------------------------------------------------------------
(* An operation on the storage; own: is it the task's, or its handler's?    *)
Ask(t, own, do, field, value) ==
  [task |-> t, own |-> own, do |-> do, field |-> field, value |-> value]

(* MUTANT of FirstField: the id is cleared before the key.                  *)
FirstFieldOfClearing(do) == IF do = "delete" THEN "uid" ELSE "key"

(* Writing, reading and clearing all begin with the key.                    *)
FirstField(do) == "key"

LastField(do) == IF FirstField(do) = "key" THEN "uid" ELSE "key"

Refreshing(t) == task[t].kind = "refresh" /\ task[t].at \in {"storage", "sent", "served"}

(* The credentials change: refreshes under way no longer know them.         *)
MarkStale(tasks) ==
  [t \in Tasks |-> IF Refreshing(t) THEN [tasks[t] EXCEPT !.stale = TRUE] ELSE tasks[t]]

Issued == {k \in Tokens : owner[k] # Nobody}

Start(t, request) ==
  /\ task[t].at = "idle" /\ handler[t] = "none"
  /\ task' = [task EXCEPT ![t] = request]

(* login: the exchange of a key and an id the user has typed in.            *)
StartLogin(t, a) ==
  /\ Start(t, [Rest EXCEPT !.kind = "login", !.at = "sent", !.acct = a, !.uid = a,
                           !.carried = token])
  /\ UNCHANGED <<token, stored, queue, handler, refused, overtaken, server>>

(* refreshToken reads what is stored first.                                 *)
StartRefresh(t) ==
  /\ Start(t, [Rest EXCEPT !.kind = "refresh", !.at = "storage"])
  /\ queue' = Append(queue, Ask(t, TRUE, "read", FirstField("read"), Nobody))
  /\ UNCHANGED <<token, stored, handler, refused, overtaken, server>>

(* Any other request; register() has no API key to send and is refused.     *)
StartCall(t, kind) ==
  /\ Start(t, [Rest EXCEPT !.kind = kind, !.at = "sent", !.carried = token])
  /\ UNCHANGED <<token, stored, queue, handler, refused, overtaken, server>>

StartLogout(t) ==
  /\ task[t].at = "idle" /\ handler[t] = "none"
  /\ task' = MarkStale([task EXCEPT ![t] = [Rest EXCEPT !.kind = "logout", !.at = "storage"]])
  /\ token' = NoToken /\ overtaken' = FALSE
  /\ queue' = Append(queue, Ask(t, TRUE, "delete", FirstField("delete"), Nobody))
  /\ UNCHANGED <<stored, handler, refused, server>>

-----------------------------------------------------------------------------
(* The server: an exchange needs the key of an account it has and the id of *)
(* that account; a request needs a token that is valid.                     *)
Accepts(t) ==
  CASE task[t].kind \in {"login", "refresh"} -> task[t].acct = task[t].uid /\ task[t].acct \in open
    [] task[t].kind = "call" -> task[t].carried \in valid
    [] OTHER -> FALSE

Serve(t) ==
  /\ task[t].at = "sent"
  /\ IF Accepts(t) /\ task[t].kind # "call"
     THEN \E k \in Tokens \ Issued :
            /\ \A j \in Tokens \ Issued : k <= j
            /\ owner' = [owner EXCEPT ![k] = task[t].acct] /\ valid' = valid \cup {k}
            /\ task' = [task EXCEPT ![t] = [@ EXCEPT !.at = "served", !.status = "ok", !.got = k]]
     ELSE /\ task' = [task EXCEPT ![t] = [@ EXCEPT !.at = "served",
                                            !.status = IF Accepts(t) THEN "ok" ELSE "refused"]]
          /\ UNCHANGED <<owner, valid>>
  /\ UNCHANGED <<token, stored, queue, handler, refused, overtaken, open>>

(* An hour passes.                                                          *)
Expire(k) ==
  /\ k \in valid /\ valid' = valid \ {k}
  /\ UNCHANGED <<client, open, owner>>

(* The account is deleted, its key and its tokens with it.                  *)
Close(a) ==
  /\ a \in open /\ open' = open \ {a}
  /\ valid' = {k \in valid : owner[k] # a}
  /\ UNCHANGED <<client, owner>>

-----------------------------------------------------------------------------
Clearing(t, own) == Ask(t, own, "delete", FirstField("delete"), Nobody)

(* MUTANT of TokenComes: a token is taken only if there is none.            *)
TokenComesOnce(t) ==
  /\ task[t].at = "served" /\ task[t].status = "ok" /\ task[t].got # NoToken
  /\ token' = IF token = NoToken THEN task[t].got ELSE token
  /\ IF task[t].kind = "login"
     THEN /\ task' = MarkStale([task EXCEPT ![t].at = "storage"])
          /\ queue' = Append(queue, Ask(t, TRUE, "write", FirstField("write"), task[t].acct))
          /\ overtaken' = FALSE
     ELSE /\ task' = [task EXCEPT ![t] = Rest]
          /\ overtaken' = task[t].stale
          /\ UNCHANGED queue
  /\ UNCHANGED <<stored, handler, refused, server>>

(* The exchange has given a token.  login then writes the pair; refresh is  *)
(* done.                                                                    *)
TokenComes(t) ==
  /\ task[t].at = "served" /\ task[t].status = "ok" /\ task[t].got # NoToken
  /\ token' = task[t].got
  /\ IF task[t].kind = "login"
     THEN /\ task' = MarkStale([task EXCEPT ![t].at = "storage"])
          /\ queue' = Append(queue, Ask(t, TRUE, "write", FirstField("write"), task[t].acct))
          /\ overtaken' = FALSE
     ELSE /\ task' = [task EXCEPT ![t] = Rest]
          /\ overtaken' = task[t].stale
          /\ UNCHANGED queue
  /\ UNCHANGED <<stored, handler, refused, server>>

CallSucceeds(t) ==
  /\ task[t].at = "served" /\ task[t].status = "ok" /\ task[t].got = NoToken
  /\ task' = [task EXCEPT ![t] = Rest]
  /\ UNCHANGED <<token, stored, queue, handler, refused, overtaken, server>>

(* What a task does with an exception: a refresh clears the storage.        *)
Caught(t) ==
  IF task[t].kind = "refresh" THEN [task[t] EXCEPT !.at = "storage"] ELSE Rest

CaughtQueue(t, q) == IF task[t].kind = "refresh" THEN Append(q, Clearing(t, TRUE)) ELSE q

(* MUTANT of Refused: the handler leaves the token to the caller.           *)
RefusedKeepingToken(t) ==
  /\ task[t].at = "served" /\ task[t].status = "refused"
  /\ handler' = [handler EXCEPT ![t] = "storage"]
  /\ queue' = CaughtQueue(t, Append(queue, Clearing(t, FALSE)))
  /\ task' = MarkStale([task EXCEPT ![t] = Caught(t)])
  /\ refused' = refused \cup ({task[t].carried} \ {NoToken})
  /\ overtaken' = FALSE
  /\ UNCHANGED <<token, stored, server>>

(* A 401, whichever request it answers: the handler runs up to its first    *)
(* await, then the exception reaches the task.                              *)
Refused(t) ==
  /\ task[t].at = "served" /\ task[t].status = "refused"
  /\ token' = NoToken
  /\ handler' = [handler EXCEPT ![t] = "storage"]
  /\ queue' = CaughtQueue(t, Append(queue, Clearing(t, FALSE)))
  /\ task' = MarkStale([task EXCEPT ![t] = Caught(t)])
  /\ refused' = refused \cup ({task[t].carried} \ {NoToken})
  /\ overtaken' = FALSE
  /\ UNCHANGED <<stored, server>>

(* MUTANT of Fails: no request has a timeout.                               *)
FailsIfServed(t) ==
  /\ task[t].at = "served"
  /\ task' = [task EXCEPT ![t] = Caught(t)]
  /\ queue' = CaughtQueue(t, queue)
  /\ UNCHANGED <<token, stored, handler, refused, overtaken, server>>

(* Any other failure: a timeout, which may hide that the server has served  *)
(* the request, a broken connection, 403, 429, 5xx.                         *)
Fails(t) ==
  /\ task[t].at \in {"sent", "served"}
  /\ task' = [task EXCEPT ![t] = Caught(t)]
  /\ queue' = CaughtQueue(t, queue)
  /\ UNCHANGED <<token, stored, handler, refused, overtaken, server>>

-----------------------------------------------------------------------------
(* The storage does what it was asked first, and the asker goes on.         *)
Effect(op) == IF op.do = "read" THEN stored ELSE [stored EXCEPT ![op.field] = op.value]

Then(op) == [op EXCEPT !.field = LastField(op.do)]

(* MUTANT of Learned: a refresh without the pair asks with what it has.     *)
LearnedAnyhow(t, a, u) == [task[t] EXCEPT !.at = "sent", !.uid = u, !.carried = token]

(* A refresh has read both: without them there is nothing to exchange.      *)
Learned(t, a, u) ==
  IF a = Nobody \/ u = Nobody THEN Rest
  ELSE [task[t] EXCEPT !.at = "sent", !.uid = u, !.carried = token]

StorageStep ==
  /\ queue # <<>>
  /\ LET op == Head(queue)
         t == op.task
         more == op.field = FirstField(op.do)
     IN /\ stored' = Effect(op)
        /\ queue' = IF more THEN Append(Tail(queue), Then(op)) ELSE Tail(queue)
        /\ task' = IF ~op.own \/ (more /\ op.do # "read") THEN task
                   ELSE [task EXCEPT ![t] =
                           IF more THEN [@ EXCEPT !.acct = stored.key]
                           ELSE IF op.do = "read" THEN Learned(t, @.acct, stored.uid) ELSE Rest]
        /\ handler' = IF op.own \/ more THEN handler ELSE [handler EXCEPT ![t] = "none"]
  /\ UNCHANGED <<token, refused, overtaken, server>>

-----------------------------------------------------------------------------
Answer(t) == TokenComes(t) \/ CallSucceeds(t) \/ Refused(t) \/ Fails(t)

Begin(t) ==
  \/ \E a \in Accounts : StartLogin(t, a)
  \/ StartRefresh(t) \/ StartLogout(t)
  \/ \E kind \in Calls : StartCall(t, kind)

Next ==
  \/ \E t \in Tasks : Begin(t) \/ Serve(t) \/ Answer(t)
  \/ StorageStep
  \/ \E k \in Tokens : Expire(k)
  \/ \E a \in Accounts : Close(a)

Spec == Init /\ [][Next]_vars

(* Dio answers every request, with a timeout if need be; the storage works. *)
FairSpec == Spec /\ WF_vars(StorageStep) /\ \A t \in Tasks : WF_vars(Answer(t))

-----------------------------------------------------------------------------
Kinds == {"none", "login", "refresh", "logout", "call", "register"}
Holders == Accounts \cup {Nobody}

Operations == [task : Tasks, own : BOOLEAN, do : {"write", "read", "delete"},
               field : {"key", "uid"}, value : Holders]

KnownTokens == {NoToken} \cup Issued

Doings == [kind : Kinds, at : {"idle", "storage", "sent", "served"},
           acct : Holders, uid : Holders, carried : KnownTokens,
           status : {"none", "ok", "refused"}, got : KnownTokens, stale : BOOLEAN]

TypeOK ==
  /\ token \in KnownTokens
  /\ stored \in [key : Holders, uid : Holders]
  /\ queue \in Seq(Operations)
  /\ task \in [Tasks -> Doings]
  /\ handler \in [Tasks -> {"none", "storage"}]
  /\ open \subseteq Accounts /\ owner \in [Tokens -> Holders] /\ valid \subseteq Issued
  /\ refused \subseteq Issued /\ overtaken \in BOOLEAN

(* However logins, logouts, refreshes and 401 handlers interleave, once the *)
(* storage has nothing left to do it holds the key and the id of the same   *)
(* account or neither (auth_repository.dart:68-69, 105-106).                *)
NoHalfPair == queue = <<>> => stored.key = stored.uid

(* What a refresh exchanges are the key and the id of one account, though   *)
(* it reads them at two times (auth_repository.dart:77-79).                 *)
RefreshSendsPair ==
  \A t \in Tasks : task[t].kind = "refresh" /\ task[t].at \in {"sent", "served"} =>
    task[t].acct = task[t].uid /\ task[t].acct # Nobody

(* Both: neither what is stored nor what is sent mixes two accounts.        *)
PairsMatch == NoHalfPair /\ RefreshSendsPair

(* A token the server has refused is not used again, however late its 401   *)
(* comes and whatever answers come after it (auth_repository.dart:110-113). *)
RefusedNotReused == token \notin refused

(* The token in memory is that of the account in the storage, unless the    *)
(* credentials were changed under the refresh it came from.                 *)
TokenOfStored ==
  queue = <<>> /\ token # NoToken /\ stored.key # Nobody /\ ~overtaken =>
    owner[token] = stored.key

(* Whatever was begun ends, also when the server says nothing.              *)
TasksEnd == \A t \in Tasks : task[t].at # "idle" ~> task[t].at = "idle"

(* "The app silently re-exchanges the stored API key + user ID for a fresh  *)
(* token whenever a 401 is received" (SPEC.md:94): only a logout, or a      *)
(* server that refuses the exchange itself, takes the key of an account     *)
(* that is still open from the storage.                                     *)
KeyOutlivesToken ==
  [][stored.key \in open /\ stored'.key = Nobody =>
       task[Head(queue).task].kind = "logout"]_vars
=============================================================================
