----------------------- MODULE ClientCredentialsProofs -----------------------
(***************************************************************************)
(* The credentials of the client for any number of tasks, accounts and     *)
(* tokens.                                                                 *)
(***************************************************************************)
EXTENDS ClientCredentials, SequenceTheorems, TLAPS

-----------------------------------------------------------------------------
(* What the storage will hold.                                              *)

Fields == {"key", "uid"}
Pairs == [key : Holders, uid : Holders]

Writes(op, f) == op.do # "read" /\ op.field = f

(* Once the first n operations of q are done on s, the field f holds v.     *)
Leaves(q, n, s, f, v) ==
  \/ \E i \in 1..n : /\ Writes(q[i], f) /\ q[i].value = v
                     /\ \A j \in (i + 1)..n : ~Writes(q[j], f)
  \/ (\A j \in 1..n : ~Writes(q[j], f)) /\ s[f] = v

LeavesAll(q, s, f, v) == Leaves(q, Len(q), s, f, v)

After(op, s) == IF op.do = "read" THEN s ELSE [s EXCEPT ![op.field] = op.value]

LEMMA AppendLeaves ==
  ASSUME NEW q \in Seq(Operations), NEW op \in Operations, NEW s, NEW f, NEW v
  PROVE  /\ ~Writes(op, f) /\ LeavesAll(q, s, f, v) => LeavesAll(Append(q, op), s, f, v)
         /\ Writes(op, f) => LeavesAll(Append(q, op), s, f, op.value)
         /\ \A n \in 0..Len(q) : Leaves(q, n, s, f, v) => Leaves(Append(q, op), n, s, f, v)
<1> DEFINE r == Append(q, op)
           n == Len(q)
<1>1. /\ n \in Nat /\ Len(r) = n + 1 /\ r[n + 1] = op
      /\ \A i \in 1..n : r[i] = q[i]
  OBVIOUS
<1> HIDE DEF r, n
<1>2. ASSUME NEW m \in 0..n, Leaves(q, m, s, f, v)
      PROVE  Leaves(r, m, s, f, v)
  <2>1. \A i \in 1..m : r[i] = q[i]
    BY <1>1, SMT
  <2>2. CASE \E i \in 1..m : /\ Writes(q[i], f) /\ q[i].value = v
                             /\ \A j \in (i + 1)..m : ~Writes(q[j], f)
    <3>1. PICK i \in 1..m : /\ Writes(q[i], f) /\ q[i].value = v
                            /\ \A j \in (i + 1)..m : ~Writes(q[j], f)
      BY <2>2
    <3>2. (i + 1)..m \subseteq 1..m
      BY <1>1, SMT
    <3>3. Writes(r[i], f) /\ r[i].value = v /\ \A j \in (i + 1)..m : ~Writes(r[j], f)
      BY <2>1, <3>1, <3>2
    <3>4. QED
      BY <3>3 DEF Leaves
  <2>3. CASE (\A j \in 1..m : ~Writes(q[j], f)) /\ s[f] = v
    BY <2>1, <2>3 DEF Leaves
  <2>4. QED
    BY <1>2, <2>2, <2>3 DEF Leaves
<1>3. ASSUME ~Writes(op, f), LeavesAll(q, s, f, v)
      PROVE  LeavesAll(r, s, f, v)
  <2>1. Leaves(r, n, s, f, v)
    BY <1>1, <1>2, <1>3, SMT DEF LeavesAll, n
  <2>2. CASE \E i \in 1..n : /\ Writes(r[i], f) /\ r[i].value = v
                             /\ \A j \in (i + 1)..n : ~Writes(r[j], f)
    <3>1. PICK i \in 1..n : /\ Writes(r[i], f) /\ r[i].value = v
                            /\ \A j \in (i + 1)..n : ~Writes(r[j], f)
      BY <2>2
    <3>2. i \in 1..(n + 1) /\ \A j \in (i + 1)..(n + 1) : j \in (i + 1)..n \/ j = n + 1
      BY <1>1, SMT
    <3>3. \A j \in (i + 1)..(n + 1) : ~Writes(r[j], f)
      BY <1>1, <1>3, <3>1, <3>2
    <3>4. QED
      BY <1>1, <3>1, <3>2, <3>3 DEF Leaves, LeavesAll
  <2>3. CASE (\A j \in 1..n : ~Writes(r[j], f)) /\ s[f] = v
    <3>1. \A j \in 1..(n + 1) : j \in 1..n \/ j = n + 1
      BY <1>1, SMT
    <3>2. QED
      BY <1>1, <1>3, <2>3, <3>1 DEF Leaves, LeavesAll
  <2>4. QED
    BY <2>1, <2>2, <2>3 DEF Leaves
<1>4. ASSUME Writes(op, f)
      PROVE  LeavesAll(r, s, f, op.value)
  <2>1. n + 1 \in 1..(n + 1) /\ (n + 2)..(n + 1) = {}
    BY <1>1, SMT
  <2>2. (n + 1) + 1 = n + 2
    BY <1>1, SMT
  <2>3. QED
    BY <1>1, <1>4, <2>1, <2>2 DEF Leaves, LeavesAll
<1>5. QED
  BY <1>2, <1>3, <1>4 DEF r, n

(* The storage takes the first operation.                                   *)
LEMMA TailLeaves ==
  ASSUME NEW q \in Seq(Operations), q # <<>>, NEW s \in Pairs, NEW f \in Fields, NEW v,
         NEW n \in 1..Len(q), Leaves(q, n, s, f, v)
  PROVE  Leaves(Tail(q), n - 1, After(Head(q), s), f, v)
<1> DEFINE r == Tail(q)
           op == Head(q)
<1>1. /\ Len(q) \in Nat /\ Len(r) = Len(q) - 1 /\ q[1] = op /\ op \in Operations
      /\ \A i \in 1..(n - 1) : r[i] = q[i + 1]
  OBVIOUS
<1>2. /\ ~Writes(op, f) => After(op, s)[f] = s[f]
      /\ Writes(op, f) => After(op, s)[f] = op.value
  BY <1>1 DEF After, Writes, Pairs, Fields, Operations
<1> SUFFICES Leaves(r, n - 1, After(op, s), f, v)
  OBVIOUS
<1> HIDE DEF r, op
<1>3. CASE \E i \in 1..n : /\ Writes(q[i], f) /\ q[i].value = v
                           /\ \A j \in (i + 1)..n : ~Writes(q[j], f)
  <2>1. PICK i \in 1..n : /\ Writes(q[i], f) /\ q[i].value = v
                          /\ \A j \in (i + 1)..n : ~Writes(q[j], f)
    BY <1>3
  <2>2. CASE i = 1
    <3>1. \A j \in 1..(n - 1) : j + 1 \in (i + 1)..n
      BY <1>1, <2>2, SMT
    <3>2. QED
      BY <1>1, <1>2, <2>1, <2>2, <3>1 DEF Leaves
  <2>3. CASE i # 1
    <3>1. /\ i - 1 \in 1..(n - 1) /\ (i - 1) + 1 = i
          /\ \A j \in ((i - 1) + 1)..(n - 1) : j \in 1..(n - 1) /\ j + 1 \in (i + 1)..n
      BY <1>1, <2>3, SMT
    <3>2. Writes(r[i - 1], f) /\ r[i - 1].value = v
      BY <1>1, <2>1, <3>1
    <3>3. \A j \in ((i - 1) + 1)..(n - 1) : ~Writes(r[j], f)
      BY <1>1, <2>1, <3>1
    <3>4. QED
      BY <3>1, <3>2, <3>3, Zenon DEF Leaves
  <2>4. QED
    BY <2>2, <2>3
<1>4. CASE (\A j \in 1..n : ~Writes(q[j], f)) /\ s[f] = v
  <2>1. 1 \in 1..n /\ \A j \in 1..(n - 1) : j + 1 \in 1..n
    BY <1>1, SMT
  <2>2. QED
    BY <1>1, <1>2, <1>4, <2>1 DEF Leaves
<1>5. QED
  BY <1>3, <1>4 DEF Leaves

-----------------------------------------------------------------------------
(* Types.                                                                   *)

LEMMA Marking ==
  ASSUME NEW T \in [Tasks -> Doings]
  PROVE  /\ MarkStale(T) \in [Tasks -> Doings]
         /\ \A s \in Tasks :
              /\ Refreshing(s) => MarkStale(T)[s] = [T[s] EXCEPT !.stale = TRUE]
              /\ ~Refreshing(s) => MarkStale(T)[s] = T[s]
  BY DEF MarkStale, Doings

LEMMA RestTyped == Rest \in Doings
  BY DEF Rest, Doings, Kinds, Holders, KnownTokens, NoToken

LEMMA AskTyped ==
  ASSUME NEW t \in Tasks, NEW own \in BOOLEAN, NEW do \in {"write", "read", "delete"},
         NEW v \in Holders
  PROVE  /\ Ask(t, own, do, FirstField(do), v) \in Operations
         /\ Ask(t, own, do, FirstField(do), v).field = "key"
  BY DEF Ask, FirstField, Operations

LEMMA CaughtTyped ==
  ASSUME NEW t \in Tasks, task \in [Tasks -> Doings], NEW q \in Seq(Operations)
  PROVE  Caught(t) \in Doings /\ CaughtQueue(t, q) \in Seq(Operations)
<1>1. Caught(t) \in Doings
  BY RestTyped DEF Caught, Doings
<1>2. Clearing(t, TRUE) \in Operations
  BY AskTyped DEF Clearing, Holders
<1>3. Append(q, Clearing(t, TRUE)) \in Seq(Operations)
  BY <1>2, AppendProperties
<1>4. QED
  BY <1>1, <1>3 DEF CaughtQueue

(* What the type of a task says, in a form that does not mention the owners *)
(* of the tokens: tokens once issued stay issued.                           *)
LEMMA IssuedStay ==
  ASSUME TypeOK, \/ owner' = owner
                 \/ \E k \in Tokens \ Issued, a \in Accounts : owner' = [owner EXCEPT ![k] = a]
  PROVE  Issued \subseteq Issued' /\ KnownTokens \subseteq KnownTokens' /\ Doings \subseteq Doings'
<1>1. Issued \subseteq Issued'
  BY NobodyAssumption DEF TypeOK, Issued, Tokens
<1>2. KnownTokens \subseteq KnownTokens'
  BY <1>1 DEF KnownTokens
<1>3. QED
  BY <1>1, <1>2 DEF Doings

LEMMA Served ==
  ASSUME TypeOK, NEW t \in Tasks, Serve(t)
  PROVE  \/ \E k \in Tokens \ Issued :
              /\ task[t].kind \in {"login", "refresh"} /\ task[t].acct \in Accounts
              /\ task[t].acct = task[t].uid
              /\ owner' = [owner EXCEPT ![k] = task[t].acct] /\ valid' = valid \cup {k}
              /\ task' = [task EXCEPT ![t] = [@ EXCEPT !.at = "served", !.status = "ok", !.got = k]]
         \/ /\ task[t].kind = "call" \/ ~Accepts(t)
            /\ owner' = owner /\ valid' = valid
            /\ task' = [task EXCEPT ![t] = [@ EXCEPT !.at = "served",
                                              !.status = IF Accepts(t) THEN "ok" ELSE "refused"]]
<1>1. CASE Accepts(t) /\ task[t].kind # "call"
  <2>1. task[t].kind \in {"login", "refresh"}
    BY <1>1 DEF Accepts
  <2>2. task[t].acct \in Accounts /\ task[t].acct = task[t].uid
    BY <1>1, <2>1 DEF Accepts, TypeOK
  <2>3. QED
    BY <1>1, <2>1, <2>2 DEF Serve
<1>2. CASE ~(Accepts(t) /\ task[t].kind # "call")
  BY <1>2 DEF Serve
<1>3. QED
  BY <1>1, <1>2

(* Only Serve and Expire and Close touch what the server has.               *)
LEMMA ClientStepTyped ==
  ASSUME TypeOK, UNCHANGED server,
         token' \in KnownTokens, stored' \in Pairs, queue' \in Seq(Operations),
         task' \in [Tasks -> Doings], handler' \in [Tasks -> {"none", "storage"}],
         refused' \subseteq Issued, overtaken' \in BOOLEAN
  PROVE  TypeOK'
<1>1. open' = open /\ owner' = owner /\ valid' = valid
  BY DEF server
<1>2. Issued' = Issued /\ KnownTokens' = KnownTokens /\ Doings' = Doings
  BY <1>1 DEF Issued, KnownTokens, Doings
<1>3. QED
  BY <1>1, <1>2 DEF TypeOK, Pairs

LEMMA StartTyped ==
  ASSUME TypeOK, NEW t \in Tasks
  PROVE  /\ \A a \in Accounts : StartLogin(t, a) => TypeOK'
         /\ StartRefresh(t) => TypeOK'
         /\ \A kind \in Calls : StartCall(t, kind) => TypeOK'
         /\ StartLogout(t) => TypeOK'
<1>1. ASSUME NEW a \in Accounts, StartLogin(t, a)
      PROVE  TypeOK'
  <2>1. task' \in [Tasks -> Doings]
    BY <1>1, RestTyped DEF StartLogin, Start, TypeOK, Doings, Kinds, Holders
  <2>2. QED
    BY <1>1, <2>1, ClientStepTyped DEF StartLogin, TypeOK, Pairs
<1>2. ASSUME StartRefresh(t)
      PROVE  TypeOK'
  <2>1. task' \in [Tasks -> Doings]
    BY <1>2, RestTyped DEF StartRefresh, Start, TypeOK, Doings, Kinds
  <2>2. Ask(t, TRUE, "read", FirstField("read"), Nobody) \in Operations
    BY AskTyped DEF Holders
  <2>3. queue' \in Seq(Operations)
    BY <1>2, <2>2, AppendProperties DEF StartRefresh, TypeOK
  <2>4. QED
    BY <1>2, <2>1, <2>3, ClientStepTyped DEF StartRefresh, TypeOK, Pairs
<1>3. ASSUME NEW kind \in Calls, StartCall(t, kind)
      PROVE  TypeOK'
  <2>1. kind \in Kinds
    BY CallsAssumption DEF Kinds
  <2>2. task' \in [Tasks -> Doings]
    BY <1>3, <2>1, RestTyped DEF StartCall, Start, TypeOK, Doings
  <2>3. QED
    BY <1>3, <2>2, ClientStepTyped DEF StartCall, TypeOK, Pairs
<1>4. ASSUME StartLogout(t)
      PROVE  TypeOK'
  <2>1. [task EXCEPT ![t] = [Rest EXCEPT !.kind = "logout", !.at = "storage"]] \in [Tasks -> Doings]
    BY RestTyped DEF TypeOK, Doings, Kinds
  <2>2. task' \in [Tasks -> Doings]
    BY <1>4, <2>1, Marking DEF StartLogout
  <2>3. Ask(t, TRUE, "delete", FirstField("delete"), Nobody) \in Operations
    BY AskTyped DEF Holders
  <2>4. queue' \in Seq(Operations)
    BY <1>4, <2>3, AppendProperties DEF StartLogout, TypeOK
  <2>5. QED
    BY <1>4, <2>2, <2>4, ClientStepTyped DEF StartLogout, TypeOK, Pairs, KnownTokens
<1>5. QED
  BY <1>1, <1>2, <1>3, <1>4

LEMMA ServerTyped ==
  ASSUME TypeOK
  PROVE  /\ \A t \in Tasks : Serve(t) => TypeOK'
         /\ \A k \in Tokens : Expire(k) => TypeOK'
         /\ \A a \in Accounts : Close(a) => TypeOK'
<1>1. ASSUME NEW t \in Tasks, Serve(t)
      PROVE  TypeOK'
  <2>1. Issued \subseteq Issued' /\ KnownTokens \subseteq KnownTokens' /\ Doings \subseteq Doings'
    BY <1>1, IssuedStay, Served
  <2>2. /\ UNCHANGED <<token, stored, queue, handler, refused, overtaken, open>>
    BY <1>1 DEF Serve
  <2>3. CASE \E k \in Tokens \ Issued :
               /\ task[t].acct \in Accounts
               /\ owner' = [owner EXCEPT ![k] = task[t].acct] /\ valid' = valid \cup {k}
               /\ task' = [task EXCEPT ![t] = [@ EXCEPT !.at = "served", !.status = "ok", !.got = k]]
    <3>1. PICK k \in Tokens \ Issued :
               /\ task[t].acct \in Accounts
               /\ owner' = [owner EXCEPT ![k] = task[t].acct] /\ valid' = valid \cup {k}
               /\ task' = [task EXCEPT ![t] = [@ EXCEPT !.at = "served", !.status = "ok", !.got = k]]
      BY <2>3
    <3>2. k \in Issued' /\ k \in KnownTokens' /\ owner' \in [Tokens -> Holders]
      <4>1. owner' \in [Tokens -> Holders] /\ owner'[k] # Nobody
        BY <3>1, NobodyAssumption DEF TypeOK, Holders
      <4>2. k \in Issued'
        BY <4>1 DEF Issued
      <4>3. QED
        BY <4>1, <4>2 DEF KnownTokens
    <3>3. task \in [Tasks -> Doings']
      BY <2>1 DEF TypeOK
    <3>4. task' \in [Tasks -> Doings']
      <4> DEFINE q == [task[t] EXCEPT !.at = "served", !.status = "ok", !.got = k]
      <4>1. task[t] \in Doings'
        BY <3>3
      <4>2. q \in Doings'
        BY <4>1, <3>2 DEF Doings
      <4>3. task' = [task EXCEPT ![t] = q]
        BY <3>1
      <4> HIDE DEF q
      <4>4. QED
        BY <3>3, <4>2, <4>3
    <3>5. token \in KnownTokens' /\ valid' \subseteq Issued' /\ refused \subseteq Issued'
      BY <2>1, <3>1, <3>2 DEF TypeOK
    <3>6. QED
      BY <2>2, <3>2, <3>4, <3>5 DEF TypeOK
  <2>4. CASE /\ owner' = owner /\ valid' = valid
             /\ task' = [task EXCEPT ![t] = [@ EXCEPT !.at = "served",
                                               !.status = IF Accepts(t) THEN "ok" ELSE "refused"]]
    <3>1. Issued' = Issued /\ KnownTokens' = KnownTokens /\ Doings' = Doings
      BY <2>4 DEF Issued, KnownTokens, Doings
    <3>2. task' \in [Tasks -> Doings]
      <4> DEFINE answer == IF Accepts(t) THEN "ok" ELSE "refused"
                 q == [task[t] EXCEPT !.at = "served", !.status = answer]
      <4>1. answer \in {"ok", "refused"}
        OBVIOUS
      <4>2. task' = [task EXCEPT ![t] = q]
        BY <2>4
      <4> HIDE DEF answer
      <4>3. task \in [Tasks -> Doings] /\ task[t] \in Doings
        BY DEF TypeOK
      <4>4. q \in Doings
        BY <4>1, <4>3 DEF Doings
      <4> HIDE DEF q
      <4>5. QED
        BY <4>2, <4>3, <4>4
    <3>3. QED
      BY <2>2, <2>4, <3>1, <3>2 DEF TypeOK
  <2>5. QED
    BY <1>1, <2>3, <2>4, Served
<1>2. ASSUME NEW k \in Tokens, Expire(k)
      PROVE  TypeOK'
  <2>1. owner' = owner /\ open' = open /\ valid' \subseteq valid /\ UNCHANGED client
    BY <1>2 DEF Expire
  <2>2. Issued' = Issued /\ KnownTokens' = KnownTokens /\ Doings' = Doings
    BY <2>1 DEF Issued, KnownTokens, Doings
  <2>3. QED
    BY <2>1, <2>2 DEF TypeOK, client
<1>3. ASSUME NEW a \in Accounts, Close(a)
      PROVE  TypeOK'
  <2>1. owner' = owner /\ open' \subseteq open /\ valid' \subseteq valid /\ UNCHANGED client
    BY <1>3 DEF Close
  <2>2. Issued' = Issued /\ KnownTokens' = KnownTokens /\ Doings' = Doings
    BY <2>1 DEF Issued, KnownTokens, Doings
  <2>3. QED
    BY <2>1, <2>2 DEF TypeOK, client
<1>4. QED
  BY <1>1, <1>2, <1>3

LEMMA AnswerTyped ==
  ASSUME TypeOK, NEW t \in Tasks
  PROVE  /\ TokenComes(t) => TypeOK'
         /\ CallSucceeds(t) => TypeOK'
         /\ Refused(t) => TypeOK'
         /\ Fails(t) => TypeOK'
<1>1. task \in [Tasks -> Doings] /\ queue \in Seq(Operations) /\ task[t] \in Doings
  BY DEF TypeOK
<1>2. ASSUME TokenComes(t)
      PROVE  TypeOK'
  <2>1. token' \in KnownTokens /\ overtaken' \in BOOLEAN
    BY <1>1, <1>2 DEF TokenComes, Doings
  <2>2. CASE task[t].kind = "login"
    <3>1. [task EXCEPT ![t].at = "storage"] \in [Tasks -> Doings]
      BY <1>1 DEF Doings
    <3>2. task' \in [Tasks -> Doings]
      BY <1>2, <2>2, <3>1, Marking DEF TokenComes
    <3>3. Ask(t, TRUE, "write", FirstField("write"), task[t].acct) \in Operations
      BY <1>1, AskTyped DEF Doings
    <3>4. queue' \in Seq(Operations)
      BY <1>1, <1>2, <2>2, <3>3, AppendProperties DEF TokenComes
    <3>5. QED
      BY <1>2, <2>1, <3>2, <3>4, ClientStepTyped DEF TokenComes, TypeOK, Pairs
  <2>3. CASE task[t].kind # "login"
    <3>1. task' \in [Tasks -> Doings]
      BY <1>1, <1>2, <2>3, RestTyped DEF TokenComes
    <3>2. QED
      BY <1>1, <1>2, <2>1, <2>3, <3>1, ClientStepTyped DEF TokenComes, TypeOK, Pairs
  <2>4. QED
    BY <2>2, <2>3
<1>3. ASSUME CallSucceeds(t)
      PROVE  TypeOK'
  <2>1. task' \in [Tasks -> Doings]
    BY <1>1, <1>3, RestTyped DEF CallSucceeds
  <2>2. QED
    BY <1>3, <2>1, ClientStepTyped DEF CallSucceeds, TypeOK, Pairs
<1>4. ASSUME Refused(t)
      PROVE  TypeOK'
  <2>1. Append(queue, Clearing(t, FALSE)) \in Seq(Operations)
    BY <1>1, AskTyped, AppendProperties DEF Clearing, Holders
  <2>2. queue' \in Seq(Operations) /\ Caught(t) \in Doings
    BY <1>1, <1>4, <2>1, CaughtTyped DEF Refused
  <2>3. [task EXCEPT ![t] = Caught(t)] \in [Tasks -> Doings]
    BY <1>1, <2>2
  <2>4. task' \in [Tasks -> Doings]
    BY <1>4, <2>3, Marking DEF Refused
  <2>5. refused' \subseteq Issued
    BY <1>1, <1>4 DEF Refused, TypeOK, Doings, KnownTokens
  <2>6. handler' \in [Tasks -> {"none", "storage"}]
    BY <1>4 DEF Refused, TypeOK
  <2>7. QED
    BY <1>4, <2>2, <2>4, <2>5, <2>6, ClientStepTyped DEF Refused, TypeOK, Pairs, KnownTokens
<1>5. ASSUME Fails(t)
      PROVE  TypeOK'
  <2>1. queue' \in Seq(Operations) /\ Caught(t) \in Doings
    BY <1>1, <1>5, CaughtTyped DEF Fails
  <2>2. task' \in [Tasks -> Doings]
    BY <1>1, <1>5, <2>1 DEF Fails
  <2>3. QED
    BY <1>5, <2>1, <2>2, ClientStepTyped DEF Fails, TypeOK, Pairs
<1>6. QED
  BY <1>2, <1>3, <1>4, <1>5

(* The step of the storage: its two kinds, and what it means for the task.  *)
LEMMA StorageTyped ==
  ASSUME TypeOK, StorageStep
  PROVE  TypeOK'
<1> DEFINE op == Head(queue)
           t == op.task
<1>1. /\ op \in Operations /\ Tail(queue) \in Seq(Operations) /\ queue # <<>>
      /\ task \in [Tasks -> Doings] /\ t \in Tasks /\ task[t] \in Doings
      /\ stored.key \in Holders /\ stored.uid \in Holders /\ stored \in Pairs
  <2>1. queue \in Seq(Operations) /\ queue # <<>> /\ task \in [Tasks -> Doings]
    BY DEF TypeOK, StorageStep
  <2>2. op \in Operations /\ Tail(queue) \in Seq(Operations)
    BY <2>1, HeadTailProperties
  <2>3. t \in Tasks
    BY <2>2 DEF Operations
  <2>4. stored.key \in Holders /\ stored.uid \in Holders /\ stored \in Pairs
    BY DEF TypeOK, Pairs
  <2>5. QED
    BY <2>1, <2>2, <2>3, <2>4
<1>2. Then(op) \in Operations
  BY <1>1 DEF Then, LastField, FirstField, Operations
<1>3. queue' \in Seq(Operations)
  <2>1. Append(Tail(queue), Then(op)) \in Seq(Operations)
    BY <1>1, <1>2, AppendProperties
  <2>2. QED
    BY <1>1, <2>1 DEF StorageStep
<1>4. stored' \in Pairs
  <2>1. stored' = Effect(op) /\ op.value \in Holders /\ op.field \in {"key", "uid"}
    BY <1>1 DEF StorageStep, Operations
  <2>2. QED
    BY <1>1, <2>1 DEF Effect, Pairs
<1>5. task' \in [Tasks -> Doings]
  <2>1. [task EXCEPT ![t].acct = stored.key] \in [Tasks -> Doings]
    BY <1>1 DEF Doings
  <2>2. Learned(t, task[t].acct, stored.uid) \in Doings
    BY <1>1, RestTyped DEF Learned, Doings, TypeOK
  <2>3. task' \in {task, [task EXCEPT ![t].acct = stored.key],
                   [task EXCEPT ![t] = Learned(t, task[t].acct, stored.uid)],
                   [task EXCEPT ![t] = Rest]}
    BY DEF StorageStep
  <2>4. QED
    BY <1>1, <2>1, <2>2, <2>3, RestTyped
<1>6. handler' \in [Tasks -> {"none", "storage"}]
  BY <1>1 DEF StorageStep, TypeOK
<1>7. QED
  BY <1>3, <1>4, <1>5, <1>6, ClientStepTyped DEF StorageStep, TypeOK

-----------------------------------------------------------------------------
(* Tokens.                                                                  *)

(* An answer with a token that the client has not read yet.                 *)
Pending(t) == task[t].at = "served" /\ task[t].status = "ok" /\ task[t].got # NoToken

(* Such a token is new to the client, and of the account that asked for it. *)
NewToken(t) ==
  /\ task[t].got \notin refused /\ task[t].got # token
  /\ \A s \in Tasks : task[s].carried # task[t].got
  /\ \A s \in Tasks : s # t /\ Pending(s) => task[s].got # task[t].got
  /\ owner[task[t].got] = task[t].acct

FreshTokens ==
  /\ RefusedNotReused
  /\ \A t \in Tasks : task[t].kind \notin {"login", "refresh"} => task[t].got = NoToken
  /\ \A t \in Tasks : Pending(t) => NewToken(t)

(* A step leaves the task as it is, but for its being stale, or it leaves   *)
(* it without a token to be read.                                           *)
Same(s) ==
  /\ task'[s].kind = task[s].kind /\ task'[s].at = task[s].at /\ task'[s].acct = task[s].acct
  /\ task'[s].uid = task[s].uid /\ task'[s].carried = task[s].carried
  /\ task'[s].status = task[s].status /\ task'[s].got = task[s].got

Dull(s) ==
  /\ ~(task'[s].at = "served" /\ task'[s].status = "ok" /\ task'[s].got # NoToken)
  /\ task'[s].carried \in {task[s].carried, token, NoToken}
  /\ task'[s].kind \notin {"login", "refresh"} => task'[s].got = NoToken

LEMMA StaleSame ==
  ASSUME NEW s \in Tasks, task \in [Tasks -> Doings],
         task'[s] = task[s] \/ task'[s] = [task[s] EXCEPT !.stale = TRUE]
  PROVE  Same(s)
<1>1. task[s] \in Doings
  OBVIOUS
<1>2. CASE task'[s] = task[s]
  BY <1>2 DEF Same
<1>3. CASE task'[s] = [task[s] EXCEPT !.stale = TRUE]
  BY <1>1, <1>3 DEF Same, Doings
<1>4. QED
  BY <1>2, <1>3

LEMMA FreshKept ==
  ASSUME TypeOK, FreshTokens, owner' = owner,
         \A s \in Tasks : Same(s) \/ Dull(s),
         token' \in {token, NoToken},
         refused' \subseteq refused \cup {task[s].carried : s \in Tasks},
         NoToken \notin refused', token' # NoToken => refused' = refused
  PROVE  FreshTokens'
<1>1. RefusedNotReused'
  BY DEF FreshTokens, RefusedNotReused
<1>2. \A t \in Tasks : task'[t].kind \notin {"login", "refresh"} => task'[t].got = NoToken
  BY DEF FreshTokens, Same, Dull
<1>3. ASSUME NEW t \in Tasks, Pending(t)'
      PROVE  NewToken(t)'
  <2>1. Same(t) /\ Pending(t) /\ NewToken(t)
    BY <1>3 DEF Same, Dull, Pending, FreshTokens
  <2>2. task'[t].got = task[t].got /\ task'[t].acct = task[t].acct /\ task[t].got # NoToken
    BY <2>1 DEF Same, Pending
  <2>3. task[t].got \notin refused' /\ task[t].got # token'
    BY <2>1, <2>2 DEF NewToken
  <2>4. \A s \in Tasks : task'[s].carried # task[t].got
    BY <2>1, <2>2 DEF NewToken, Same, Dull
  <2>5. ASSUME NEW s \in Tasks, s # t, Pending(s)'
        PROVE  task'[s].got # task[t].got
    <3>1. Same(s) /\ Pending(s)
      BY <2>5 DEF Same, Dull, Pending
    <3>2. QED
      BY <2>1, <2>5, <3>1 DEF NewToken, Same
  <2>6. QED
    BY <2>1, <2>2, <2>3, <2>4, <2>5 DEF NewToken
<1>4. QED
  BY <1>1, <1>2, <1>3 DEF FreshTokens

LEMMA NoTokenRefused == TypeOK => NoToken \notin refused
  BY DEF TypeOK, Issued, Tokens, NoToken

(* The server issues a token.                                               *)
LEMMA ServeFresh ==
  ASSUME TypeOK, FreshTokens, NEW t \in Tasks, Serve(t)
  PROVE  FreshTokens'
<1>1. task \in [Tasks -> Doings] /\ UNCHANGED <<token, refused>>
  BY DEF TypeOK, Serve
<1>2. CASE \E k \in Tokens \ Issued :
             /\ task[t].kind \in {"login", "refresh"} /\ task[t].acct \in Accounts
             /\ task[t].acct = task[t].uid
             /\ owner' = [owner EXCEPT ![k] = task[t].acct] /\ valid' = valid \cup {k}
             /\ task' = [task EXCEPT ![t] = [@ EXCEPT !.at = "served", !.status = "ok", !.got = k]]
  <2>1. PICK k \in Tokens \ Issued :
             /\ task[t].kind \in {"login", "refresh"} /\ task[t].acct \in Accounts
             /\ owner' = [owner EXCEPT ![k] = task[t].acct]
             /\ task' = [task EXCEPT ![t] = [@ EXCEPT !.at = "served", !.status = "ok", !.got = k]]
    BY <1>2
  <2>2. k # NoToken /\ k \notin KnownTokens
    BY DEF Tokens, NoToken, KnownTokens
  <2>3. /\ \A s \in Tasks \ {t} : task'[s] = task[s]
        /\ task'[t].got = k /\ task'[t].carried = task[t].carried
        /\ task'[t].acct = task[t].acct /\ task'[t].kind = task[t].kind
    BY <1>1, <2>1 DEF Doings
  <2>4. \A s \in Tasks : task'[s].carried = task[s].carried /\ task[s].carried # k /\ task[s].got # k
    BY <1>1, <2>2, <2>3 DEF Doings
  <2>5. k \notin refused /\ k # token
    BY <2>1, <2>2 DEF TypeOK, KnownTokens
  <2>6. owner'[k] = task[t].acct /\ \A j \in Tokens \ {k} : owner'[j] = owner[j]
    BY <2>1 DEF TypeOK
  <2>7. RefusedNotReused'
    BY <1>1 DEF FreshTokens, RefusedNotReused
  <2>8. \A s \in Tasks : task'[s].kind \notin {"login", "refresh"} => task'[s].got = NoToken
    BY <2>1, <2>3 DEF FreshTokens
  <2>9. NewToken(t)'
    BY <1>1, <2>3, <2>4, <2>5, <2>6 DEF NewToken
  <2>10. ASSUME NEW s \in Tasks, s # t, Pending(s)'
         PROVE  NewToken(s)'
    <3>1. task'[s] = task[s] /\ Pending(s) /\ NewToken(s) /\ task[s].got # NoToken
      BY <2>3, <2>10 DEF Pending, FreshTokens
    <3>2. task[s].got \in Tokens \ {k}
      BY <1>1, <2>4, <3>1 DEF Doings, KnownTokens, Issued
    <3>3. owner'[task[s].got] = task[s].acct
      BY <2>6, <3>1, <3>2 DEF NewToken
    <3>4. \A r \in Tasks : r # s /\ Pending(r)' => task'[r].got # task[s].got
      BY <2>3, <2>4, <3>1 DEF NewToken, Pending
    <3>5. QED
      BY <1>1, <2>4, <3>1, <3>3, <3>4 DEF NewToken
  <2>11. QED
    BY <2>7, <2>8, <2>9, <2>10 DEF FreshTokens
<1>3. CASE /\ task[t].kind = "call" \/ ~Accepts(t)
           /\ owner' = owner
           /\ task' = [task EXCEPT ![t] = [@ EXCEPT !.at = "served",
                          !.status = IF Accepts(t) THEN "ok" ELSE "refused"]]
  <2>1. \A s \in Tasks : Same(s) \/ Dull(s)
    <3>1. \A s \in Tasks \ {t} : Same(s)
      BY <1>1, <1>3 DEF Same
    <3>2. task'[t].kind = task[t].kind /\ task'[t].got = task[t].got
          /\ task'[t].carried = task[t].carried
      BY <1>1, <1>3 DEF Doings
    <3>3. task[t].kind \notin {"login", "refresh"} => task[t].got = NoToken
      BY DEF FreshTokens
    <3>4. task'[t].got = NoToken \/ task'[t].status # "ok"
      <4>1. CASE Accepts(t)
        BY <1>3, <3>2, <3>3, <4>1
      <4>2. CASE ~Accepts(t)
        <5>1. task'[t] = [task[t] EXCEPT !.at = "served", !.status = "refused"]
          BY <1>1, <1>3, <4>2
        <5>2. QED
          BY <1>1, <5>1 DEF Doings
      <4>3. QED
        BY <4>1, <4>2
    <3>5. Dull(t)
      BY <3>2, <3>3, <3>4 DEF Dull
    <3>6. QED
      BY <3>1, <3>5
  <2>2. QED
    BY <1>1, <1>3, <2>1, FreshKept, NoTokenRefused
<1>4. QED
  BY <1>2, <1>3, Served

(* The client takes a token.                                                *)
LEMMA TokenComesFresh ==
  ASSUME TypeOK, FreshTokens, NEW t \in Tasks, TokenComes(t)
  PROVE  FreshTokens'
<1>1. /\ task \in [Tasks -> Doings] /\ task[t] \in Doings
      /\ Pending(t) /\ NewToken(t)
      /\ token' = task[t].got /\ UNCHANGED <<refused, owner>>
  BY DEF TypeOK, TokenComes, Pending, FreshTokens, server
<1>2. /\ \A s \in Tasks \ {t} : Same(s)
      /\ task'[t].at # "served" /\ task'[t].carried \in {task[t].carried, NoToken}
      /\ task'[t].kind \in {"login", "refresh"} \/ task'[t].got = NoToken
  <2>1. CASE task[t].kind = "login"
    <3> DEFINE T == [task EXCEPT ![t].at = "storage"]
    <3>1. T \in [Tasks -> Doings] /\ T[t] = [task[t] EXCEPT !.at = "storage"]
      BY <1>1 DEF Doings
    <3>2. ~Refreshing(t) /\ task' = MarkStale(T)
      BY <2>1 DEF Refreshing, TokenComes
    <3>3. task'[t] = [task[t] EXCEPT !.at = "storage"]
      <4> HIDE DEF T
      <4>1. MarkStale(T)[t] = T[t]
        BY <3>1, <3>2, Marking
      <4>2. QED
        BY <3>1, <3>2, <4>1
    <3>4. \A s \in Tasks \ {t} : task'[s] = task[s] \/ task'[s] = [task[s] EXCEPT !.stale = TRUE]
      <4>1. task' = MarkStale([task EXCEPT ![t].at = "storage"])
        BY <2>1 DEF TokenComes
      <4>2. \A s \in Tasks \ {t} : [task EXCEPT ![t].at = "storage"][s] = task[s]
        BY <1>1
      <4>3. QED
        BY <3>1, <4>1, <4>2, Marking
    <3>5. \A s \in Tasks \ {t} : Same(s)
      BY <1>1, <3>4, StaleSame
    <3>6. QED
      BY <1>1, <2>1, <3>3, <3>5 DEF Doings
  <2>2. CASE task[t].kind # "login"
    <3>1. task' = [task EXCEPT ![t] = Rest]
      BY <2>2 DEF TokenComes
    <3>2. QED
      BY <1>1, <3>1 DEF Same, Rest
  <2>3. QED
    BY <2>1, <2>2
<1>3. RefusedNotReused'
  BY <1>1 DEF RefusedNotReused, NewToken
<1>4. \A s \in Tasks : task'[s].kind \notin {"login", "refresh"} => task'[s].got = NoToken
  BY <1>2 DEF FreshTokens, Same
<1>5. ASSUME NEW s \in Tasks, Pending(s)'
      PROVE  NewToken(s)'
  <2>1. s # t /\ Same(s) /\ Pending(s) /\ NewToken(s) /\ task[s].got # NoToken
    BY <1>2, <1>5 DEF Pending, Same, FreshTokens
  <2>2. task[s].got # task[t].got
    BY <1>1, <2>1 DEF NewToken
  <2>3. \A r \in Tasks : task'[r].carried # task[s].got
    BY <1>2, <2>1 DEF NewToken, Same
  <2>4. \A r \in Tasks : r # s /\ Pending(r)' => task'[r].got # task[s].got
    BY <1>2, <2>1 DEF NewToken, Same, Pending
  <2>5. QED
    BY <1>1, <2>1, <2>2, <2>3, <2>4 DEF NewToken, Same
<1>6. QED
  BY <1>3, <1>4, <1>5 DEF FreshTokens

-----------------------------------------------------------------------------
(* The queue of the storage, the pair it works on, and the tasks.           *)

(* The key that will be stored is that of a, or none.                       *)
Tracks(q, s, a) == \E v \in {a, Nobody} : LeavesAll(q, s, "key", v)

(* After the i-th operation keys are only cleared.                          *)
OnlyCleared(q, i) ==
  \/ \A j \in (i + 1)..Len(q) : ~Writes(q[j], "key")
  \/ \E k \in (i + 1)..Len(q) : /\ Writes(q[k], "key") /\ q[k].value = Nobody
                               /\ \A j \in (k + 1)..Len(q) : ~Writes(q[j], "key")

(* A task waits for one operation at a time.  What a refresh has read of    *)
(* the key is what it will read of the id; and as long as it is not stale,  *)
(* the key it has read, or will read, stays or is cleared.                  *)
Underway(q, s, T, i) ==
  LET t == q[i].task
  IN /\ T[t].at = "storage"
     /\ \A j \in 1..Len(q) : q[j].own /\ q[j].task = t => j = i
     /\ q[i].do = "read" =>
          /\ T[t].kind = "refresh"
          /\ q[i].field = "uid" => Leaves(q, i - 1, s, "uid", T[t].acct)
          /\ q[i].field = "uid" /\ ~T[t].stale => Tracks(q, s, T[t].acct)
          /\ q[i].field = "key" /\ ~T[t].stale => OnlyCleared(q, i)

(* A refresh sends a pair, and it knows whose key is stored.                *)
Sends(q, s, T, t) ==
  T[t].kind = "refresh" /\ T[t].at \in {"sent", "served"} =>
    /\ T[t].acct = T[t].uid /\ T[t].acct # Nobody
    /\ ~T[t].stale => Tracks(q, s, T[t].acct)

Stores(q, s, T) ==
  /\ LeavesAll(q, s, "uid", s.key)
  /\ \A i \in 1..Len(q) : /\ q[i].do = "delete" => q[i].value = Nobody
                          /\ q[i].own => Underway(q, s, T, i)
  /\ \A t \in Tasks : Sends(q, s, T, t)

(* Tasks move while the queue stays: those that wait for the storage go on  *)
(* waiting, and a refresh that has been sent sends what it did.             *)
KeepsOn(T, U, t) ==
  /\ U[t].kind = T[t].kind /\ U[t].at = T[t].at /\ U[t].acct = T[t].acct /\ U[t].uid = T[t].uid
  /\ T[t].stale => U[t].stale

Moves(T, U, t) ==
  /\ T[t].at # "storage"
  /\ \/ U[t].at \notin {"sent", "served"} \/ U[t].kind # "refresh"
     \/ /\ T[t].at \in {"sent", "served"} /\ T[t].kind = "refresh"
        /\ U[t].acct = T[t].acct /\ U[t].uid = T[t].uid /\ (T[t].stale => U[t].stale)

LEMMA TasksMove ==
  ASSUME NEW q \in Seq(Operations), NEW s, NEW T, NEW U, Stores(q, s, T),
         \A t \in Tasks : KeepsOn(T, U, t) \/ Moves(T, U, t)
  PROVE  Stores(q, s, U)
<1>1. ASSUME NEW i \in 1..Len(q), q[i].own
      PROVE  Underway(q, s, U, i)
  <2>1. q[i].task \in Tasks
    <3>1. q[i] \in Operations
      BY ElementOfSeq
    <3>2. QED
      BY <3>1 DEF Operations
  <2>2. Underway(q, s, T, i)
    BY <1>1 DEF Stores
  <2>3. KeepsOn(T, U, q[i].task)
    BY <2>1, <2>2 DEF Underway, Moves
  <2>4. QED
    BY <2>2, <2>3 DEF Underway, KeepsOn
<1>2. ASSUME NEW t \in Tasks
      PROVE  Sends(q, s, U, t)
  BY DEF Stores, Sends, KeepsOn, Moves
<1>3. QED
  BY <1>1, <1>2 DEF Stores

LEMMA TracksOn ==
  ASSUME NEW q \in Seq(Operations), NEW op \in Operations, NEW s, NEW a, Tracks(q, s, a),
         ~(op.do = "write" /\ op.field = "key"), op.do = "delete" => op.value = Nobody
  PROVE  Tracks(Append(q, op), s, a)
<1>1. CASE Writes(op, "key")
  <2>1. op.do = "delete"
    BY <1>1 DEF Writes, Operations
  <2>2. LeavesAll(Append(q, op), s, "key", Nobody)
    BY <1>1, <2>1, AppendLeaves
  <2>3. QED
    BY <2>2 DEF Tracks
<1>2. CASE ~Writes(op, "key")
  BY <1>2, AppendLeaves DEF Tracks
<1>3. QED
  BY <1>1, <1>2

LEMMA OnlyClearedOn ==
  ASSUME NEW q \in Seq(Operations), NEW op \in Operations, NEW i \in 1..Len(q),
         OnlyCleared(q, i), ~(op.do = "write" /\ op.field = "key"),
         op.do = "delete" => op.value = Nobody
  PROVE  OnlyCleared(Append(q, op), i)
<1> DEFINE r == Append(q, op)
           n == Len(q)
<1>1. /\ n \in Nat /\ Len(r) = n + 1 /\ r[n + 1] = op
      /\ \A j \in 1..n : r[j] = q[j]
  OBVIOUS
<1> SUFFICES OnlyCleared(r, i)
  OBVIOUS
<1> HIDE DEF r
<1>2. /\ (i + 1)..n \subseteq 1..n
      /\ \A j \in (i + 1)..(n + 1) : j \in (i + 1)..n \/ j = n + 1
  BY <1>1, SMT
<1>3. CASE Writes(op, "key")
  <2>1. op.value = Nobody
    BY <1>3 DEF Writes, Operations
  <2>2. n + 1 \in (i + 1)..(n + 1) /\ ((n + 1) + 1)..(n + 1) = {}
    BY <1>1, SMT
  <2>3. QED
    BY <1>1, <1>3, <2>1, <2>2 DEF OnlyCleared
<1>4. CASE ~Writes(op, "key") /\ \A j \in (i + 1)..n : ~Writes(q[j], "key")
  BY <1>1, <1>2, <1>4 DEF OnlyCleared
<1>5. CASE /\ ~Writes(op, "key")
           /\ \E k \in (i + 1)..n : /\ Writes(q[k], "key") /\ q[k].value = Nobody
                                    /\ \A j \in (k + 1)..n : ~Writes(q[j], "key")
  <2>1. PICK k \in (i + 1)..n : /\ Writes(q[k], "key") /\ q[k].value = Nobody
                                 /\ \A j \in (k + 1)..n : ~Writes(q[j], "key")
    BY <1>5
  <2>2. /\ k \in (i + 1)..(n + 1) /\ r[k] = q[k]
        /\ \A j \in (k + 1)..(n + 1) : (j \in (k + 1)..n /\ r[j] = q[j]) \/ j = n + 1
    BY <1>1, SMT
  <2>3. \A j \in (k + 1)..(n + 1) : ~Writes(r[j], "key")
    BY <1>1, <1>5, <2>1, <2>2
  <2>4. QED
    BY <1>1, <2>1, <2>2, <2>3 DEF OnlyCleared
<1>6. QED
  BY <1>3, <1>4, <1>5 DEF OnlyCleared

(* A task asks the storage for something.                                   *)
LEMMA QueueGrows ==
  ASSUME NEW q \in Seq(Operations), NEW op \in Operations, NEW s, NEW T, Stores(q, s, T),
         op.field = "key", op.do = "delete" => op.value = Nobody,
         op.own => /\ T[op.task].at = "storage"
                   /\ op.do = "read" => T[op.task].kind = "refresh"
                   /\ \A i \in 1..Len(q) : ~(q[i].own /\ q[i].task = op.task),
         op.do = "write" => \A t \in Tasks :
           T[t].kind = "refresh" /\ T[t].at \in {"storage", "sent", "served"} => T[t].stale
  PROVE  Stores(Append(q, op), s, T)
<1> DEFINE r == Append(q, op)
           n == Len(q)
<1>1. /\ n \in Nat /\ Len(r) = n + 1 /\ r[n + 1] = op
      /\ \A i \in 1..n : r[i] = q[i]
  OBVIOUS
<1>2. LeavesAll(r, s, "uid", s.key)
  BY AppendLeaves DEF Stores, Writes
<1>3. ASSUME NEW a, Tracks(q, s, a), op.do # "write"
      PROVE  Tracks(r, s, a)
  BY <1>3, TracksOn
<1>4. \A i \in 0..n : \A a : Leaves(q, i, s, "uid", a) => Leaves(r, i, s, "uid", a)
  BY AppendLeaves
<1>5. \A i \in 1..n : op.do # "write" /\ OnlyCleared(q, i) => OnlyCleared(r, i)
  BY OnlyClearedOn
<1> SUFFICES Stores(r, s, T)
  OBVIOUS
<1> HIDE DEF r
<1>6. ASSUME NEW i \in 1..n, q[i].own
      PROVE  Underway(r, s, T, i)
  <2>1. Underway(q, s, T, i) /\ r[i] = q[i] /\ i - 1 \in 0..n
    BY <1>1, <1>6, SMT DEF Stores
  <2> DEFINE t == q[i].task
  <2>2. \A j \in 1..Len(r) : r[j].own /\ r[j].task = t => j = i
    <3>1. ASSUME NEW j \in 1..(n + 1), r[j].own, r[j].task = t
          PROVE  j = i
      <4>1. CASE j = n + 1
        BY <1>1, <1>6, <3>1, <4>1
      <4>2. CASE j # n + 1
        <5>1. j \in 1..n
          BY <1>1, <4>2, SMT
        <5>2. QED
          BY <1>1, <2>1, <3>1, <5>1 DEF Underway
      <4>3. QED
        BY <4>1, <4>2
    <3>2. QED
      BY <1>1, <3>1
  <2>3. ASSUME q[i].do = "read"
        PROVE  /\ T[t].kind = "refresh"
               /\ q[i].field = "uid" => Leaves(r, i - 1, s, "uid", T[t].acct)
               /\ q[i].field = "uid" /\ ~T[t].stale => Tracks(r, s, T[t].acct)
               /\ q[i].field = "key" /\ ~T[t].stale => OnlyCleared(r, i)
    <3>1. T[t].kind = "refresh" /\ T[t].at = "storage" /\ t \in Tasks
      <4>1. q[i] \in Operations
        BY ElementOfSeq
      <4>2. QED
        BY <2>1, <2>3, <4>1 DEF Underway, Operations
    <3>2. QED
      BY <1>3, <1>4, <1>5, <2>1, <2>3, <3>1 DEF Underway
  <2>4. QED
    BY <2>1, <2>2, <2>3 DEF Underway
<1>7. ASSUME op.own
      PROVE  Underway(r, s, T, n + 1)
  <2>1. \A j \in 1..Len(r) : r[j].own /\ r[j].task = op.task => j = n + 1
    <3>1. \A j \in 1..(n + 1) : j \in 1..n \/ j = n + 1
      BY <1>1, SMT
    <3>2. QED
      BY <1>1, <1>7, <3>1
  <2>2. OnlyCleared(r, n + 1)
    <3>1. ((n + 1) + 1)..(n + 1) = {}
      BY <1>1, SMT
    <3>2. QED
      BY <1>1, <3>1 DEF OnlyCleared
  <2>3. QED
    BY <1>1, <1>7, <2>1, <2>2 DEF Underway
<1>8. ASSUME NEW t \in Tasks
      PROVE  Sends(r, s, T, t)
  <2>1. Sends(q, s, T, t)
    BY DEF Stores
  <2>2. QED
    BY <1>3, <2>1 DEF Sends
<1>9. ASSUME NEW i \in 1..Len(r)
      PROVE  /\ r[i].do = "delete" => r[i].value = Nobody
             /\ r[i].own => Underway(r, s, T, i)
  <2>1. i \in 1..n \/ i = n + 1
    BY <1>1, SMT
  <2>2. CASE i \in 1..n
    BY <1>1, <1>6, <2>2 DEF Stores
  <2>3. CASE i = n + 1
    BY <1>1, <1>7, <2>3
  <2>4. QED
    BY <2>1, <2>2, <2>3
<1>10. QED
  BY <1>2, <1>8, <1>9 DEF Stores

(* The first operation is done.                                             *)
LEMMA HeadDone ==
  ASSUME NEW q \in Seq(Operations), q # <<>>, NEW s \in Pairs
  PROVE  /\ Head(q) \in Operations /\ q[1] = Head(q)
         /\ Len(q) \in Nat /\ Len(q) >= 1 /\ Tail(q) \in Seq(Operations)
         /\ Len(Tail(q)) = Len(q) - 1
         /\ \A i \in 1..(Len(q) - 1) : Tail(q)[i] = q[i + 1]
         /\ Head(q).field = "key" =>
              /\ After(Head(q), s).uid = s.uid
              /\ After(Head(q), s).key = IF Head(q).do = "read" THEN s.key ELSE Head(q).value
         /\ Head(q).field = "uid" =>
              /\ After(Head(q), s).key = s.key
              /\ After(Head(q), s).uid = IF Head(q).do = "read" THEN s.uid ELSE Head(q).value
<1>1. Head(q) \in Operations /\ Tail(q) \in Seq(Operations) /\ Len(Tail(q)) = Len(q) - 1
  BY HeadTailProperties
<1>2. q[1] = Head(q) /\ Len(q) \in Nat /\ Len(q) >= 1
  OBVIOUS
<1>3. \A i \in 1..(Len(q) - 1) : Tail(q)[i] = q[i + 1]
  BY HeadTailProperties
<1>4. CASE Head(q).field = "key"
  BY <1>1, <1>2, <1>3, <1>4 DEF After, Pairs
<1>5. CASE Head(q).field = "uid"
  BY <1>1, <1>2, <1>3, <1>5 DEF After, Pairs
<1>6. QED
  BY <1>1, <1>2, <1>3, <1>4, <1>5 DEF Operations

LEMMA TracksDone ==
  ASSUME NEW q \in Seq(Operations), q # <<>>, NEW s \in Pairs, NEW a, Tracks(q, s, a)
  PROVE  Tracks(Tail(q), After(Head(q), s), a)
<1>1. PICK v \in {a, Nobody} : Leaves(q, Len(q), s, "key", v)
  BY DEF Tracks, LeavesAll
<1>2. Len(q) \in 1..Len(q) /\ Len(Tail(q)) = Len(q) - 1
  BY HeadDone, SMT
<1>3. Leaves(Tail(q), Len(q) - 1, After(Head(q), s), "key", v)
  BY <1>1, <1>2, TailLeaves DEF Fields
<1>4. QED
  BY <1>2, <1>3 DEF Tracks, LeavesAll

LEMMA OnlyClearedDone ==
  ASSUME NEW q \in Seq(Operations), q # <<>>, NEW i \in 1..(Len(q) - 1), OnlyCleared(q, i + 1)
  PROVE  OnlyCleared(Tail(q), i)
<1> DEFINE r == Tail(q)
           n == Len(q)
<1>1. /\ n \in Nat /\ Len(r) = n - 1 /\ \A j \in 1..(n - 1) : r[j] = q[j + 1]
  BY HeadTailProperties
<1> SUFFICES OnlyCleared(r, i)
  OBVIOUS
<1> HIDE DEF r
<1>2. CASE \A j \in ((i + 1) + 1)..n : ~Writes(q[j], "key")
  <2>1. \A j \in (i + 1)..(n - 1) : r[j] = q[j + 1] /\ j + 1 \in ((i + 1) + 1)..n
    BY <1>1, SMT
  <2>2. \A j \in (i + 1)..(n - 1) : ~Writes(r[j], "key")
    BY <1>2, <2>1
  <2>3. QED
    BY <1>1, <2>2 DEF OnlyCleared
<1>3. CASE \E k \in ((i + 1) + 1)..n : /\ Writes(q[k], "key") /\ q[k].value = Nobody
                                      /\ \A j \in (k + 1)..n : ~Writes(q[j], "key")
  <2>1. PICK k \in ((i + 1) + 1)..n : /\ Writes(q[k], "key") /\ q[k].value = Nobody
                                       /\ \A j \in (k + 1)..n : ~Writes(q[j], "key")
    BY <1>3
  <2>2. /\ k - 1 \in (i + 1)..(n - 1) /\ r[k - 1] = q[k]
        /\ \A j \in ((k - 1) + 1)..(n - 1) : r[j] = q[j + 1] /\ j + 1 \in (k + 1)..n
    <3>1. k - 1 \in (i + 1)..(n - 1) /\ (k - 1) + 1 = k /\ k - 1 \in 1..(n - 1)
      BY <1>1, SMT
    <3>2. \A j \in ((k - 1) + 1)..(n - 1) : j \in 1..(n - 1) /\ j + 1 \in (k + 1)..n
      BY <1>1, SMT
    <3>3. QED
      BY <1>1, <3>1, <3>2
  <2>3. Writes(r[k - 1], "key") /\ r[k - 1].value = Nobody
    BY <2>1, <2>2
  <2>4. \A j \in ((k - 1) + 1)..(n - 1) : ~Writes(r[j], "key")
    BY <2>1, <2>2
  <2>5. QED
    BY <1>1, <2>2, <2>3, <2>4 DEF OnlyCleared
<1>4. QED
  BY <1>2, <1>3 DEF OnlyCleared

(* Those that wait behind the first operation.                              *)
LEMMA BehindTheFirst ==
  ASSUME NEW q \in Seq(Operations), q # <<>>, NEW s \in Pairs, NEW T, NEW U, Stores(q, s, T),
         \A t \in Tasks : U[t] = T[t] \/ (Head(q).own /\ t = Head(q).task),
         NEW i \in 1..(Len(q) - 1), Tail(q)[i].own
  PROVE  /\ Underway(Tail(q), After(Head(q), s), U, i)
         /\ Head(q).own => Tail(q)[i].task # Head(q).task
<1> DEFINE r == Tail(q)
           z == After(Head(q), s)
           n == Len(q)
           t == r[i].task
<1>1. /\ n \in Nat /\ Len(r) = n - 1 /\ \A j \in 1..(n - 1) : r[j] = q[j + 1]
      /\ q[1] = Head(q)
  BY HeadDone
<1>2. /\ i + 1 \in 1..n /\ 1 \in 1..n /\ i + 1 # 1 /\ (i + 1) - 1 = i /\ i \in 1..n
  BY <1>1, SMT
<1>3. q[i + 1].own /\ t = q[i + 1].task
  BY <1>1
<1>4. Underway(q, s, T, i + 1)
  BY <1>2, <1>3 DEF Stores
<1>5. Head(q).own => t # Head(q).task
  BY <1>1, <1>2, <1>3, <1>4 DEF Underway
<1>6. t \in Tasks
  <2>1. r \in Seq(Operations) /\ i \in 1..Len(r)
    BY <1>1, HeadTailProperties
  <2>2. r[i] \in Operations
    BY <2>1, ElementOfSeq
  <2>3. QED
    BY <2>2 DEF Operations
<1>7. U[t] = T[t]
  BY <1>5, <1>6
<1>8. \A j \in 1..Len(r) : r[j].own /\ r[j].task = t => j = i
  <2>1. ASSUME NEW j \in 1..(n - 1), r[j].own, r[j].task = t
        PROVE  j = i
    <3>1. j + 1 \in 1..n /\ q[j + 1].own /\ q[j + 1].task = t
      BY <1>1, <2>1, SMT
    <3>2. j + 1 = i + 1
      BY <1>3, <1>4, <3>1 DEF Underway
    <3>3. QED
      BY <1>1, <3>2, SMT
  <2>2. QED
    BY <1>1, <2>1
<1>9. ASSUME Leaves(q, (i + 1) - 1, s, "uid", T[t].acct)
      PROVE  Leaves(r, i - 1, z, "uid", T[t].acct)
  BY <1>2, <1>9, TailLeaves DEF Fields
<1>10. Tracks(q, s, T[t].acct) => Tracks(r, z, T[t].acct)
  BY TracksDone
<1>11. OnlyCleared(q, i + 1) => OnlyCleared(r, i)
  BY OnlyClearedDone
<1>12. r[i] = q[i + 1]
  BY <1>1
<1> HIDE DEF r, z
<1>13. Underway(r, z, U, i)
  BY <1>3, <1>4, <1>7, <1>8, <1>9, <1>10, <1>11, <1>12 DEF Underway
<1>14. QED
  BY <1>5, <1>13 DEF r, z

(* One that waits goes on waiting behind another that asks for something.   *)
LEMMA UnderwayOn ==
  ASSUME NEW q \in Seq(Operations), NEW op \in Operations, NEW s, NEW T, NEW i \in 1..Len(q),
         Underway(q, s, T, i), ~(op.do = "write" /\ op.field = "key"),
         op.do = "delete" => op.value = Nobody, op.own => op.task # q[i].task
  PROVE  Underway(Append(q, op), s, T, i)
<1> DEFINE r == Append(q, op)
           n == Len(q)
           t == q[i].task
<1>1. /\ n \in Nat /\ Len(r) = n + 1 /\ r[n + 1] = op
      /\ \A j \in 1..n : r[j] = q[j]
  OBVIOUS
<1>2. \A j \in 1..(n + 1) : j \in 1..n \/ j = n + 1
  BY <1>1, SMT
<1>3. \A j \in 1..Len(r) : r[j].own /\ r[j].task = t => j = i
  BY <1>1, <1>2 DEF Underway
<1>4. i - 1 \in 0..n
  BY <1>1, SMT
<1>5. Leaves(q, i - 1, s, "uid", T[t].acct) => Leaves(r, i - 1, s, "uid", T[t].acct)
  BY <1>4, AppendLeaves
<1>6. Tracks(q, s, T[t].acct) => Tracks(r, s, T[t].acct)
  BY TracksOn
<1>7. OnlyCleared(q, i) => OnlyCleared(r, i)
  BY OnlyClearedOn
<1>8. r[i] = q[i]
  BY <1>1
<1> SUFFICES Underway(r, s, T, i)
  OBVIOUS
<1> HIDE DEF r
<1>9. QED
  BY <1>3, <1>5, <1>6, <1>7, <1>8 DEF Underway

(* A refresh reads a key that will stay or be cleared.                      *)
LEMMA KeyRead ==
  ASSUME NEW q \in Seq(Operations), q # <<>>, NEW s \in Pairs,
         Head(q).do = "read", OnlyCleared(q, 1)
  PROVE  Tracks(q, s, s.key)
<1> DEFINE n == Len(q)
<1>1. n \in Nat /\ n >= 1 /\ ~Writes(q[1], "key")
  BY HeadDone DEF Writes
<1>2. CASE \A j \in 2..n : ~Writes(q[j], "key")
  <2>1. \A j \in 1..n : j = 1 \/ j \in 2..n
    BY <1>1, SMT
  <2>2. \A j \in 1..n : ~Writes(q[j], "key")
    BY <1>1, <1>2, <2>1
  <2>3. QED
    BY <2>2 DEF Tracks, LeavesAll, Leaves
<1>3. CASE \E k \in 2..n : /\ Writes(q[k], "key") /\ q[k].value = Nobody
                           /\ \A j \in (k + 1)..n : ~Writes(q[j], "key")
  <2>1. PICK k \in 2..n : /\ Writes(q[k], "key") /\ q[k].value = Nobody
                          /\ \A j \in (k + 1)..n : ~Writes(q[j], "key")
    BY <1>3
  <2>2. k \in 1..n
    BY <1>1, SMT
  <2>3. LeavesAll(q, s, "key", Nobody)
    BY <2>1, <2>2 DEF LeavesAll, Leaves
  <2>4. QED
    BY <2>3 DEF Tracks
<1>4. 1 + 1 = 2
  OBVIOUS
<1>5. QED
  BY <1>2, <1>3, <1>4 DEF OnlyCleared

(* The storage does the first half of what a task, or its handler, asks.    *)
LEMMA KeyStep ==
  ASSUME NEW q \in Seq(Operations), q # <<>>, NEW s \in Pairs, NEW T, NEW U, Stores(q, s, T),
         Head(q).field = "key",
         NEW next \in Operations, next = [Head(q) EXCEPT !.field = "uid"],
         \A t \in Tasks : U[t] = T[t] \/ (Head(q).own /\ Head(q).do = "read" /\ t = Head(q).task),
         Head(q).own /\ Head(q).do = "read" =>
           /\ U[Head(q).task].kind = T[Head(q).task].kind
           /\ U[Head(q).task].at = T[Head(q).task].at
           /\ U[Head(q).task].stale = T[Head(q).task].stale
           /\ U[Head(q).task].acct = s.key
  PROVE  Stores(Append(Tail(q), next), After(Head(q), s), U)
<1> DEFINE h == Head(q)
           p == Tail(q)
           z == After(h, s)
           r == Append(p, next)
           n == Len(q)
<1>1. /\ h \in Operations /\ q[1] = h /\ n \in Nat /\ n >= 1 /\ p \in Seq(Operations)
      /\ Len(p) = n - 1 /\ \A i \in 1..(n - 1) : p[i] = q[i + 1]
      /\ z.uid = s.uid /\ z.key = IF h.do = "read" THEN s.key ELSE h.value
  BY HeadDone
<1>2. /\ next.do = h.do /\ next.own = h.own /\ next.task = h.task /\ next.value = h.value
      /\ next.field = "uid" /\ h.task \in Tasks
  BY <1>1 DEF Operations
<1>3. /\ Len(r) = n /\ r[n] = next /\ \A i \in 1..(n - 1) : r[i] = p[i]
  <2>1. Len(r) = Len(p) + 1 /\ r[Len(p) + 1] = next /\ \A i \in 1..Len(p) : r[i] = p[i]
    BY <1>1
  <2>2. Len(p) + 1 = n
    BY <1>1, SMT
  <2>3. QED
    BY <1>1, <2>1, <2>2
<1>4. /\ 1 \in 1..n /\ h.do = "delete" => h.value = Nobody
      /\ h.own => Underway(q, s, T, 1)
  <2>1. 1 \in 1..n
    BY <1>1, SMT
  <2>2. QED
    BY <1>1, <2>1 DEF Stores
<1>5. Leaves(p, n - 1, z, "uid", s.key)
  <2>1. n \in 1..n /\ Leaves(q, n, s, "uid", s.key)
    BY <1>1, SMT DEF Stores, LeavesAll
  <2>2. QED
    BY <2>1, TailLeaves DEF Fields
<1>6. LeavesAll(r, z, "uid", z.key)
  <2>1. CASE h.do = "read"
    <3>1. LeavesAll(p, z, "uid", z.key) /\ ~Writes(next, "uid")
      BY <1>1, <1>2, <1>5, <2>1 DEF LeavesAll, Writes
    <3>2. QED
      BY <1>1, <3>1, AppendLeaves
  <2>2. CASE h.do # "read"
    <3>1. Writes(next, "uid") /\ next.value = z.key
      BY <1>1, <1>2, <2>2 DEF Writes
    <3>2. QED
      BY <1>1, <3>1, AppendLeaves
  <2>3. QED
    BY <2>1, <2>2
<1>7. ~(next.do = "write" /\ next.field = "key") /\ (next.do = "delete" => next.value = Nobody)
  BY <1>2, <1>4
<1>8. ASSUME NEW a, Tracks(q, s, a)
      PROVE  Tracks(r, z, a)
  <2>1. Tracks(p, z, a)
    BY <1>8, TracksDone
  <2>2. QED
    BY <1>1, <1>7, <2>1, TracksOn
<1>9. \A t \in Tasks : U[t] = T[t] \/ (h.own /\ t = h.task)
  OBVIOUS
<1>10. ASSUME NEW i \in 1..(n - 1)
       PROVE  /\ r[i].do = "delete" => r[i].value = Nobody
              /\ r[i].own => Underway(r, z, U, i)
  <2>1. r[i] = p[i] /\ p[i] = q[i + 1]
    BY <1>1, <1>3
  <2>2. i + 1 \in 1..n
    BY <1>1, SMT
  <2>3. r[i].do = "delete" => r[i].value = Nobody
    BY <2>1, <2>2 DEF Stores
  <2>4. ASSUME r[i].own
        PROVE  Underway(r, z, U, i)
    <3>1. Underway(p, z, U, i) /\ (h.own => p[i].task # h.task)
      BY <1>9, <2>1, <2>4, BehindTheFirst
    <3>2. next.own => next.task # p[i].task
      BY <1>2, <3>1
    <3>3. i \in 1..Len(p)
      BY <1>1
    <3>4. QED
      BY <1>1, <1>7, <3>1, <3>2, <3>3, UnderwayOn
  <2>5. QED
    BY <2>3, <2>4
<1>11. ASSUME h.own
       PROVE  Underway(r, z, U, n)
  <2> DEFINE t == h.task
  <2>1. Underway(q, s, T, 1) /\ q[1].task = t /\ t \in Tasks
    BY <1>1, <1>2, <1>4, <1>11
  <2>2. T[t].at = "storage" /\ U[t].at = "storage"
    BY <2>1 DEF Underway
  <2>3. \A j \in 1..Len(r) : r[j].own /\ r[j].task = t => j = n
    <3>1. \A j \in 1..n : j \in 1..(n - 1) \/ j = n
      BY <1>1, SMT
    <3>2. \A j \in 1..(n - 1) : p[j].own => p[j].task # t
      BY <1>9, <1>11, BehindTheFirst
    <3>3. QED
      BY <1>3, <3>1, <3>2
  <2>4. ASSUME h.do = "read"
        PROVE  /\ U[t].kind = "refresh"
               /\ Leaves(r, n - 1, z, "uid", U[t].acct)
               /\ ~U[t].stale => Tracks(r, z, U[t].acct)
    <3>1. /\ U[t].kind = T[t].kind /\ U[t].stale = T[t].stale /\ U[t].acct = s.key
      BY <1>11, <2>4
    <3>2. T[t].kind = "refresh" /\ (~T[t].stale => OnlyCleared(q, 1))
      BY <1>1, <2>1, <2>4 DEF Underway
    <3>3. n - 1 \in 0..Len(p)
      BY <1>1, SMT
    <3>4. Leaves(r, n - 1, z, "uid", s.key)
      BY <1>1, <1>5, <3>3, AppendLeaves
    <3>5. ~T[t].stale => Tracks(r, z, s.key)
      BY <1>8, <2>4, <3>2, KeyRead
    <3>6. QED
      BY <3>1, <3>2, <3>4, <3>5
  <2> HIDE DEF r, z
  <2>5. QED
    BY <1>2, <1>3, <2>2, <2>3, <2>4 DEF Underway
<1>12. ASSUME NEW i \in 1..Len(r)
       PROVE  /\ r[i].do = "delete" => r[i].value = Nobody
              /\ r[i].own => Underway(r, z, U, i)
  <2>1. i \in 1..(n - 1) \/ i = n
    BY <1>1, <1>3, SMT
  <2>2. CASE i \in 1..(n - 1)
    BY <1>10, <2>2
  <2>3. CASE i = n
    BY <1>2, <1>3, <1>4, <1>11, <2>3
  <2>4. QED
    BY <2>1, <2>2, <2>3
<1>13. ASSUME NEW t \in Tasks
       PROVE  Sends(r, z, U, t)
  <2>1. CASE U[t] = T[t]
    <3>1. Sends(q, s, T, t)
      BY DEF Stores
    <3>2. Tracks(q, s, T[t].acct) => Tracks(r, z, T[t].acct)
      BY <1>8
    <3> HIDE DEF r, z
    <3>3. QED
      BY <2>1, <3>1, <3>2 DEF Sends
  <2>2. CASE h.own /\ h.do = "read" /\ t = h.task
    <3>1. T[t].at = "storage"
      BY <1>1, <1>4, <2>2 DEF Underway
    <3>2. U[t].at = "storage"
      BY <2>2, <3>1
    <3>3. QED
      BY <3>2 DEF Sends
  <2>3. QED
    BY <2>1, <2>2
<1> SUFFICES Stores(r, z, U)
  OBVIOUS
<1> HIDE DEF r, z
<1>14. QED
  BY <1>6, <1>12, <1>13 DEF Stores

(* The storage does the second half, and the asker goes on.                 *)
LEMMA UidStep ==
  ASSUME NEW q \in Seq(Operations), q # <<>>, NEW s \in Pairs, NEW T, NEW U, Stores(q, s, T),
         Head(q).field = "uid",
         \A t \in Tasks : U[t] = T[t] \/ (Head(q).own /\ t = Head(q).task),
         Head(q).own =>
           \/ U[Head(q).task].at \notin {"sent", "served"}
           \/ /\ Head(q).do = "read"
              /\ U[Head(q).task].acct = T[Head(q).task].acct /\ U[Head(q).task].acct # Nobody
              /\ U[Head(q).task].uid = s.uid
              /\ U[Head(q).task].stale = T[Head(q).task].stale
  PROVE  Stores(Tail(q), After(Head(q), s), U)
<1> DEFINE h == Head(q)
           p == Tail(q)
           z == After(h, s)
           n == Len(q)
<1>1. /\ h \in Operations /\ q[1] = h /\ n \in Nat /\ n >= 1 /\ p \in Seq(Operations)
      /\ Len(p) = n - 1 /\ \A i \in 1..(n - 1) : p[i] = q[i + 1]
      /\ z.key = s.key
  BY HeadDone
<1>2. LeavesAll(p, z, "uid", z.key)
  <2>1. n \in 1..n /\ Leaves(q, n, s, "uid", s.key)
    BY <1>1, SMT DEF Stores, LeavesAll
  <2>2. Leaves(p, n - 1, z, "uid", s.key)
    BY <2>1, TailLeaves DEF Fields
  <2>3. QED
    BY <1>1, <2>2 DEF LeavesAll
<1>3. ASSUME NEW i \in 1..Len(p)
      PROVE  /\ p[i].do = "delete" => p[i].value = Nobody
             /\ p[i].own => Underway(p, z, U, i)
  <2>1. p[i] = q[i + 1] /\ i \in 1..(n - 1)
    BY <1>1
  <2>2. i + 1 \in 1..n
    BY <1>1, SMT
  <2>3. p[i].own => Underway(p, z, U, i)
    BY <2>1, BehindTheFirst
  <2>4. QED
    BY <2>1, <2>2, <2>3 DEF Stores
<1>4. ASSUME NEW t \in Tasks
      PROVE  Sends(p, z, U, t)
  <2>1. Tracks(q, s, T[t].acct) => Tracks(p, z, T[t].acct)
    BY TracksDone
  <2>2. CASE U[t] = T[t]
    <3>1. Sends(q, s, T, t)
      BY DEF Stores
    <3> HIDE DEF p, z
    <3>2. QED
      BY <2>1, <2>2, <3>1 DEF Sends
  <2>3. CASE h.own /\ t = h.task /\ U[t].at \notin {"sent", "served"}
    BY <2>3 DEF Sends
  <2>4. CASE /\ h.own /\ t = h.task /\ h.do = "read"
             /\ U[t].acct = T[t].acct /\ U[t].acct # Nobody /\ U[t].uid = s.uid
             /\ U[t].stale = T[t].stale
    <3>1. Underway(q, s, T, 1) /\ q[1].task = t /\ q[1].do = "read" /\ q[1].field = "uid"
      <4>1. 1 \in 1..n
        BY <1>1, SMT
      <4>2. QED
        BY <1>1, <2>4, <4>1 DEF Stores
    <3>2. /\ Leaves(q, 1 - 1, s, "uid", T[t].acct)
          /\ ~T[t].stale => Tracks(q, s, T[t].acct)
      BY <3>1 DEF Underway
    <3>3. 1 - 1 = 0 /\ 1..0 = {}
      BY SMT
    <3>4. s.uid = T[t].acct
      BY <3>2, <3>3 DEF Leaves
    <3> HIDE DEF p, z
    <3>5. QED
      BY <2>1, <2>4, <3>2, <3>4 DEF Sends
  <2>5. QED
    BY <2>2, <2>3, <2>4
<1> SUFFICES Stores(p, z, U)
  OBVIOUS
<1> HIDE DEF p, z
<1>5. QED
  BY <1>2, <1>3, <1>4 DEF Stores

-----------------------------------------------------------------------------
(* The actions.  A task becomes d; the others at most become stale.         *)

LEMMA Replaced ==
  ASSUME task \in [Tasks -> Doings], NEW t \in Tasks, NEW d \in Doings,
         \/ task' = [task EXCEPT ![t] = d]
         \/ task' = MarkStale([task EXCEPT ![t] = d])
  PROVE  /\ \A s \in Tasks \ {t} : Same(s) /\ KeepsOn(task, task', s)
         /\ /\ task'[t].kind = d.kind /\ task'[t].at = d.at /\ task'[t].acct = d.acct
            /\ task'[t].uid = d.uid /\ task'[t].carried = d.carried
            /\ task'[t].status = d.status /\ task'[t].got = d.got
            /\ d.stale => task'[t].stale
         /\ task' = MarkStale([task EXCEPT ![t] = d]) =>
              \A s \in Tasks \ {t} : Refreshing(s) => task'[s].stale
<1> DEFINE E == [task EXCEPT ![t] = d]
<1>1. E \in [Tasks -> Doings] /\ E[t] = d /\ \A s \in Tasks \ {t} : E[s] = task[s]
  OBVIOUS
<1>2. \A s \in Tasks : task[s] \in Doings
  OBVIOUS
<1> HIDE DEF E
<1>3. \A s \in Tasks : task'[s] = E[s] \/ task'[s] = [E[s] EXCEPT !.stale = TRUE]
  <2>1. CASE task' = E
    BY <2>1
  <2>2. CASE task' = MarkStale(E)
    BY <1>1, <2>2, Marking
  <2>3. QED
    BY <2>1, <2>2 DEF E
<1>4. ASSUME NEW s \in Tasks \ {t}
      PROVE  Same(s) /\ KeepsOn(task, task', s)
  <2>1. task'[s] = task[s] \/ task'[s] = [task[s] EXCEPT !.stale = TRUE]
    BY <1>1, <1>3
  <2>2. Same(s)
    BY <2>1, StaleSame
  <2>3. task[s].stale => task'[s].stale
    <3>1. CASE task'[s] = task[s]
      BY <3>1
    <3>2. CASE task'[s] = [task[s] EXCEPT !.stale = TRUE]
      BY <1>2, <3>2 DEF Doings
    <3>3. QED
      BY <2>1, <3>1, <3>2
  <2>4. QED
    BY <2>2, <2>3 DEF Same, KeepsOn
<1>5. /\ task'[t].kind = d.kind /\ task'[t].at = d.at /\ task'[t].acct = d.acct
      /\ task'[t].uid = d.uid /\ task'[t].carried = d.carried
      /\ task'[t].status = d.status /\ task'[t].got = d.got
      /\ d.stale => task'[t].stale
  <2>1. task'[t] = d \/ task'[t] = [d EXCEPT !.stale = TRUE]
    BY <1>1, <1>3
  <2>2. CASE task'[t] = d
    BY <2>2
  <2>3. CASE task'[t] = [d EXCEPT !.stale = TRUE]
    BY <2>3 DEF Doings
  <2>4. QED
    BY <2>1, <2>2, <2>3
<1>6. ASSUME task' = MarkStale(E), NEW s \in Tasks \ {t}, Refreshing(s)
      PROVE  task'[s].stale
  <2>1. task'[s] = [E[s] EXCEPT !.stale = TRUE] /\ E[s] \in Doings
    BY <1>1, <1>6, Marking
  <2>2. QED
    BY <2>1 DEF Doings
<1>7. QED
  BY <1>4, <1>5, <1>6 DEF E

(* A task that did not wait for the storage goes over to d, which is no     *)
(* refresh that has been sent.                                              *)
LEMMA ReplacedStores ==
  ASSUME TypeOK, Stores(queue, stored, task), NEW t \in Tasks, NEW d \in Doings,
         \/ task' = [task EXCEPT ![t] = d]
         \/ task' = MarkStale([task EXCEPT ![t] = d]),
         task[t].at # "storage", d.at \notin {"sent", "served"} \/ d.kind # "refresh"
  PROVE  /\ Stores(queue, stored, task')
         /\ \A i \in 1..Len(queue) : ~(queue[i].own /\ queue[i].task = t)
<1>1. queue \in Seq(Operations) /\ task \in [Tasks -> Doings]
  BY DEF TypeOK
<1>2. \A s \in Tasks \ {t} : KeepsOn(task, task', s)
  BY <1>1, Replaced
<1>3. Moves(task, task', t)
  BY <1>1, Replaced DEF Moves
<1>4. Stores(queue, stored, task')
  BY <1>1, <1>2, <1>3, TasksMove
<1>5. ASSUME NEW i \in 1..Len(queue), queue[i].own, queue[i].task = t
      PROVE  FALSE
  BY <1>5 DEF Stores, Underway
<1>6. QED
  BY <1>4, <1>5

LEMMA ReplacedFresh ==
  ASSUME TypeOK, FreshTokens, owner' = owner, NEW t \in Tasks, NEW d \in Doings,
         \/ task' = [task EXCEPT ![t] = d]
         \/ task' = MarkStale([task EXCEPT ![t] = d]),
         d.at # "served", d.carried \in {task[t].carried, token, NoToken},
         d.kind \notin {"login", "refresh"} => d.got = NoToken,
         token' \in {token, NoToken}, NoToken \notin refused',
         refused' \subseteq refused \cup {task[s].carried : s \in Tasks},
         token' # NoToken => refused' = refused
  PROVE  FreshTokens'
<1>1. task \in [Tasks -> Doings]
  BY DEF TypeOK
<1>2. /\ \A s \in Tasks \ {t} : Same(s)
      /\ task'[t].kind = d.kind /\ task'[t].at = d.at /\ task'[t].carried = d.carried
      /\ task'[t].got = d.got
  BY <1>1, Replaced
<1>3. Dull(t)
  BY <1>2 DEF Dull
<1>4. QED
  BY <1>2, <1>3, FreshKept

-----------------------------------------------------------------------------
(* The token in memory is of the account whose key will be stored, if any.  *)
TokenKept == token # NoToken /\ ~overtaken => Tracks(queue, stored, owner[token])

Inv == TypeOK /\ FreshTokens /\ Stores(queue, stored, task) /\ TokenKept

LEMMA StartLoginInv ==
  ASSUME Inv, NEW t \in Tasks, NEW a \in Accounts, StartLogin(t, a)
  PROVE  Inv'
<1> DEFINE d == [Rest EXCEPT !.kind = "login", !.at = "sent", !.acct = a, !.uid = a,
                             !.carried = token]
<1>1. d \in Doings
  BY RestTyped DEF Inv, TypeOK, Doings, Kinds, Holders
<1>2. d.at = "sent" /\ d.kind = "login" /\ d.carried = token
  BY DEF Rest
<1>3. /\ task' = [task EXCEPT ![t] = d] /\ task[t].at = "idle"
      /\ UNCHANGED <<token, stored, queue, refused, overtaken, owner>>
  BY DEF StartLogin, Start, server
<1> HIDE DEF d
<1>4. FreshTokens'
  BY <1>1, <1>2, <1>3, ReplacedFresh, NoTokenRefused DEF Inv
<1>5. Stores(queue, stored, task)'
  BY <1>1, <1>2, <1>3, ReplacedStores DEF Inv
<1>6. QED
  BY <1>3, <1>4, <1>5, StartTyped DEF Inv, TokenKept

LEMMA StartCallInv ==
  ASSUME Inv, NEW t \in Tasks, NEW kind \in Calls, StartCall(t, kind)
  PROVE  Inv'
<1> DEFINE d == [Rest EXCEPT !.kind = kind, !.at = "sent", !.carried = token]
<1>1. d \in Doings
  BY CallsAssumption, RestTyped DEF Inv, TypeOK, Doings, Kinds, Holders
<1>2. d.at = "sent" /\ d.kind = kind /\ d.carried = token /\ d.got = NoToken
  BY DEF Rest
<1>3. /\ task' = [task EXCEPT ![t] = d] /\ task[t].at = "idle"
      /\ UNCHANGED <<token, stored, queue, refused, overtaken, owner>>
  BY DEF StartCall, Start, server
<1> HIDE DEF d
<1>4. FreshTokens'
  BY <1>1, <1>2, <1>3, ReplacedFresh, NoTokenRefused DEF Inv
<1>5. kind # "refresh"
  BY CallsAssumption
<1>6. Stores(queue, stored, task)'
  BY <1>1, <1>2, <1>3, <1>5, ReplacedStores DEF Inv
<1>7. QED
  BY <1>3, <1>4, <1>6, StartTyped DEF Inv, TokenKept

LEMMA StartRefreshInv ==
  ASSUME Inv, NEW t \in Tasks, StartRefresh(t)
  PROVE  Inv'
<1> DEFINE d == [Rest EXCEPT !.kind = "refresh", !.at = "storage"]
           op == Ask(t, TRUE, "read", FirstField("read"), Nobody)
<1>1. d \in Doings
  BY RestTyped DEF Doings, Kinds
<1>2. d.at = "storage" /\ d.kind = "refresh" /\ d.carried = NoToken
  BY DEF Rest
<1>3. /\ task' = [task EXCEPT ![t] = d] /\ task[t].at = "idle"
      /\ queue' = Append(queue, op)
      /\ UNCHANGED <<token, stored, refused, overtaken, owner>>
  BY DEF StartRefresh, Start, server
<1>4. /\ op \in Operations /\ op.field = "key" /\ op.do = "read" /\ op.own /\ op.task = t
      /\ queue \in Seq(Operations)
  BY AskTyped DEF Holders, Ask, Inv, TypeOK
<1>5. task'[t] = d
  BY <1>3 DEF Inv, TypeOK
<1> HIDE DEF d, op
<1>6. FreshTokens'
  BY <1>1, <1>2, <1>3, ReplacedFresh, NoTokenRefused DEF Inv
<1>7. /\ Stores(queue, stored, task')
      /\ \A i \in 1..Len(queue) : ~(queue[i].own /\ queue[i].task = t)
  BY <1>1, <1>2, <1>3, ReplacedStores DEF Inv
<1>8. Stores(Append(queue, op), stored, task')
  BY <1>2, <1>4, <1>5, <1>7, QueueGrows
<1>9. TokenKept'
  BY <1>3, <1>4, TracksOn DEF Inv, TokenKept
<1>10. QED
  BY <1>3, <1>6, <1>8, <1>9, StartTyped DEF Inv

LEMMA StartLogoutInv ==
  ASSUME Inv, NEW t \in Tasks, StartLogout(t)
  PROVE  Inv'
<1> DEFINE d == [Rest EXCEPT !.kind = "logout", !.at = "storage"]
           op == Ask(t, TRUE, "delete", FirstField("delete"), Nobody)
<1>1. d \in Doings
  BY RestTyped DEF Doings, Kinds
<1>2. d.at = "storage" /\ d.kind = "logout" /\ d.carried = NoToken /\ d.got = NoToken
  BY DEF Rest
<1>3. /\ task' = MarkStale([task EXCEPT ![t] = d]) /\ task[t].at = "idle"
      /\ queue' = Append(queue, op) /\ token' = NoToken
      /\ UNCHANGED <<stored, refused, owner>>
  BY DEF StartLogout, server
<1>4. /\ op \in Operations /\ op.field = "key" /\ op.do = "delete" /\ op.task = t
      /\ op.value = Nobody /\ queue \in Seq(Operations)
  BY AskTyped DEF Holders, Ask, Inv, TypeOK
<1> HIDE DEF d, op
<1>5. task'[t].at = "storage"
  BY <1>1, <1>2, <1>3, Replaced DEF Inv, TypeOK
<1>6. FreshTokens'
  BY <1>1, <1>2, <1>3, ReplacedFresh, NoTokenRefused DEF Inv
<1>7. /\ Stores(queue, stored, task')
      /\ \A i \in 1..Len(queue) : ~(queue[i].own /\ queue[i].task = t)
  BY <1>1, <1>2, <1>3, ReplacedStores DEF Inv
<1>8. Stores(Append(queue, op), stored, task')
  BY <1>4, <1>5, <1>7, QueueGrows
<1>9. QED
  BY <1>3, <1>6, <1>8, StartTyped DEF Inv, TokenKept

LEMMA ServeInv ==
  ASSUME Inv, NEW t \in Tasks, Serve(t)
  PROVE  Inv'
<1>1. /\ task \in [Tasks -> Doings] /\ queue \in Seq(Operations) /\ task[t].at = "sent"
      /\ UNCHANGED <<token, stored, queue, overtaken>>
  BY DEF Inv, TypeOK, Serve
<1>2. /\ \A s \in Tasks \ {t} : KeepsOn(task, task', s)
      /\ task'[t].kind = task[t].kind /\ task'[t].at = "served"
      /\ task'[t].acct = task[t].acct /\ task'[t].uid = task[t].uid
      /\ task'[t].stale = task[t].stale
  <2>1. CASE \E k \in Tokens \ Issued :
               task' = [task EXCEPT ![t] = [@ EXCEPT !.at = "served", !.status = "ok", !.got = k]]
    BY <1>1, <2>1 DEF KeepsOn, Doings
  <2>2. CASE task' = [task EXCEPT ![t] = [@ EXCEPT !.at = "served",
                                            !.status = IF Accepts(t) THEN "ok" ELSE "refused"]]
    BY <1>1, <2>2 DEF KeepsOn, Doings
  <2>3. QED
    BY <2>1, <2>2, Served DEF Inv
<1>3. Moves(task, task', t)
  BY <1>1, <1>2 DEF Moves
<1>4. Stores(queue, stored, task)'
  BY <1>1, <1>2, <1>3, TasksMove DEF Inv
<1>5. token # NoToken => owner'[token] = owner[token]
  <2>1. token # NoToken => token \in Issued /\ token \in Tokens
    BY DEF Inv, TypeOK, KnownTokens, Issued
  <2>2. CASE \E k \in Tokens \ Issued : owner' = [owner EXCEPT ![k] = task[t].acct]
    BY <2>1, <2>2 DEF Inv, TypeOK
  <2>3. CASE owner' = owner
    BY <2>3
  <2>4. QED
    BY <2>2, <2>3, Served DEF Inv
<1>6. TokenKept'
  BY <1>1, <1>5 DEF Inv, TokenKept
<1>7. QED
  BY <1>4, <1>6, ServerTyped, ServeFresh DEF Inv

LEMMA TokenComesInv ==
  ASSUME Inv, NEW t \in Tasks, TokenComes(t)
  PROVE  Inv'
<1>1. /\ task \in [Tasks -> Doings] /\ task[t] \in Doings /\ queue \in Seq(Operations)
      /\ task[t].at = "served" /\ token' = task[t].got /\ UNCHANGED <<stored, owner>>
      /\ owner[task[t].got] = task[t].acct
      /\ task[t].kind \in {"login", "refresh"}
  <2>1. Pending(t) /\ task[t].at = "served" /\ token' = task[t].got /\ UNCHANGED <<stored, owner>>
    BY DEF TokenComes, Pending, server
  <2>2. NewToken(t) /\ task[t].kind \in {"login", "refresh"}
    BY <2>1 DEF Inv, FreshTokens, Pending
  <2>3. QED
    BY <2>1, <2>2 DEF Inv, TypeOK, NewToken
<1>2. CASE task[t].kind = "login"
  <2> DEFINE d == [task[t] EXCEPT !.at = "storage"]
             op == Ask(t, TRUE, "write", FirstField("write"), task[t].acct)
  <2>1. d \in Doings /\ d.at = "storage" /\ d.kind = "login"
    BY <1>1, <1>2 DEF Doings
  <2>2. /\ op \in Operations /\ op.field = "key" /\ op.do = "write" /\ op.task = t
        /\ op.value = task[t].acct
    BY <1>1, AskTyped DEF Ask, Doings
  <2>3. task' = MarkStale([task EXCEPT ![t] = d]) /\ queue' = Append(queue, op)
    <3>1. [task EXCEPT ![t].at = "storage"] = [task EXCEPT ![t] = d]
      BY <1>1
    <3>2. QED
      BY <1>2, <3>1 DEF TokenComes
  <2> HIDE DEF d, op
  <2>4. /\ task'[t].at = "storage" /\ task'[t].kind = "login"
        /\ \A s \in Tasks \ {t} : Refreshing(s) => task'[s].stale
        /\ \A s \in Tasks \ {t} : Same(s)
    BY <1>1, <2>1, <2>3, Replaced
  <2>5. /\ Stores(queue, stored, task')
        /\ \A i \in 1..Len(queue) : ~(queue[i].own /\ queue[i].task = t)
    BY <1>1, <2>1, <2>3, ReplacedStores DEF Inv
  <2>6. \A s \in Tasks :
          task'[s].kind = "refresh" /\ task'[s].at \in {"storage", "sent", "served"}
          => task'[s].stale
    BY <2>4 DEF Same, Refreshing
  <2>7. Stores(Append(queue, op), stored, task')
    BY <1>1, <2>2, <2>4, <2>5, <2>6, QueueGrows
  <2>8. LeavesAll(Append(queue, op), stored, "key", task[t].acct)
    BY <1>1, <2>2, AppendLeaves DEF Writes
  <2>9. Tracks(Append(queue, op), stored, task[t].acct)
    BY <2>8 DEF Tracks
  <2>10. Stores(queue, stored, task)' /\ TokenKept'
    BY <1>1, <2>3, <2>7, <2>9 DEF TokenKept
  <2>11. QED
    BY <2>10, AnswerTyped, TokenComesFresh DEF Inv
<1>3. CASE task[t].kind = "refresh"
  <2>1. task' = [task EXCEPT ![t] = Rest] /\ overtaken' = task[t].stale /\ queue' = queue
    BY <1>3 DEF TokenComes
  <2>2. Rest.at \notin {"sent", "served"}
    BY DEF Rest
  <2>3. Stores(queue, stored, task')
    BY <1>1, <2>1, <2>2, RestTyped, ReplacedStores DEF Inv
  <2>4. ~task[t].stale => Tracks(queue, stored, task[t].acct)
    BY <1>1, <1>3 DEF Inv, Stores, Sends
  <2>5. Stores(queue, stored, task)' /\ TokenKept'
    BY <1>1, <2>1, <2>3, <2>4 DEF TokenKept
  <2>6. QED
    BY <2>5, AnswerTyped, TokenComesFresh DEF Inv
<1>4. QED
  BY <1>1, <1>2, <1>3

LEMMA CallSucceedsInv ==
  ASSUME Inv, NEW t \in Tasks, CallSucceeds(t)
  PROVE  Inv'
<1>1. /\ task' = [task EXCEPT ![t] = Rest] /\ task[t].at = "served"
      /\ UNCHANGED <<token, stored, queue, refused, overtaken, owner>>
  BY DEF CallSucceeds, server
<1>2. Rest.at = "idle" /\ Rest.carried = NoToken /\ Rest.got = NoToken
  BY DEF Rest
<1>3. FreshTokens'
  BY <1>1, <1>2, RestTyped, ReplacedFresh, NoTokenRefused DEF Inv
<1>4. Stores(queue, stored, task)'
  BY <1>1, <1>2, RestTyped, ReplacedStores DEF Inv
<1>5. QED
  BY <1>1, <1>3, <1>4, AnswerTyped DEF Inv, TokenKept

(* An exception reaches the task.                                           *)
LEMMA CaughtGoesOn ==
  ASSUME TypeOK, FreshTokens, NEW t \in Tasks, task[t].at = "served" \/ task[t].at = "sent"
  PROVE  /\ Caught(t) \in Doings /\ Caught(t).at \in {"idle", "storage"}
         /\ Caught(t).carried \in {task[t].carried, NoToken}
         /\ Caught(t).kind = "refresh" \/ Caught(t).got = NoToken
         /\ task[t].kind = "refresh" => Caught(t).at = "storage"
<1>1. task[t] \in Doings /\ Caught(t) \in Doings
  BY CaughtTyped DEF TypeOK
<1>2. CASE task[t].kind = "refresh"
  BY <1>1, <1>2 DEF Caught, Doings
<1>3. CASE task[t].kind # "refresh"
  BY <1>1, <1>3 DEF Caught, Rest
<1>4. QED
  BY <1>2, <1>3

LEMMA ClearingAsks ==
  ASSUME NEW t \in Tasks, NEW own \in BOOLEAN
  PROVE  /\ Clearing(t, own) \in Operations /\ Clearing(t, own).field = "key"
         /\ Clearing(t, own).do = "delete" /\ Clearing(t, own).value = Nobody
         /\ Clearing(t, own).own = own /\ Clearing(t, own).task = t
  BY AskTyped DEF Clearing, Ask, Holders

LEMMA RefusedInv ==
  ASSUME Inv, NEW t \in Tasks, Refused(t)
  PROVE  Inv'
<1> DEFINE q == Append(queue, Clearing(t, FALSE))
<1>1. /\ task[t].at = "served" /\ token' = NoToken
      /\ queue' = CaughtQueue(t, q)
      /\ task' = MarkStale([task EXCEPT ![t] = Caught(t)])
      /\ refused' = refused \cup ({task[t].carried} \ {NoToken})
      /\ UNCHANGED <<stored, owner>>
  BY DEF Refused, server
<1>2. /\ task \in [Tasks -> Doings] /\ queue \in Seq(Operations) /\ TypeOK /\ FreshTokens
      /\ Stores(queue, stored, task)
  BY DEF Inv, TypeOK
<1>3. /\ Caught(t) \in Doings /\ Caught(t).at \in {"idle", "storage"}
      /\ Caught(t).carried \in {task[t].carried, NoToken}
      /\ Caught(t).kind = "refresh" \/ Caught(t).got = NoToken
      /\ task[t].kind = "refresh" => Caught(t).at = "storage"
  BY <1>1, <1>2, CaughtGoesOn
<1>4. FreshTokens'
  <2>1. NoToken \notin refused' /\ refused' \subseteq refused \cup {task[s].carried : s \in Tasks}
    BY <1>1, <1>2, NoTokenRefused
  <2>2. QED
    BY <1>1, <1>2, <1>3, <2>1, ReplacedFresh
<1>5. /\ Stores(queue, stored, task')
      /\ \A i \in 1..Len(queue) : ~(queue[i].own /\ queue[i].task = t)
  BY <1>1, <1>2, <1>3, ReplacedStores
<1>6. q \in Seq(Operations) /\ Stores(q, stored, task')
  <2>1. q \in Seq(Operations)
    BY <1>2, ClearingAsks, AppendProperties
  <2>2. Stores(q, stored, task')
    BY <1>2, <1>5, ClearingAsks, QueueGrows
  <2>3. QED
    BY <2>1, <2>2
<1>7. \A i \in 1..Len(q) : ~(q[i].own /\ q[i].task = t)
  <2>1. /\ Len(q) = Len(queue) + 1 /\ q[Len(queue) + 1] = Clearing(t, FALSE)
        /\ \A i \in 1..Len(queue) : q[i] = queue[i]
    <3> DEFINE op == Clearing(t, FALSE)
    <3>1. op \in Operations
      BY ClearingAsks
    <3> HIDE DEF op
    <3>2. /\ Len(Append(queue, op)) = Len(queue) + 1 /\ Append(queue, op)[Len(queue) + 1] = op
          /\ \A i \in 1..Len(queue) : Append(queue, op)[i] = queue[i]
      BY <1>2, <3>1
    <3>3. QED
      BY <3>2 DEF op
  <2>2. \A i \in 1..Len(q) : i \in 1..Len(queue) \/ i = Len(queue) + 1
    BY <1>2, <2>1
  <2>3. ~q[Len(queue) + 1].own
    BY <2>1, ClearingAsks
  <2> HIDE DEF q
  <2>4. QED
    BY <1>5, <2>1, <2>2, <2>3
<1> HIDE DEF q
<1>8. Stores(queue', stored, task')
  <2>1. CASE task[t].kind = "refresh"
    <3> DEFINE op == Clearing(t, TRUE)
    <3>1. /\ op \in Operations /\ op.field = "key" /\ op.do = "delete" /\ op.value = Nobody
          /\ op.task = t
      BY ClearingAsks
    <3>2. queue' = Append(q, op)
      BY <1>1, <2>1 DEF CaughtQueue
    <3> HIDE DEF op
    <3>3. task'[t].at = "storage"
      BY <1>1, <1>2, <1>3, <2>1, Replaced
    <3>4. Stores(Append(q, op), stored, task')
      BY <1>6, <1>7, <3>1, <3>3, QueueGrows
    <3>5. QED
      BY <3>2, <3>4
  <2>2. CASE task[t].kind # "refresh"
    BY <1>1, <1>6, <2>2 DEF CaughtQueue
  <2>3. QED
    BY <2>1, <2>2
<1>9. TypeOK' /\ TokenKept'
  BY <1>1, <1>2, AnswerTyped DEF TokenKept
<1>10. QED
  BY <1>1, <1>4, <1>8, <1>9 DEF Inv

LEMMA FailsInv ==
  ASSUME Inv, NEW t \in Tasks, Fails(t)
  PROVE  Inv'
<1>1. /\ task[t].at \in {"sent", "served"} /\ task' = [task EXCEPT ![t] = Caught(t)]
      /\ queue' = CaughtQueue(t, queue)
      /\ UNCHANGED <<token, stored, refused, overtaken, owner>>
  BY DEF Fails, server
<1>2. /\ task \in [Tasks -> Doings] /\ queue \in Seq(Operations) /\ TypeOK /\ FreshTokens
      /\ Stores(queue, stored, task) /\ TokenKept
  BY DEF Inv, TypeOK
<1>3. /\ Caught(t) \in Doings /\ Caught(t).at \in {"idle", "storage"}
      /\ Caught(t).carried \in {task[t].carried, NoToken}
      /\ Caught(t).kind = "refresh" \/ Caught(t).got = NoToken
      /\ task[t].kind = "refresh" => Caught(t).at = "storage"
  BY <1>1, <1>2, CaughtGoesOn
<1>4. FreshTokens'
  BY <1>1, <1>2, <1>3, NoTokenRefused, ReplacedFresh
<1>5. /\ Stores(queue, stored, task')
      /\ \A i \in 1..Len(queue) : ~(queue[i].own /\ queue[i].task = t)
  BY <1>1, <1>2, <1>3, ReplacedStores
<1>6. Stores(queue', stored, task') /\ TokenKept'
  <2>1. CASE task[t].kind = "refresh"
    <3> DEFINE op == Clearing(t, TRUE)
    <3>1. /\ op \in Operations /\ op.field = "key" /\ op.do = "delete" /\ op.value = Nobody
          /\ op.task = t
      BY ClearingAsks
    <3>2. queue' = Append(queue, op)
      BY <1>1, <2>1 DEF CaughtQueue
    <3> HIDE DEF op
    <3>3. task'[t].at = "storage"
      BY <1>1, <1>2, <1>3, <2>1, Replaced
    <3>4. Stores(Append(queue, op), stored, task')
      BY <1>2, <1>5, <3>1, <3>3, QueueGrows
    <3>5. TokenKept'
      BY <1>1, <1>2, <3>1, <3>2, TracksOn DEF TokenKept
    <3>6. QED
      BY <3>2, <3>4, <3>5
  <2>2. CASE task[t].kind # "refresh"
    BY <1>1, <1>2, <1>5, <2>2 DEF CaughtQueue, TokenKept
  <2>3. QED
    BY <2>1, <2>2
<1>7. QED
  BY <1>1, <1>2, <1>4, <1>6, AnswerTyped DEF Inv

LEMMA StorageInv ==
  ASSUME Inv, StorageStep
  PROVE  Inv'
<1> DEFINE op == Head(queue)
           t == op.task
<1>1. /\ queue \in Seq(Operations) /\ queue # <<>> /\ op \in Operations
      /\ task \in [Tasks -> Doings] /\ t \in Tasks /\ task[t] \in Doings
      /\ stored \in Pairs /\ TypeOK /\ FreshTokens /\ Stores(queue, stored, task) /\ TokenKept
  <2>1. queue \in Seq(Operations) /\ queue # <<>> /\ task \in [Tasks -> Doings]
    BY DEF Inv, TypeOK, StorageStep
  <2>2. op \in Operations
    BY <2>1, HeadTailProperties
  <2>3. t \in Tasks
    BY <2>2 DEF Operations
  <2>4. QED
    BY <2>1, <2>2, <2>3 DEF Inv, TypeOK, Pairs
<1>2. op.own => task[t].at = "storage"
  <2>1. 1 \in 1..Len(queue) /\ queue[1] = op
    BY <1>1, HeadDone, SMT
  <2>2. op.own => Underway(queue, stored, task, 1)
    BY <1>1, <2>1 DEF Stores
  <2>3. QED
    BY <2>1, <2>2 DEF Underway
<1>3. /\ stored' = After(op, stored) /\ UNCHANGED <<token, refused, overtaken, owner>>
      /\ op.field \in {"key", "uid"} /\ op.own \in BOOLEAN /\ NoToken \notin refused
  BY <1>1, NoTokenRefused DEF StorageStep, Effect, After, server, Operations
<1>4. Tracks(Tail(queue), stored', owner[token]) /\ queue' = Tail(queue) => TokenKept'
  BY <1>3 DEF TokenKept
<1>5. CASE op.field = "key"
  <2> DEFINE next == Then(op)
             d == [task[t] EXCEPT !.acct = stored.key]
  <2>1. next \in Operations /\ next = [op EXCEPT !.field = "uid"]
    BY <1>1 DEF Then, LastField, FirstField, Operations
  <2>2. next.field = "uid" /\ next.do = op.do /\ next.value = op.value
    BY <1>1, <2>1 DEF Operations
  <2>3. queue' = Append(Tail(queue), next)
    BY <1>5 DEF StorageStep, FirstField
  <2>4. ASSUME op.own /\ op.do = "read"
        PROVE  FreshTokens' /\ Stores(queue, stored, task)'
    <3>1. task' = [task EXCEPT ![t] = d]
      BY <1>3, <1>5, <2>4 DEF StorageStep, FirstField
    <3>2. /\ d \in Doings /\ d.kind = task[t].kind /\ d.at = "storage" /\ d.acct = stored.key
          /\ d.stale = task[t].stale /\ d.carried = task[t].carried /\ d.got = task[t].got
      BY <1>1, <1>2, <2>4 DEF Doings, Pairs
    <3>3. task'[t] = d /\ \A s \in Tasks \ {t} : task'[s] = task[s]
      BY <1>1, <3>1
    <3> HIDE DEF d, next
    <3>4. FreshTokens'
      BY <1>1, <1>3, <3>1, <3>2, ReplacedFresh DEF FreshTokens
    <3>5. Stores(Append(Tail(queue), next), After(op, stored), task')
      BY <1>1, <1>2, <1>5, <2>1, <2>4, <3>2, <3>3, KeyStep
    <3>6. QED
      BY <1>3, <2>3, <3>4, <3>5
  <2>5. ASSUME ~(op.own /\ op.do = "read")
        PROVE  FreshTokens' /\ Stores(queue, stored, task)'
    <3>1. task' = task
      BY <1>3, <1>5, <2>5 DEF StorageStep, FirstField
    <3>2. \A s \in Tasks : Same(s)
      BY <3>1 DEF Same
    <3>3. FreshTokens'
      BY <1>1, <1>3, <3>2, FreshKept
    <3> HIDE DEF next
    <3>4. Stores(Append(Tail(queue), next), After(op, stored), task')
      BY <1>1, <1>5, <2>1, <2>5, <3>1, KeyStep
    <3>5. QED
      BY <1>3, <2>3, <3>3, <3>4
  <2>6. TokenKept'
    <3>1. op.do = "delete" => op.value = Nobody
      <4>1. 1 \in 1..Len(queue) /\ queue[1] = op
        BY <1>1, HeadDone, SMT
      <4>2. QED
        BY <1>1, <4>1 DEF Stores
    <3>2. Tail(queue) \in Seq(Operations)
      BY <1>1, HeadTailProperties
    <3> HIDE DEF next
    <3>3. ASSUME Tracks(queue, stored, owner[token])
          PROVE  Tracks(Append(Tail(queue), next), stored', owner[token])
      <4>1. Tracks(Tail(queue), After(op, stored), owner[token])
        BY <1>1, <3>3, TracksDone
      <4>2. QED
        BY <1>3, <2>1, <2>2, <3>1, <3>2, <4>1, TracksOn
    <3>4. QED
      BY <1>1, <1>3, <2>3, <3>3 DEF TokenKept
  <2>7. QED
    BY <1>1, <2>4, <2>5, <2>6, StorageTyped DEF Inv
<1>6. CASE op.field = "uid"
  <2>1. queue' = Tail(queue)
    BY <1>6 DEF StorageStep, FirstField
  <2>2. ASSUME op.own
        PROVE  FreshTokens' /\ Stores(queue, stored, task)'
    <3> DEFINE d == IF op.do = "read" THEN Learned(t, task[t].acct, stored.uid) ELSE Rest
    <3>1. task' = [task EXCEPT ![t] = d]
      BY <1>3, <1>6, <2>2 DEF StorageStep, FirstField
    <3>2. d = Rest \/ (/\ op.do = "read" /\ task[t].acct # Nobody
                       /\ d = [task[t] EXCEPT !.at = "sent", !.uid = stored.uid, !.carried = token])
      BY DEF Learned
    <3>3. /\ d \in Doings /\ d.at # "served" /\ d.carried \in {task[t].carried, token, NoToken}
          /\ d.got \in {task[t].got, NoToken}
          /\ d.kind \notin {"login", "refresh"} => d.got = NoToken
          /\ \/ d.at \notin {"sent", "served"}
             \/ /\ op.do = "read" /\ d.acct = task[t].acct /\ d.acct # Nobody
                /\ d.uid = stored.uid /\ d.stale = task[t].stale
      <4>1. CASE d = Rest
        <5>1. Rest.at = "idle" /\ Rest.carried = NoToken /\ Rest.got = NoToken
          BY DEF Rest
        <5> HIDE DEF d
        <5>2. QED
          BY <4>1, <5>1, RestTyped
      <4>2. CASE /\ op.do = "read" /\ task[t].acct # Nobody
                 /\ d = [task[t] EXCEPT !.at = "sent", !.uid = stored.uid, !.carried = token]
        <5>1. token \in KnownTokens /\ stored.uid \in Holders
          BY <1>1 DEF TypeOK, Pairs
        <5>2. task[t].kind \notin {"login", "refresh"} => task[t].got = NoToken
          BY <1>1 DEF FreshTokens
        <5> HIDE DEF d
        <5>3. /\ d \in Doings /\ d.at = "sent" /\ d.carried = token /\ d.got = task[t].got
              /\ d.kind = task[t].kind /\ d.acct = task[t].acct /\ d.uid = stored.uid
              /\ d.stale = task[t].stale
          BY <1>1, <4>2, <5>1 DEF Doings
        <5>4. QED
          BY <4>2, <5>2, <5>3
      <4>3. QED
        BY <3>2, <4>1, <4>2
    <3>4. task'[t] = d /\ \A s \in Tasks \ {t} : task'[s] = task[s]
      BY <1>1, <3>1
    <3> HIDE DEF d
    <3>5. FreshTokens'
      BY <1>1, <1>3, <3>1, <3>3, ReplacedFresh
    <3>6. Stores(Tail(queue), After(op, stored), task')
      BY <1>1, <1>6, <2>2, <3>3, <3>4, UidStep
    <3>7. QED
      BY <1>3, <2>1, <3>5, <3>6
  <2>3. ASSUME ~op.own
        PROVE  FreshTokens' /\ Stores(queue, stored, task)'
    <3>1. task' = task
      BY <1>3, <1>6, <2>3 DEF StorageStep, FirstField
    <3>2. \A s \in Tasks : Same(s)
      BY <3>1 DEF Same
    <3>3. FreshTokens'
      BY <1>1, <1>3, <3>2, FreshKept
    <3>4. Stores(Tail(queue), After(op, stored), task')
      BY <1>1, <1>6, <2>3, <3>1, UidStep
    <3>5. QED
      BY <1>3, <2>1, <3>3, <3>4
  <2>4. TokenKept'
    <3>1. ASSUME Tracks(queue, stored, owner[token])
          PROVE  Tracks(Tail(queue), After(op, stored), owner[token])
      BY <1>1, <3>1, TracksDone
    <3>2. QED
      BY <1>1, <1>3, <2>1, <3>1 DEF TokenKept
  <2>5. QED
    BY <1>1, <2>2, <2>3, <2>4, StorageTyped DEF Inv
<1>7. QED
  BY <1>3, <1>5, <1>6

LEMMA ServerInv ==
  ASSUME Inv, (\E k \in Tokens : Expire(k)) \/ (\E a \in Accounts : Close(a))
  PROVE  Inv'
<1>1. UNCHANGED client /\ owner' = owner
  BY DEF Expire, Close
<1>2. TypeOK'
  BY ServerTyped DEF Inv
<1>3. FreshTokens'
  BY <1>1 DEF Inv, client, FreshTokens, RefusedNotReused, Pending, NewToken
<1>4. Stores(queue, stored, task)' /\ TokenKept'
  BY <1>1 DEF Inv, client, TokenKept
<1>5. QED
  BY <1>2, <1>3, <1>4 DEF Inv

LEMMA InitInv ==
  ASSUME Init
  PROVE  Inv
<1>1. TypeOK
  <2>1. queue \in Seq(Operations)
    BY DEF Init
  <2>2. task \in [Tasks -> Doings]
    BY RestTyped DEF Init
  <2>3. QED
    BY <2>1, <2>2 DEF Init, TypeOK, KnownTokens, Holders, Issued
<1>2. \A t \in Tasks : task[t].at = "idle" /\ task[t].got = NoToken
  BY DEF Init, Rest
<1>3. FreshTokens
  BY <1>2 DEF Init, FreshTokens, RefusedNotReused, Pending
<1>4. Len(queue) = 0 /\ 1..0 = {}
  BY SMT DEF Init
<1>5. LeavesAll(queue, stored, "uid", stored.key)
  BY <1>4 DEF Init, LeavesAll, Leaves
<1>6. Stores(queue, stored, task)
  BY <1>2, <1>4, <1>5 DEF Stores, Sends
<1>7. TokenKept
  BY DEF Init, TokenKept
<1>8. QED
  BY <1>1, <1>3, <1>6, <1>7 DEF Inv

LEMMA StepInv ==
  ASSUME Inv, [Next]_vars
  PROVE  Inv'
<1>1. ASSUME NEW t \in Tasks, Begin(t)
      PROVE  Inv'
  BY <1>1, StartLoginInv, StartRefreshInv, StartLogoutInv, StartCallInv DEF Begin
<1>2. ASSUME NEW t \in Tasks, Answer(t)
      PROVE  Inv'
  BY <1>2, TokenComesInv, CallSucceedsInv, RefusedInv, FailsInv DEF Answer
<1>3. CASE UNCHANGED vars
  <2>1. UNCHANGED client /\ UNCHANGED server
    BY <1>3 DEF vars
  <2>2. TypeOK'
    BY <2>1 DEF Inv, TypeOK, client, server, Doings, KnownTokens, Issued
  <2>3. FreshTokens'
    BY <2>1 DEF Inv, client, server, FreshTokens, RefusedNotReused, Pending, NewToken
  <2>4. Stores(queue, stored, task)' /\ TokenKept'
    BY <2>1 DEF Inv, client, server, TokenKept
  <2>5. QED
    BY <2>2, <2>3, <2>4 DEF Inv
<1>4. QED
  BY <1>1, <1>2, <1>3, ServeInv, StorageInv, ServerInv DEF Next

LEMMA Invariance == Spec => []Inv
<1>1. Init => Inv
  BY InitInv
<1>2. Inv /\ [Next]_vars => Inv'
  BY StepInv
<1>3. QED
  BY <1>1, <1>2, PTL DEF Spec

-----------------------------------------------------------------------------
(* However the tasks interleave, everything the client and the server keep  *)
(* has its type; a token the client holds was issued by the server.         *)
THEOREM TypeCorrect == Spec => []TypeOK
<1>1. Inv => TypeOK
  BY DEF Inv
<1>2. QED
  BY <1>1, Invariance, PTL

(* Whatever logins, logouts, refreshes and 401 handlers are under way, what *)
(* is stored once the storage is at rest, and what a refresh exchanges, are *)
(* the key and the id of one account (auth_repository.dart:68-106).         *)
THEOREM PairsAlwaysMatch == Spec => []PairsMatch
<1>1. ASSUME Inv
      PROVE  PairsMatch
  <2>1. queue = <<>> => LeavesAll(<<>>, stored, "uid", stored.key)
    BY <1>1 DEF Inv, Stores
  <2>2. Len(<<>>) = 0 /\ 1..0 = {}
    BY SMT
  <2>3. NoHalfPair
    BY <2>1, <2>2 DEF NoHalfPair, LeavesAll, Leaves
  <2>4. RefreshSendsPair
    BY <1>1 DEF Inv, Stores, Sends, RefreshSendsPair
  <2>5. QED
    BY <2>3, <2>4 DEF PairsMatch
<1>2. QED
  BY <1>1, Invariance, PTL

(* No token the server has refused comes back into use, in whatever order   *)
(* the answers arrive (auth_repository.dart:110-113).                       *)
THEOREM RefusedNeverReused == Spec => []RefusedNotReused
<1>1. Inv => RefusedNotReused
  BY DEF Inv, FreshTokens
<1>2. QED
  BY <1>1, Invariance, PTL

(* Unless the credentials were changed under the refresh it came from, the  *)
(* token in memory is of the account in the storage                         *)
(* (auth_repository.dart:64-69, 82-90).                                     *)
THEOREM TokenAlwaysOfStored == Spec => []TokenOfStored
<1>1. ASSUME Inv
      PROVE  TokenOfStored
  <2>1. Len(<<>>) = 0 /\ 1..0 = {}
    BY SMT
  <2>2. ASSUME queue = <<>>, token # NoToken, stored.key # Nobody, ~overtaken
        PROVE  owner[token] = stored.key
    <3>1. Tracks(<<>>, stored, owner[token])
      BY <1>1, <2>2 DEF Inv, TokenKept
    <3>2. stored.key \in {owner[token], Nobody}
      BY <2>1, <3>1 DEF Tracks, LeavesAll, Leaves
    <3>3. QED
      BY <2>2, <3>2
  <2>3. QED
    BY <2>2 DEF TokenOfStored
<1>2. QED
  BY <1>1, Invariance, PTL
=============================================================================
