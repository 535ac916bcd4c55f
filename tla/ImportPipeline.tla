--------------------------- MODULE ImportPipeline ---------------------------
(***************************************************************************)
(* The CSV import pipeline: the POST /v1/import/csv handler, the Redis     *)
(* list that carries job ids, the import_jobs table that is the durable    *)
(* record, the worker processes (import_worker.py) and the deletion of a   *)
(* deck, which cascades to its jobs.                                       *)
(*                                                                         *)
(* A variable holds COMMITTED data.  What an open transaction has written  *)
(* is told by the worker's pc:                                             *)
(*                                                                         *)
(*   down        the process is not running                                *)
(*   idle        top of the run_worker loop, about to BLPOP                *)
(*   dequeued    an id was popped; it exists only in this process          *)
(*   polling     the Redis half returned False; about to claim from the DB *)
(*   working     transaction open, job row locked, status PROCESSING       *)
(*               flushed but not committed                                 *)
(*   completing  cards and status COMPLETED pending, commit not yet issued *)
(*   failing     the import raised and the transaction was rolled back:    *)
(*               NO row lock is held                                       *)
(*   recording   status FAILED flushed (row locked again), commit pending  *)
(*   requeue     an exception or a retriable result; about to RPUSH the id *)
(***************************************************************************)
EXTENDS Naturals, Sequences

CONSTANTS Jobs,        \* import job ids, numbered in created_at order
          Decks,
          Workers,
          DeckOf,      \* the deck a job imports into
          Content,     \* what the uploaded file holds: see Contents
          NoJob,
          MaxFaults,   \* bound: database errors that hit a worker
          MaxCrashes   \* bound: worker processes killed

(* "valid": rows the database accepts; "invalid": _parse_csv_rows finds no  *)
(* row or csv.Error; "overlong": a row the parser accepts and the VARCHAR   *)
(* columns of flashcards refuse.                                            *)
Contents == {"valid", "invalid", "overlong"}

ASSUME JobsAssumption == Jobs \subseteq Nat /\ NoJob \notin Jobs
ASSUME DeckOfAssumption == DeckOf \in [Jobs -> Decks]
ASSUME ContentAssumption == Content \in [Jobs -> Contents]
ASSUME BoundsAssumption == MaxFaults \in Nat /\ MaxCrashes \in Nat

VARIABLES status,    \* [Jobs -> Statuses]: the row of import_jobs
          imported,  \* [Jobs -> Nat]: how often the job's cards were committed
          deck,      \* [Decks -> {"live", "deleting", "deleted"}]
          request,   \* [Jobs -> {"none", "stored", "answered"}]: import_csv
          queue,     \* the Redis list "import queue": a sequence of job ids
          pc, cur,   \* per worker: control state and the job at hand
          viaRedis,  \* per worker: did the job come from BLPOP?
          faults, crashes

jobVars == <<status, imported, deck>>
workerVars == <<pc, cur, viaRedis>>
vars == <<jobVars, request, queue, workerVars, faults, crashes>>

Statuses == {"absent", "queued", "processing", "completed", "failed", "gone"}
PCs == {"down", "idle", "dequeued", "polling", "working", "completing",
        "failing", "recording", "requeue"}

-----------------------------------------------------------------------------
(* The row lock of a job is held by the worker whose transaction is open.   *)
HoldsLock(w) == pc[w] \in {"working", "completing", "recording"}
Locked(j) == \E w \in Workers : HoldsLock(w) /\ cur[w] = j

Goto(w, label) == pc' = [pc EXCEPT ![w] = label]

(* Control leaves the job: back to the loop, or on to the database half.    *)
Release(w, label) ==
  /\ Goto(w, label)
  /\ cur' = [cur EXCEPT ![w] = NoJob]
  /\ viaRedis' = [viaRedis EXCEPT ![w] = FALSE]

(* MUTANT of GiveUp: the database half requeues the id as well.             *)
GiveUpAlwaysRequeues(w) == Goto(w, "requeue") /\ UNCHANGED <<cur, viaRedis>>

(* Where an exception or a retriable result leads: _process_redis_job       *)
(* requeues the id, _process_db_job drops it and run_worker sleeps.         *)
GiveUp(w) ==
  IF viaRedis[w] THEN Goto(w, "requeue") /\ UNCHANGED <<cur, viaRedis>>
                 ELSE Release(w, "idle")

-----------------------------------------------------------------------------
Init ==
  /\ status = [j \in Jobs |-> "absent"]
  /\ imported = [j \in Jobs |-> 0]
  /\ deck = [d \in Decks |-> "live"]
  /\ request = [j \in Jobs |-> "none"]
  /\ queue = <<>>
  /\ pc = [w \in Workers |-> "down"]
  /\ cur = [w \in Workers |-> NoJob]
  /\ viaRedis = [w \in Workers |-> FALSE]
  /\ faults = 0 /\ crashes = 0

(* ------------------------- the API process ----------------------------- *)

(* import_csv: the job row is committed before anything reaches Redis.  The *)
(* foreign-key check waits for a transaction that is deleting the deck.     *)
Submit(j) ==
  /\ request[j] = "none"
  /\ deck[DeckOf[j]] = "live"
  /\ status' = [status EXCEPT ![j] = "queued"]
  /\ request' = [request EXCEPT ![j] = "stored"]
  /\ UNCHANGED <<imported, deck, queue, workerVars, faults, crashes>>

(* enqueue_import_job after the commit.                                     *)
Enqueue(j) ==
  /\ request[j] = "stored"
  /\ request' = [request EXCEPT ![j] = "answered"]
  /\ queue' = Append(queue, j)
  /\ UNCHANGED <<jobVars, workerVars, faults, crashes>>

(* Redis is down (the exception is swallowed) or the API process dies       *)
(* between the commit and the RPUSH: the id never reaches the list.         *)
EnqueueLost(j) ==
  /\ request[j] = "stored"
  /\ request' = [request EXCEPT ![j] = "answered"]
  /\ UNCHANGED <<jobVars, queue, workerVars, faults, crashes>>

(* delete_deck locks the deck row; the ON DELETE CASCADE then needs the row *)
(* of every job of the deck.                                                *)
DeleteDeck(d) ==
  /\ deck[d] = "live"
  /\ deck' = [deck EXCEPT ![d] = "deleting"]
  /\ UNCHANGED <<status, imported, request, queue, workerVars, faults, crashes>>

DeleteCommit(d) ==
  /\ deck[d] = "deleting"
  /\ \A j \in Jobs : DeckOf[j] = d => ~Locked(j)
  /\ deck' = [deck EXCEPT ![d] = "deleted"]
  /\ status' = [j \in Jobs |->
                  IF DeckOf[j] = d /\ status[j] # "absent" THEN "gone" ELSE status[j]]
  /\ UNCHANGED <<imported, request, queue, workerVars, faults, crashes>>

(* The import's INSERT needs the deck row, the deletion needs the job row:  *)
(* PostgreSQL breaks the cycle by aborting one of the two transactions.     *)
(* Here the deletion is the victim; CommitFails is the other outcome.       *)
Deadlocked(w) == pc[w] = "completing" /\ deck[DeckOf[cur[w]]] = "deleting"

DeleteAborted(d) ==
  /\ deck[d] = "deleting"
  /\ \E w \in Workers : Deadlocked(w) /\ DeckOf[cur[w]] = d
  /\ deck' = [deck EXCEPT ![d] = "live"]
  /\ UNCHANGED <<status, imported, request, queue, workerVars, faults, crashes>>

(* ------------------------ a worker process ----------------------------- *)

(* MUTANT of Start: the reset without its filter on PROCESSING.             *)
StartResetsEveryJob(w) ==
  /\ pc[w] = "down"
  /\ Goto(w, "idle")
  /\ status' = [j \in Jobs |-> IF status[j] = "absent" THEN "absent" ELSE "queued"]
  /\ UNCHANGED <<imported, deck, request, queue, cur, viaRedis, faults, crashes>>

(* run_worker starts with _reset_stuck_jobs, in a transaction of its own.   *)
Start(w) ==
  /\ pc[w] = "down"
  /\ Goto(w, "idle")
  /\ status' = [j \in Jobs |->
                  IF status[j] = "processing" THEN "queued" ELSE status[j]]
  /\ UNCHANGED <<imported, deck, request, queue, cur, viaRedis, faults, crashes>>

(* BLPOP returns an id.                                                     *)
Dequeue(w) ==
  /\ pc[w] = "idle"
  /\ queue # <<>>
  /\ Goto(w, "dequeued")
  /\ cur' = [cur EXCEPT ![w] = Head(queue)]
  /\ viaRedis' = [viaRedis EXCEPT ![w] = TRUE]
  /\ queue' = Tail(queue)
  /\ UNCHANGED <<jobVars, request, faults, crashes>>

(* BLPOP timed out, or Redis cannot be reached (whatever the list holds).   *)
DequeueNothing(w) ==
  /\ pc[w] = "idle"
  /\ Goto(w, "polling")
  /\ UNCHANGED <<jobVars, request, queue, cur, viaRedis, faults, crashes>>

(* MUTANT of LockJob: the status is not looked at again once the lock is    *)
(* there.                                                                   *)
LockJobUnchecked(w) ==
  /\ pc[w] = "dequeued"
  /\ ~Locked(cur[w])
  /\ Goto(w, "working")
  /\ UNCHANGED <<jobVars, request, queue, cur, viaRedis, faults, crashes>>

(* MUTANT of LockJob: no FOR UPDATE.                                        *)
LockJobWithoutLock(w) ==
  /\ pc[w] = "dequeued"
  /\ IF status[cur[w]] = "queued"
     THEN Goto(w, "working") /\ UNCHANGED <<cur, viaRedis>>
     ELSE Release(w, "polling")
  /\ UNCHANGED <<jobVars, request, queue, faults, crashes>>

(* _process_job for an id: SELECT ... FOR UPDATE waits for the row lock,    *)
(* then rereads the row; a job that is no longer QUEUED is dropped.         *)
LockJob(w) ==
  /\ pc[w] = "dequeued"
  /\ ~Locked(cur[w])
  /\ IF status[cur[w]] = "queued"
     THEN Goto(w, "working") /\ UNCHANGED <<cur, viaRedis>>
     ELSE Release(w, "polling")
  /\ UNCHANGED <<jobVars, request, queue, faults, crashes>>

(* _claim_db_job: the oldest QUEUED row nobody has locked.                  *)
Claimable == {j \in Jobs : status[j] = "queued" /\ ~Locked(j)}

(* MUTANT of ClaimDbJob: only Redis feeds the worker.                       *)
ClaimNothing(w) ==
  /\ pc[w] = "polling"
  /\ Goto(w, "idle")
  /\ UNCHANGED <<jobVars, request, queue, cur, viaRedis, faults, crashes>>

ClaimDbJob(w) ==
  /\ pc[w] = "polling"
  /\ IF Claimable = {}
     THEN Goto(w, "idle") /\ UNCHANGED cur
     ELSE /\ Goto(w, "working")
          /\ \E j \in Claimable : /\ \A k \in Claimable : j <= k
                                  /\ cur' = [cur EXCEPT ![w] = j]
  /\ UNCHANGED <<jobVars, request, queue, viaRedis, faults, crashes>>

(* process_import_job reaches COMPLETED; the new rows are only flushed by   *)
(* the commit, so an overlong row is not noticed here.                      *)
Import(w) ==
  /\ pc[w] = "working"
  /\ Content[cur[w]] # "invalid"
  /\ Goto(w, "completing")
  /\ UNCHANGED <<jobVars, request, queue, cur, viaRedis, faults, crashes>>

(* ... or raises inside the try block (ValueError and csv.Error for an      *)
(* invalid file, any other exception for any file).  Both handlers begin    *)
(* with db.rollback(), which gives up the row lock.                         *)
Reject(w) ==
  /\ pc[w] = "working"
  /\ Goto(w, "failing")
  /\ UNCHANGED <<jobVars, request, queue, cur, viaRedis, faults, crashes>>

(* The handler rereads the job without a lock and without looking at its    *)
(* status; the UPDATE it flushes waits for the row.  A row deleted meantime *)
(* ends in None or in StaleDataError, and both lead to GiveUp.              *)
MarkFailed(w) ==
  /\ pc[w] = "failing"
  /\ ~Locked(cur[w])
  /\ IF status[cur[w]] = "gone"
     THEN GiveUp(w)
     ELSE Goto(w, "recording") /\ UNCHANGED <<cur, viaRedis>>
  /\ UNCHANGED <<jobVars, request, queue, faults, crashes>>

(* MUTANT of Publish: the rows of a failed import are not rolled back.      *)
PublishWithoutRollback(w) ==
  /\ status' = [status EXCEPT ![cur[w]] =
                  IF pc[w] = "completing" THEN "completed" ELSE "failed"]
  /\ imported' = [imported EXCEPT ![cur[w]] = @ + 1]
  /\ UNCHANGED deck

(* What the commit of worker w makes durable.                               *)
Publish(w) ==
  /\ status' = [status EXCEPT ![cur[w]] =
                  IF pc[w] = "completing" THEN "completed" ELSE "failed"]
  /\ imported' = [imported EXCEPT ![cur[w]] =
                    IF pc[w] = "completing" THEN @ + 1 ELSE @]
  /\ UNCHANGED deck

CanCommit(w) ==
  \/ pc[w] = "recording"
  \/ pc[w] = "completing" /\ Content[cur[w]] = "valid" /\ ~Deadlocked(w)

Commit(w) ==
  /\ CanCommit(w)
  /\ Publish(w)
  /\ Release(w, "idle")
  /\ UNCHANGED <<request, queue, faults, crashes>>

(* The commit's flush is refused (overlong row) or chosen as the deadlock   *)
(* victim.  This is outside the try block: nothing marks the job FAILED.    *)
CommitFails(w) ==
  /\ pc[w] = "completing"
  /\ Content[cur[w]] = "overlong" \/ Deadlocked(w)
  /\ GiveUp(w)
  /\ UNCHANGED <<jobVars, request, queue, faults, crashes>>

(* _requeue_job_id, then _process_redis_job returns False and run_worker    *)
(* goes on to the database half.                                            *)
Requeue(w) ==
  /\ pc[w] = "requeue"
  /\ queue' = Append(queue, cur[w])
  /\ Release(w, "polling")
  /\ UNCHANGED <<jobVars, request, faults, crashes>>

(* MUTANT of RequeueLost: the id stays at hand when Redis refuses it.       *)
RequeueKeepsJob(w) ==
  /\ pc[w] = "requeue"
  /\ Goto(w, "polling")
  /\ UNCHANGED <<jobVars, request, queue, cur, viaRedis, faults, crashes>>

RequeueLost(w) ==
  /\ pc[w] = "requeue"
  /\ Release(w, "polling")
  /\ UNCHANGED <<jobVars, request, queue, faults, crashes>>

(* ------------------------------ faults ---------------------------------- *)

(* The database connection fails; the server rolls the transaction back.    *)
DbError(w) ==
  /\ pc[w] \in {"dequeued", "polling", "working", "completing", "failing", "recording"}
  /\ faults < MaxFaults
  /\ faults' = faults + 1
  /\ GiveUp(w)
  /\ UNCHANGED <<jobVars, request, queue, crashes>>

(* The commit took effect but its acknowledgement was lost.                 *)
CommitUnacknowledged(w) ==
  /\ CanCommit(w)
  /\ faults < MaxFaults
  /\ faults' = faults + 1
  /\ Publish(w)
  /\ GiveUp(w)
  /\ UNCHANGED <<request, queue, crashes>>

(* The process is killed; compose restarts it ("unless-stopped").           *)
Crash(w) ==
  /\ pc[w] # "down"
  /\ crashes < MaxCrashes
  /\ crashes' = crashes + 1
  /\ Release(w, "down")
  /\ UNCHANGED <<jobVars, request, queue, faults>>

-----------------------------------------------------------------------------
WorkerStep(w) ==
  \/ Start(w) \/ Dequeue(w) \/ DequeueNothing(w) \/ LockJob(w) \/ ClaimDbJob(w)
  \/ Import(w) \/ Reject(w) \/ MarkFailed(w) \/ Commit(w) \/ CommitFails(w)
  \/ Requeue(w) \/ RequeueLost(w)

Fault(w) == DbError(w) \/ CommitUnacknowledged(w) \/ Crash(w)

ApiStep ==
  \/ \E j \in Jobs : Submit(j) \/ Enqueue(j) \/ EnqueueLost(j)
  \/ \E d \in Decks : DeleteDeck(d) \/ DeleteCommit(d) \/ DeleteAborted(d)

Next == ApiStep \/ \E w \in Workers : WorkerStep(w) \/ Fault(w)

Spec == Init /\ [][Next]_vars

(* A worker process keeps running its loop and is restarted when it dies;   *)
(* PostgreSQL grants a released row to the deletion that waits for it.      *)
(* Nothing is assumed of clients, of Redis, or of the faults.               *)
Fairness ==
  /\ \A w \in Workers : WF_vars(WorkerStep(w))
  /\ \A d \in Decks : SF_vars(DeleteCommit(d))

FairSpec == Spec /\ Fairness

-----------------------------------------------------------------------------
(* Part of TypeOK.                                                          *)
ControlOK ==
  /\ pc \in [Workers -> PCs]
  /\ cur \in [Workers -> Jobs \cup {NoJob}]
  /\ viaRedis \in [Workers -> BOOLEAN]
  /\ \A w \in Workers : /\ cur[w] = NoJob <=> pc[w] \in {"down", "idle", "polling"}
                        /\ viaRedis[w] => cur[w] # NoJob

(* Every variable stays within its type, and a worker has a job in hand     *)
(* exactly in the control states that need one.                             *)
TypeOK ==
  /\ status \in [Jobs -> Statuses]
  /\ imported \in [Jobs -> Nat]
  /\ deck \in [Decks -> {"live", "deleting", "deleted"}]
  /\ request \in [Jobs -> {"none", "stored", "answered"}]
  /\ queue \in Seq(Jobs)
  /\ faults \in Nat /\ crashes \in Nat
  /\ ControlOK

(* However often an id is delivered, requeued or claimed, by however many   *)
(* workers, and whichever of them crash: the cards of a job are committed   *)
(* to its deck at most once.                                                *)
AtMostOnce == \A j \in Jobs : imported[j] <= 1

(* The status a client polls is never ahead of the cards: COMPLETED means   *)
(* the import is in the deck, and while the job is QUEUED (so that it may   *)
(* be processed again) nothing of an earlier attempt is.                    *)
StatusMatchesCards ==
  \A j \in Jobs : /\ status[j] = "completed" => imported[j] = 1
                  /\ status[j] \in {"absent", "queued"} => imported[j] = 0

(* An id is in at most one place: once in the Redis list or once in the     *)
(* hands of one worker.  Requeueing never multiplies deliveries, although   *)
(* the database half may work on the same job meanwhile.                    *)
Copies(j) == {i \in DOMAIN queue : queue[i] = j}
Holders(j) == {w \in Workers : viaRedis[w] /\ cur[w] = j}
OneDelivery ==
  \A j \in Jobs :
    /\ \A a, b \in Copies(j) : a = b
    /\ \A v, w \in Holders(j) : v = w
    /\ Holders(j) = {} \/ Copies(j) = {}

(* The outcome a client has been shown is final: COMPLETED never becomes    *)
(* FAILED, FAILED is never retried; only deleting the deck removes it.      *)
OutcomeIsFinal ==
  [][\A j \in Jobs : status[j] \in {"completed", "failed"}
                       => status'[j] \in {status[j], "gone"}]_vars

(* "If Redis is down, we still return 202 because the job is in the DB.     *)
(* The worker will eventually pick it up via DB polling": every stored job  *)
(* reaches an outcome, unless the database cannot accept its rows.          *)
StoredJobIsResolved ==
  \A j \in Jobs : Content[j] # "overlong" =>
                     (status[j] = "queued" ~> status[j] # "queued")

(* What the rest of the system is promised: see ImportContract.             *)
Contract == INSTANCE ImportContract WITH outcome <- status
ImplementsContract == Contract!Spec
=============================================================================
