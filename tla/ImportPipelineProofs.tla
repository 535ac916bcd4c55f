------------------------ MODULE ImportPipelineProofs ------------------------
(***************************************************************************)
(* Proofs about ImportPipeline, for any sets of jobs, decks and workers    *)
(* and any bounds on the faults.                                           *)
(*                                                                         *)
(* AtMostOnce is not inductive: it needs to know that a worker about to    *)
(* commit an import holds the job's row alone and that the job is still    *)
(* QUEUED, and that a QUEUED job has no cards.  IInv says so.  OneDelivery *)
(* needs DeliveryInv, and the refinement of ImportContract OneWorkerInv.   *)
(***************************************************************************)
EXTENDS ImportPipeline, TLAPS

(* The row lock excludes: two open transactions never work on one job.      *)
LockExcludes ==
  \A v, w \in Workers : HoldsLock(v) /\ HoldsLock(w) /\ cur[v] = cur[w] => v = w

(* A transaction that has begun an import still finds its job QUEUED.       *)
ImportsQueued ==
  \A w \in Workers : pc[w] \in {"working", "completing"} => status[cur[w]] = "queued"

(* A job exists once its request stored it, and PROCESSING is never         *)
(* committed.                                                               *)
StoredOnce ==
  \A j \in Jobs : /\ request[j] = "none" <=> status[j] = "absent"
                  /\ status[j] # "processing"

(* Only the ids of stored jobs travel through Redis and the workers.        *)
KnownIds ==
  /\ \A w \in Workers : cur[w] # NoJob => status[cur[w]] # "absent"
  /\ \A i \in 1..Len(queue) : status[queue[i]] # "absent"

CardsInv == StoredOnce /\ AtMostOnce /\ StatusMatchesCards

IInv == TypeOK /\ LockExcludes /\ ImportsQueued /\ KnownIds /\ CardsInv

-----------------------------------------------------------------------------
(* What the helpers of the worker's actions do to its control state.        *)
LEMMA ReleaseOK ==
  ASSUME ControlOK, NEW w \in Workers, NEW label \in {"down", "idle", "polling"},
         Release(w, label)
  PROVE  ControlOK'
  BY DEF ControlOK, Release, Goto, PCs

(* A step within a job keeps the control state sound.                       *)
LEMMA KeepJobOK ==
  ASSUME ControlOK, NEW w \in Workers, NEW label \in PCs \ {"down", "idle", "polling"},
         cur[w] # NoJob, Goto(w, label), UNCHANGED <<cur, viaRedis>>
  PROVE  ControlOK'
  BY DEF ControlOK, Goto

(* So does a step of the API, which no worker takes part in.                *)
LEMMA IdleControlOK == ControlOK /\ UNCHANGED workerVars => ControlOK'
  BY DEF ControlOK, workerVars

(* No transaction without a job, and none that will requeue nothing.        *)
LEMMA JobAtHand ==
  ASSUME ControlOK, NEW w \in Workers
  PROVE  /\ pc[w] \notin {"down", "idle", "polling"} => cur[w] \in Jobs /\ cur[w] # NoJob
         /\ cur[w] # NoJob \/ ~viaRedis[w]
  <1>1. pc[w] \notin {"down", "idle", "polling"} => cur[w] \in Jobs /\ cur[w] # NoJob
    BY JobsAssumption DEF ControlOK
  <1>2. cur[w] # NoJob \/ ~viaRedis[w]
    BY Zenon DEF ControlOK
  <1> QED BY <1>1, <1>2

(* A commit keeps the types of what it writes and leaves the deck alone.    *)
LEMMA PublishOK ==
  ASSUME TypeOK, NEW w \in Workers, Publish(w)
  PROVE  /\ status' \in [Jobs -> Statuses]
         /\ imported' \in [Jobs -> Nat]
         /\ deck' = deck
  <1>1. status' \in [Jobs -> Statuses]
    BY DEF TypeOK, Publish, Statuses
  <1>2. ASSUME NEW j \in Jobs PROVE imported'[j] \in Nat
    BY DEF TypeOK, Publish
  <1>3. DOMAIN imported' = Jobs
    BY DEF TypeOK, Publish
  <1> QED BY <1>1, <1>2, <1>3 DEF Publish

(* An exception or a retriable result (GiveUp) keeps the control state      *)
(* sound.                                                                   *)
LEMMA GiveUpOK ==
  ASSUME ControlOK, NEW w \in Workers, cur[w] # NoJob \/ ~viaRedis[w], GiveUp(w)
  PROVE  ControlOK'
  <1>1. CASE viaRedis[w]
    BY <1>1, KeepJobOK DEF GiveUp, PCs
  <1>2. CASE ~viaRedis[w]
    BY <1>2, ReleaseOK DEF GiveUp
  <1> QED BY <1>1, <1>2

-----------------------------------------------------------------------------
(* Type correctness: every variable stays within its type, and a worker has *)
(* a job in hand exactly in the control states that need one.               *)
LEMMA TypeStep == TypeOK /\ [Next]_vars => TypeOK'
  <1> SUFFICES ASSUME TypeOK, [Next]_vars PROVE TypeOK'
    OBVIOUS
  <1> USE JobsAssumption, DeckOfAssumption DEF TypeOK, Statuses, jobVars, workerVars
  <1>1. ASSUME NEW j \in Jobs, Submit(j) \/ Enqueue(j) \/ EnqueueLost(j) PROVE TypeOK'
    <2>1. ControlOK'
      BY <1>1, IdleControlOK DEF Submit, Enqueue, EnqueueLost
    <2>2. Append(queue, j) \in Seq(Jobs)
      OBVIOUS
    <2>3. CASE Submit(j)
      BY <2>1, <2>3 DEF Submit
    <2>4. CASE Enqueue(j) \/ EnqueueLost(j)
      BY <2>1, <2>2, <2>4 DEF Enqueue, EnqueueLost
    <2> QED BY <1>1, <2>3, <2>4
  <1>2. ASSUME NEW d \in Decks, DeleteDeck(d) \/ DeleteCommit(d) \/ DeleteAborted(d)
        PROVE  TypeOK'
    BY <1>2 DEF DeleteDeck, DeleteCommit, DeleteAborted, ControlOK
  <1>3. ASSUME NEW w \in Workers, WorkerStep(w) PROVE TypeOK'
    <2>1. CASE Start(w)
      BY <2>1 DEF Start, ControlOK, Goto, PCs
    <2>2. CASE Dequeue(w)
      <3>1. Head(queue) \in Jobs /\ Tail(queue) \in Seq(Jobs)
        BY <2>2 DEF Dequeue
      <3> QED BY <2>2, <3>1 DEF Dequeue, ControlOK, Goto, PCs
    <2>3. CASE DequeueNothing(w)
      BY <2>3 DEF DequeueNothing, ControlOK, Goto, PCs
    <2>4. CASE LockJob(w)
      <3>1. cur[w] # NoJob
        BY <2>4, JobAtHand DEF LockJob
      <3>2. ControlOK'
        BY <2>4, <3>1, ReleaseOK, KeepJobOK DEF LockJob, PCs
      <3> QED BY <2>4, <3>2 DEF LockJob
    <2>5. CASE ClaimDbJob(w)
      BY <2>5 DEF ClaimDbJob, Claimable, ControlOK, Goto, PCs
    <2>6. CASE Import(w) \/ Reject(w)
      <3>1. cur[w] # NoJob
        BY <2>6, JobAtHand DEF Import, Reject
      <3>2. ControlOK'
        BY <2>6, <3>1, KeepJobOK DEF Import, Reject, PCs
      <3> QED BY <2>6, <3>2 DEF Import, Reject
    <2>7. CASE MarkFailed(w)
      <3>1. cur[w] # NoJob
        BY <2>7, JobAtHand DEF MarkFailed
      <3>2. ControlOK'
        BY <2>7, <3>1, KeepJobOK, GiveUpOK DEF MarkFailed, PCs
      <3> QED BY <2>7, <3>2 DEF MarkFailed
    <2>8. CASE Commit(w)
      <3>1. ControlOK'
        BY <2>8, ReleaseOK DEF Commit
      <3> QED BY <2>8, <3>1, PublishOK DEF Commit
    <2>9. CASE CommitFails(w)
      <3>1. ControlOK'
        BY <2>9, JobAtHand, GiveUpOK DEF CommitFails
      <3> QED BY <2>9, <3>1 DEF CommitFails
    <2>10. CASE Requeue(w) \/ RequeueLost(w)
      <3>1. cur[w] \in Jobs
        BY <2>10, JobAtHand DEF Requeue, RequeueLost
      <3>2. ControlOK' /\ Append(queue, cur[w]) \in Seq(Jobs)
        BY <2>10, <3>1, ReleaseOK DEF Requeue, RequeueLost
      <3> QED BY <2>10, <3>2 DEF Requeue, RequeueLost
    <2> QED BY <1>3, <2>1, <2>2, <2>3, <2>4, <2>5, <2>6, <2>7, <2>8, <2>9, <2>10
            DEF WorkerStep
  <1>4. ASSUME NEW w \in Workers, Fault(w) PROVE TypeOK'
    <2>1. CASE DbError(w)
      <3>1. ControlOK'
        BY <2>1, JobAtHand, GiveUpOK DEF DbError
      <3> QED BY <2>1, <3>1 DEF DbError
    <2>2. CASE CommitUnacknowledged(w)
      <3>1. ControlOK'
        BY <2>2, JobAtHand, GiveUpOK DEF CommitUnacknowledged
      <3> QED BY <2>2, <3>1, PublishOK DEF CommitUnacknowledged
    <2>3. CASE Crash(w)
      BY <2>3, ReleaseOK DEF Crash
    <2> QED BY <1>4, <2>1, <2>2, <2>3 DEF Fault
  <1>5. CASE UNCHANGED vars
    BY <1>5 DEF vars, ControlOK
  <1> QED BY <1>1, <1>2, <1>3, <1>4, <1>5 DEF Next, ApiStep

(* Whatever requests, faults, crashes and deletions of decks come, every    *)
(* variable keeps its type, and a worker has a job in hand exactly in the   *)
(* control states that need one.                                            *)
THEOREM TypeCorrect == Spec => []TypeOK
  <1>1. Init => TypeOK
    BY JobsAssumption DEF Init, TypeOK, ControlOK, Statuses, PCs
  <1> QED BY <1>1, TypeStep, PTL DEF Spec

-----------------------------------------------------------------------------
(* How the steps of one worker w affect the locks: the other workers stay   *)
(* where they are, and w keeps its lock, gives it up, or takes a free one.  *)
OthersStay(w) == \A v \in Workers \ {w} : pc'[v] = pc[v] /\ cur'[v] = cur[v]

(* Row locks stay exclusive when a worker keeps or releases its own.        *)
LEMMA LockKeptOrReleased ==
  ASSUME LockExcludes, NEW w \in Workers, OthersStay(w),
         HoldsLock(w)' => HoldsLock(w) /\ cur'[w] = cur[w]
  PROVE  LockExcludes'
  BY DEF LockExcludes, HoldsLock, OthersStay

(* Row locks stay exclusive when a worker takes one nobody holds.           *)
LEMMA LockTaken ==
  ASSUME LockExcludes, NEW w \in Workers, OthersStay(w), ~Locked(cur'[w])
  PROVE  LockExcludes'
  BY DEF LockExcludes, HoldsLock, OthersStay, Locked

(* A step of one worker that changes its label and its job.                 *)
LEMMA OneWorkerMoves ==
  ASSUME TypeOK, NEW w \in Workers, NEW label, NEW job,
         Goto(w, label), cur' = [cur EXCEPT ![w] = job]
  PROVE  OthersStay(w) /\ pc'[w] = label /\ cur'[w] = job
  BY DEF TypeOK, ControlOK, Goto, OthersStay

(* A step of one worker that changes its label only.                        *)
LEMMA GotoMoves ==
  ASSUME TypeOK, NEW w \in Workers, NEW label, Goto(w, label), UNCHANGED cur
  PROVE  OthersStay(w) /\ pc'[w] = label /\ cur'[w] = cur[w]
  BY DEF TypeOK, ControlOK, Goto, OthersStay

(* Where GiveUp takes a worker.                                             *)
LEMMA GiveUpMoves ==
  ASSUME TypeOK, NEW w \in Workers, GiveUp(w)
  PROVE  OthersStay(w) /\ pc'[w] \in {"requeue", "idle"} /\ cur'[w] \in {cur[w], NoJob}
  <1>1. CASE viaRedis[w]
    BY <1>1, GotoMoves DEF GiveUp
  <1>2. CASE ~viaRedis[w]
    BY <1>2, OneWorkerMoves DEF GiveUp, Release
  <1> QED BY <1>1, <1>2

(* Known ids stay known when one id moves between the list and a worker.    *)
LEMMA KnownStay ==
  ASSUME TypeOK, KnownIds, NEW w \in Workers, OthersStay(w),
         \A j \in Jobs : status[j] # "absent" => status'[j] # "absent",
         cur'[w] \in {cur[w], NoJob}, queue' = queue
  PROVE  KnownIds'
  <1>1. ASSUME NEW v \in Workers, cur'[v] # NoJob PROVE status'[cur'[v]] # "absent"
    <2>1. cur'[v] = cur[v] /\ cur[v] \in Jobs
      BY <1>1 DEF TypeOK, ControlOK, OthersStay
    <2> QED BY <1>1, <2>1 DEF KnownIds
  <1>2. ASSUME NEW i \in 1..Len(queue) PROVE status'[queue[i]] # "absent"
    BY DEF KnownIds, TypeOK
  <1> QED BY <1>1, <1>2 DEF KnownIds

(* An appended id is known if the id and the list were.                     *)
LEMMA KnownAppended ==
  ASSUME TypeOK, KnownIds, NEW j \in Jobs, status[j] # "absent"
  PROVE  \A i \in 1..Len(Append(queue, j)) : status[Append(queue, j)[i]] # "absent"
  <1>1. queue \in Seq(Jobs)
    BY DEF TypeOK
  <1>2. /\ Len(Append(queue, j)) = Len(queue) + 1 /\ Len(queue) \in Nat
        /\ \A i \in 1..Len(queue) : Append(queue, j)[i] = queue[i]
        /\ Append(queue, j)[Len(queue) + 1] = j
    BY <1>1
  <1> QED BY <1>2 DEF KnownIds

(* A worker's step that commits nothing leaves the jobs alone.              *)
LEMMA NoPublish ==
  ASSUME IInv, NEW w \in Workers, OthersStay(w), UNCHANGED <<jobVars, request>>,
         pc'[w] \in {"working", "completing"} => status[cur'[w]] = "queued"
  PROVE  ImportsQueued' /\ CardsInv'
  <1>1. ImportsQueued'
    BY DEF IInv, ImportsQueued, OthersStay, jobVars
  <1>2. CardsInv'
    BY DEF IInv, CardsInv, StoredOnce, AtMostOnce, StatusMatchesCards, jobVars
  <1> QED BY <1>1, <1>2

(* A commit that changes one job, locked by the worker, keeps statuses and  *)
(* cards in agreement.                                                      *)
LEMMA PublishedCards ==
  ASSUME IInv, NEW w \in Workers, OthersStay(w), UNCHANGED request,
         pc'[w] \notin {"working", "completing"},
         cur[w] \in Jobs, HoldsLock(w), status[cur[w]] # "absent",
         \A j \in Jobs \ {cur[w]} : status'[j] = status[j] /\ imported'[j] = imported[j],
         \/ status'[cur[w]] = "completed" /\ imported'[cur[w]] = 1
         \/ status'[cur[w]] = "failed" /\ imported'[cur[w]] = imported[cur[w]]
  PROVE  /\ ImportsQueued' /\ CardsInv'
         /\ \A j \in Jobs : status[j] # "absent" => status'[j] # "absent"
  <1>1. ASSUME NEW v \in Workers, pc'[v] \in {"working", "completing"}
        PROVE  status'[cur'[v]] = "queued"
    <2>1. v # w /\ pc[v] = pc'[v] /\ cur[v] = cur'[v] /\ HoldsLock(v)
      BY <1>1 DEF OthersStay, HoldsLock
    <2>2. cur[v] # cur[w] /\ cur[v] \in Jobs /\ status[cur[v]] = "queued"
      BY <1>1, <2>1, JobAtHand DEF IInv, TypeOK, LockExcludes, ImportsQueued
    <2> QED BY <2>1, <2>2
  <1>2. StoredOnce'
    BY DEF IInv, CardsInv, StoredOnce
  <1>3. AtMostOnce' /\ StatusMatchesCards'
    BY DEF IInv, CardsInv, AtMostOnce, StatusMatchesCards
  <1>4. \A j \in Jobs : status[j] # "absent" => status'[j] # "absent"
    OBVIOUS
  <1> QED BY <1>1, <1>2, <1>3, <1>4 DEF ImportsQueued, CardsInv

(* What a commit publishes keeps status and cards in agreement: the job of  *)
(* a transaction that is completing is QUEUED and so without cards, and no  *)
(* other open transaction has that job in hand.                             *)
LEMMA PublishStep ==
  ASSUME IInv, NEW w \in Workers, CanCommit(w), Publish(w), OthersStay(w),
         pc'[w] \notin {"working", "completing"}, UNCHANGED request
  PROVE  /\ ImportsQueued' /\ CardsInv'
         /\ \A j \in Jobs : status[j] # "absent" => status'[j] # "absent"
  <1> DEFINE job == cur[w]
  <1>1. job \in Jobs /\ HoldsLock(w) /\ status[job] # "absent"
    BY JobAtHand DEF CanCommit, HoldsLock, IInv, TypeOK, KnownIds
  <1>2. \A j \in Jobs \ {job} : status'[j] = status[j] /\ imported'[j] = imported[j]
    BY DEF Publish, IInv, TypeOK
  <1>3. CASE pc[w] = "completing"
    <2>1. status[job] = "queued" /\ imported[job] = 0
      BY <1>1, <1>3 DEF IInv, ImportsQueued, CardsInv, StatusMatchesCards
    <2>2. status'[job] = "completed" /\ imported'[job] = 1
      BY <1>1, <1>3, <2>1 DEF Publish, IInv, TypeOK
    <2> QED BY <1>1, <1>2, <2>1, <2>2, PublishedCards
  <1>4. CASE pc[w] = "recording"
    <2>1. status'[job] = "failed" /\ imported'[job] = imported[job]
      BY <1>1, <1>4 DEF Publish, IInv, TypeOK
    <2> QED BY <1>1, <1>2, <2>1, PublishedCards
  <1>5. pc[w] = "completing" \/ pc[w] = "recording"
    BY DEF CanCommit
  <1> QED BY <1>3, <1>4, <1>5

(* A worker lets go of its job without a commit: dropped or to be requeued. *)
LEMMA JobLetGo ==
  ASSUME IInv, TypeOK', NEW w \in Workers, OthersStay(w),
         pc'[w] \in {"down", "idle", "polling", "requeue"}, cur'[w] \in {cur[w], NoJob},
         UNCHANGED <<jobVars, request, queue>>
  PROVE  IInv'
  <1>1. LockExcludes'
    BY LockKeptOrReleased DEF IInv, HoldsLock
  <1>2. ImportsQueued' /\ CardsInv'
    BY NoPublish
  <1>3. KnownIds'
    BY KnownStay DEF IInv, jobVars
  <1> QED BY <1>1, <1>2, <1>3 DEF IInv

(* A worker releases its job without a commit.                              *)
LEMMA JobDropped ==
  ASSUME IInv, TypeOK', NEW w \in Workers, NEW label \in {"down", "idle", "polling"},
         Release(w, label), UNCHANGED <<jobVars, request, queue>>
  PROVE  IInv'
  <1>1. OthersStay(w) /\ pc'[w] = label /\ cur'[w] = NoJob
    BY OneWorkerMoves DEF Release, IInv
  <1> QED BY <1>1, JobLetGo

(* A worker gives its job up after an exception, without a commit.          *)
LEMMA JobGivenUp ==
  ASSUME IInv, TypeOK', NEW w \in Workers, GiveUp(w), UNCHANGED <<jobVars, request, queue>>
  PROVE  IInv'
  <1>1. OthersStay(w) /\ pc'[w] \in {"requeue", "idle"} /\ cur'[w] \in {cur[w], NoJob}
    BY GiveUpMoves DEF IInv
  <1> QED BY <1>1, JobLetGo

(* A worker commits, whether or not it learns of it.                        *)
LEMMA JobPublished ==
  ASSUME IInv, TypeOK', NEW w \in Workers, CanCommit(w), Publish(w), OthersStay(w),
         pc'[w] \in {"requeue", "idle"}, cur'[w] \in {cur[w], NoJob},
         UNCHANGED <<request, queue>>
  PROVE  IInv'
  <1>1. LockExcludes'
    BY LockKeptOrReleased DEF IInv, HoldsLock
  <1>2. /\ ImportsQueued' /\ CardsInv'
        /\ \A j \in Jobs : status[j] # "absent" => status'[j] # "absent"
    BY PublishStep
  <1>3. KnownIds'
    BY <1>2, KnownStay DEF IInv
  <1> QED BY <1>1, <1>2, <1>3 DEF IInv

-----------------------------------------------------------------------------
(* IInv is inductive.                                                       *)
LEMMA InvStep == IInv /\ [Next]_vars => IInv'
  <1> SUFFICES ASSUME IInv, [Next]_vars PROVE IInv'
    OBVIOUS
  <1>0. TypeOK /\ TypeOK' /\ ControlOK
    BY TypeStep DEF IInv, TypeOK
  <1> USE <1>0
  <1>1. ASSUME NEW j \in Jobs, Submit(j) PROVE IInv'
    <2>1. status[j] = "absent" /\ status' = [status EXCEPT ![j] = "queued"]
      BY <1>1 DEF Submit, IInv, CardsInv, StoredOnce
    <2>2. LockExcludes'
      BY <1>1 DEF Submit, IInv, LockExcludes, HoldsLock, workerVars
    <2>3. ImportsQueued' /\ KnownIds'
      BY <1>1, <2>1, JobAtHand
      DEF Submit, IInv, ImportsQueued, KnownIds, TypeOK, ControlOK, workerVars
    <2>4. CardsInv'
      BY <1>1, <2>1
      DEF Submit, IInv, CardsInv, StoredOnce, AtMostOnce, StatusMatchesCards, TypeOK
    <2> QED BY <2>2, <2>3, <2>4 DEF IInv
  <1>2. ASSUME NEW j \in Jobs, Enqueue(j) \/ EnqueueLost(j) PROVE IInv'
    <2>1. status[j] # "absent"
      BY <1>2 DEF Enqueue, EnqueueLost, IInv, CardsInv, StoredOnce
    <2>2. LockExcludes' /\ ImportsQueued'
      BY <1>2 DEF Enqueue, EnqueueLost, IInv, LockExcludes, HoldsLock, ImportsQueued,
                  workerVars, jobVars
    <2>3. CardsInv'
      BY <1>2 DEF Enqueue, EnqueueLost, IInv, CardsInv, StoredOnce, AtMostOnce,
                  StatusMatchesCards, jobVars, TypeOK
    <2>4. KnownIds'
      <3>1. UNCHANGED <<status, cur>>
        BY <1>2 DEF Enqueue, EnqueueLost, jobVars, workerVars
      <3>2. CASE queue' = Append(queue, j)
        BY <2>1, <3>1, <3>2, KnownAppended DEF IInv, KnownIds
      <3>3. CASE queue' = queue
        BY <3>1, <3>3 DEF IInv, KnownIds
      <3> QED BY <1>2, <3>2, <3>3 DEF Enqueue, EnqueueLost, jobVars
    <2> QED BY <2>2, <2>3, <2>4 DEF IInv
  <1>3. ASSUME NEW d \in Decks, DeleteDeck(d) \/ DeleteAborted(d) PROVE IInv'
    BY <1>3 DEF DeleteDeck, DeleteAborted, IInv, LockExcludes, HoldsLock, ImportsQueued,
                KnownIds, CardsInv, StoredOnce, AtMostOnce, StatusMatchesCards, workerVars
  <1>4. ASSUME NEW d \in Decks, DeleteCommit(d) PROVE IInv'
    <2>1. \A j \in Jobs : /\ status'[j] \in {status[j], "gone"}
                          /\ status[j] = "absent" <=> status'[j] = "absent"
                          /\ Locked(j) => status'[j] = status[j]
      BY <1>4 DEF DeleteCommit, TypeOK
    <2>2. LockExcludes'
      BY <1>4 DEF DeleteCommit, IInv, LockExcludes, HoldsLock, workerVars
    <2>3. ASSUME NEW w \in Workers, pc'[w] \in {"working", "completing"}
          PROVE  status'[cur'[w]] = "queued"
      BY <1>4, <2>1, <2>3, JobAtHand
      DEF DeleteCommit, IInv, ImportsQueued, Locked, HoldsLock, workerVars
    <2>4. KnownIds'
      BY <1>4, <2>1 DEF DeleteCommit, IInv, KnownIds, TypeOK, ControlOK, workerVars
    <2>5. CardsInv'
      BY <1>4, <2>1
      DEF DeleteCommit, IInv, CardsInv, StoredOnce, AtMostOnce, StatusMatchesCards
    <2> QED BY <2>2, <2>3, <2>4, <2>5 DEF IInv, ImportsQueued
  <1>5. ASSUME NEW w \in Workers, Start(w) PROVE IInv'
    <2>1. status' = status
      BY <1>5 DEF Start, IInv, CardsInv, StoredOnce, TypeOK
    <2>2. OthersStay(w) /\ pc'[w] = "idle" /\ cur'[w] = cur[w]
      BY <1>5, GotoMoves DEF Start
    <2>3. LockExcludes'
      BY <2>2, LockKeptOrReleased DEF IInv, HoldsLock
    <2>4. ImportsQueued' /\ CardsInv'
      BY <1>5, <2>1, <2>2, NoPublish DEF Start, jobVars
    <2>5. KnownIds'
      BY <1>5, <2>1, <2>2, KnownStay DEF Start, IInv
    <2> QED BY <2>3, <2>4, <2>5 DEF IInv
  <1>6. ASSUME NEW w \in Workers, Dequeue(w) PROVE IInv'
    <2>1. OthersStay(w) /\ pc'[w] = "dequeued" /\ cur'[w] = Head(queue)
      BY <1>6, OneWorkerMoves DEF Dequeue
    <2>2. LockExcludes'
      BY <2>1, LockKeptOrReleased DEF IInv, HoldsLock
    <2>3. ImportsQueued' /\ CardsInv'
      BY <1>6, <2>1, NoPublish DEF Dequeue
    <2>4. /\ 1 \in 1..Len(queue) /\ Head(queue) = queue[1]
          /\ \A i \in 1..Len(Tail(queue)) : /\ i + 1 \in 1..Len(queue)
                                            /\ Tail(queue)[i] = queue[i + 1]
      BY <1>6 DEF Dequeue, TypeOK
    <2>5. \A v \in Workers : cur'[v] # NoJob => status[cur'[v]] # "absent"
      BY <2>1, <2>4 DEF OthersStay, IInv, KnownIds
    <2>6. KnownIds'
      BY <1>6, <2>4, <2>5 DEF Dequeue, IInv, KnownIds, jobVars
    <2> QED BY <2>2, <2>3, <2>6 DEF IInv
  <1>7. ASSUME NEW w \in Workers, DequeueNothing(w) \/ Import(w) \/ Reject(w) PROVE IInv'
    <2>1. PICK label \in PCs : Goto(w, label)
      BY <1>7 DEF DequeueNothing, Import, Reject, PCs
    <2>2. OthersStay(w) /\ pc'[w] = label /\ cur'[w] = cur[w]
      BY <1>7, <2>1, GotoMoves DEF DequeueNothing, Import, Reject
    <2>3. /\ pc'[w] \in {"polling", "completing", "failing"}
          /\ pc'[w] = "completing" => pc[w] = "working"
      BY <1>7 DEF DequeueNothing, Import, Reject, Goto, TypeOK, ControlOK
    <2>4. LockExcludes'
      BY <2>2, <2>3, LockKeptOrReleased DEF IInv, HoldsLock
    <2>5. ImportsQueued' /\ CardsInv'
      BY <1>7, <2>2, <2>3, NoPublish
      DEF DequeueNothing, Import, Reject, IInv, ImportsQueued
    <2>6. KnownIds'
      BY <1>7, <2>2, KnownStay DEF DequeueNothing, Import, Reject, IInv, jobVars
    <2> QED BY <2>4, <2>5, <2>6 DEF IInv
  <1>8. ASSUME NEW w \in Workers, LockJob(w) PROVE IInv'
    <2>1. CASE status[cur[w]] = "queued"
      <3>1. OthersStay(w) /\ pc'[w] = "working" /\ cur'[w] = cur[w]
        BY <1>8, <2>1, GotoMoves DEF LockJob
      <3>2. LockExcludes'
        BY <1>8, <3>1, LockTaken DEF IInv, LockJob
      <3>3. ImportsQueued' /\ CardsInv'
        BY <1>8, <2>1, <3>1, NoPublish DEF LockJob
      <3>4. KnownIds'
        BY <1>8, <3>1, KnownStay DEF LockJob, IInv, jobVars
      <3> QED BY <3>2, <3>3, <3>4 DEF IInv
    <2>2. CASE status[cur[w]] # "queued"
      <3>1. Release(w, "polling") /\ UNCHANGED <<jobVars, request, queue>>
        BY <1>8, <2>2 DEF LockJob
      <3> QED BY <3>1, JobDropped
    <2> QED BY <2>1, <2>2
  <1>9. ASSUME NEW w \in Workers, ClaimDbJob(w) PROVE IInv'
    <2>1. CASE Claimable = {}
      <3>1. OthersStay(w) /\ pc'[w] = "idle" /\ cur'[w] = cur[w]
        BY <1>9, <2>1, GotoMoves DEF ClaimDbJob
      <3>2. LockExcludes'
        BY <3>1, LockKeptOrReleased DEF IInv, HoldsLock
      <3>3. ImportsQueued' /\ CardsInv'
        BY <1>9, <3>1, NoPublish DEF ClaimDbJob
      <3>4. KnownIds'
        BY <1>9, <3>1, KnownStay DEF ClaimDbJob, IInv, jobVars
      <3> QED BY <3>2, <3>3, <3>4 DEF IInv
    <2>2. CASE Claimable # {}
      <3>1. PICK j \in Claimable : cur' = [cur EXCEPT ![w] = j]
        BY <1>9, <2>2 DEF ClaimDbJob
      <3>2. OthersStay(w) /\ pc'[w] = "working" /\ cur'[w] = j
        BY <1>9, <2>2, <3>1, OneWorkerMoves DEF ClaimDbJob
      <3>3. j \in Jobs /\ status[j] = "queued" /\ ~Locked(j)
        BY <3>1 DEF Claimable
      <3>4. LockExcludes'
        BY <3>2, <3>3, LockTaken DEF IInv
      <3>5. ImportsQueued' /\ CardsInv'
        BY <1>9, <3>2, <3>3, NoPublish DEF ClaimDbJob
      <3>6. KnownIds'
        BY <1>9, <3>2, <3>3 DEF ClaimDbJob, IInv, KnownIds, OthersStay, jobVars
      <3> QED BY <3>4, <3>5, <3>6 DEF IInv
    <2> QED BY <2>1, <2>2
  <1>10. ASSUME NEW w \in Workers, MarkFailed(w) PROVE IInv'
    <2>1. CASE status[cur[w]] = "gone"
      BY <1>10, <2>1, JobGivenUp DEF MarkFailed
    <2>2. CASE status[cur[w]] # "gone"
      <3>1. OthersStay(w) /\ pc'[w] = "recording" /\ cur'[w] = cur[w]
        BY <1>10, <2>2, GotoMoves DEF MarkFailed
      <3>2. LockExcludes'
        BY <1>10, <3>1, LockTaken DEF IInv, MarkFailed
      <3>3. ImportsQueued' /\ CardsInv'
        BY <1>10, <3>1, NoPublish DEF MarkFailed
      <3>4. KnownIds'
        BY <1>10, <3>1, KnownStay DEF MarkFailed, IInv, jobVars
      <3> QED BY <3>2, <3>3, <3>4 DEF IInv
    <2> QED BY <2>1, <2>2
  <1>11. ASSUME NEW w \in Workers, Commit(w) PROVE IInv'
    <2>1. OthersStay(w) /\ pc'[w] = "idle" /\ cur'[w] = NoJob
      BY <1>11, OneWorkerMoves DEF Commit, Release
    <2> QED BY <1>11, <2>1, JobPublished DEF Commit
  <1>12. ASSUME NEW w \in Workers, CommitFails(w) \/ DbError(w) PROVE IInv'
    BY <1>12, JobGivenUp DEF CommitFails, DbError
  <1>13. ASSUME NEW w \in Workers, Requeue(w) PROVE IInv'
    <2>1. OthersStay(w) /\ pc'[w] = "polling" /\ cur'[w] = NoJob
      BY <1>13, OneWorkerMoves DEF Requeue, Release
    <2>2. LockExcludes'
      BY <2>1, LockKeptOrReleased DEF IInv, HoldsLock
    <2>3. ImportsQueued' /\ CardsInv'
      BY <1>13, <2>1, NoPublish DEF Requeue
    <2>4. cur[w] \in Jobs /\ status[cur[w]] # "absent"
      BY <1>13, JobAtHand DEF Requeue, IInv, KnownIds
    <2>5. KnownIds'
      <3>1. queue' = Append(queue, cur[w]) /\ status' = status
        BY <1>13 DEF Requeue, jobVars
      <3>2. \A v \in Workers : cur'[v] # NoJob => status'[cur'[v]] # "absent"
        BY <2>1, <3>1 DEF OthersStay, IInv, KnownIds
      <3>3. \A i \in 1..Len(queue') : status'[queue'[i]] # "absent"
        BY <2>4, <3>1, KnownAppended DEF IInv
      <3> QED BY <3>2, <3>3 DEF KnownIds
    <2> QED BY <2>2, <2>3, <2>5 DEF IInv
  <1>14. ASSUME NEW w \in Workers, RequeueLost(w) \/ Crash(w) PROVE IInv'
    BY <1>14, JobDropped DEF RequeueLost, Crash
  <1>15. ASSUME NEW w \in Workers, CommitUnacknowledged(w) PROVE IInv'
    <2>1. OthersStay(w) /\ pc'[w] \in {"requeue", "idle"} /\ cur'[w] \in {cur[w], NoJob}
      BY <1>15, GiveUpMoves DEF CommitUnacknowledged
    <2> QED BY <1>15, <2>1, JobPublished DEF CommitUnacknowledged
  <1>16. CASE UNCHANGED vars
    BY <1>16 DEF vars, IInv, LockExcludes, HoldsLock, ImportsQueued, KnownIds, CardsInv,
                 StoredOnce, AtMostOnce, StatusMatchesCards, workerVars, jobVars
  <1> QED BY <1>1, <1>2, <1>3, <1>4, <1>5, <1>6, <1>7, <1>8, <1>9, <1>10, <1>11, <1>12,
             <1>13, <1>14, <1>15, <1>16 DEF Next, ApiStep, WorkerStep, Fault

(* The inductive invariant holds in every behaviour of the pipeline.        *)
LEMMA InvHolds == Spec => []IInv
  <1>1. Init => IInv
    BY JobsAssumption
    DEF Init, IInv, TypeOK, ControlOK, Statuses, PCs, LockExcludes, HoldsLock,
        ImportsQueued, KnownIds, CardsInv, StoredOnce, AtMostOnce, StatusMatchesCards
  <1> QED BY <1>1, InvStep, PTL DEF Spec

(* For any number of workers, crashes and lost acknowledgements, the cards  *)
(* of an import job are committed to its deck at most once.                 *)
THEOREM ImportedAtMostOnce == Spec => []AtMostOnce
  <1>1. IInv => AtMostOnce
    BY DEF IInv, CardsInv
  <1> QED BY <1>1, InvHolds, PTL

(* A job that a client sees COMPLETED has its cards in the deck, and one    *)
(* that may still be processed has none.                                    *)
THEOREM StatusAgreesWithCards == Spec => []StatusMatchesCards
  <1>1. IInv => StatusMatchesCards
    BY DEF IInv, CardsInv
  <1> QED BY <1>1, InvHolds, PTL

-----------------------------------------------------------------------------
(* OneDelivery is not inductive either: the id that import_csv pushes must  *)
(* be the first of its job, and the id that a worker pushes back must be    *)
(* the one it popped.                                                       *)

(* Nothing of a job travels before import_csv has pushed its id.            *)
NotYetSent == \A j \in Jobs : request[j] # "answered" => Copies(j) = {} /\ Holders(j) = {}

(* Only a job that came through Redis goes back to Redis.                   *)
RequeuesOwn == \A w \in Workers : pc[w] = "requeue" => viaRedis[w]

DeliveryInv == TypeOK /\ OneDelivery /\ NotYetSent /\ RequeuesOwn

(* Appending an id adds one copy of it, at the end.                         *)
LEMMA CopiesAppended ==
  ASSUME TypeOK, NEW j \in Jobs, queue' = Append(queue, j)
  PROVE  /\ \A k \in Jobs : k # j => Copies(k)' = Copies(k)
         /\ Copies(j) = {} => Copies(j)' = {Len(queue) + 1}
  <1>1. /\ DOMAIN queue = 1..Len(queue) /\ DOMAIN queue' = 1..(Len(queue) + 1)
        /\ Len(queue) \in Nat /\ queue'[Len(queue) + 1] = j
        /\ \A i \in 1..Len(queue) : queue'[i] = queue[i]
    BY DEF TypeOK
  <1> QED BY <1>1 DEF Copies

(* Popping the head removes a copy of it and moves the others up by one.    *)
LEMMA CopiesPopped ==
  ASSUME TypeOK, queue # <<>>, queue' = Tail(queue)
  PROVE  /\ Head(queue) \in Jobs /\ 1 \in Copies(Head(queue))
         /\ \A k \in Jobs : \A i \in Copies(k)' : i \in Nat /\ i # 0 /\ i + 1 \in Copies(k)
  <1>1. /\ DOMAIN queue = 1..Len(queue) /\ Len(queue) \in Nat /\ 1 \in 1..Len(queue)
        /\ Head(queue) = queue[1] /\ Head(queue) \in Jobs
        /\ DOMAIN queue' = 1..(Len(queue) - 1)
        /\ \A i \in 1..(Len(queue) - 1) : queue'[i] = queue[i + 1]
    BY DEF TypeOK
  <1> QED BY <1>1 DEF Copies

(* What is at hand nowhere new and not requeued by someone else stays       *)
(* delivered once.                                                          *)
LEMMA DeliveriesShrink ==
  ASSUME DeliveryInv, TypeOK', queue' = queue,
         \A j \in Jobs : request'[j] # "answered" => request[j] # "answered",
         \A v \in Workers : viaRedis'[v] => viaRedis[v] /\ cur'[v] = cur[v],
         \A v \in Workers : pc'[v] = "requeue" => viaRedis'[v]
  PROVE  DeliveryInv'
  <1>1. \A j \in Jobs : Copies(j)' = Copies(j) /\ Holders(j)' \subseteq Holders(j)
    BY DEF Copies, Holders
  <1>2. OneDelivery'
    BY <1>1 DEF DeliveryInv, OneDelivery
  <1>3. NotYetSent'
    BY <1>1 DEF DeliveryInv, NotYetSent
  <1>4. RequeuesOwn'
    BY DEF RequeuesOwn
  <1> QED BY <1>2, <1>3, <1>4 DEF DeliveryInv

(* A worker step that neither pops nor pushes.                              *)
LEMMA WorkerKeepsDelivery ==
  ASSUME DeliveryInv, TypeOK', NEW w \in Workers, UNCHANGED <<queue, request>>,
         \/ \E label \in PCs \ {"requeue"} : Goto(w, label) /\ UNCHANGED viaRedis
         \/ \E label \in PCs \ {"requeue"} : Release(w, label)
         \/ GiveUp(w),
         viaRedis[w] /\ viaRedis'[w] => cur'[w] = cur[w],
         \A v \in Workers \ {w} : cur'[v] = cur[v]
  PROVE  DeliveryInv'
  <1>1. \A v \in Workers : viaRedis'[v] => viaRedis[v]
    BY DEF Release, GiveUp, DeliveryInv, TypeOK, ControlOK
  <1>2. \A v \in Workers : viaRedis'[v] => viaRedis[v] /\ cur'[v] = cur[v]
    BY <1>1
  <1>3. \A v \in Workers : pc'[v] = "requeue" => viaRedis'[v]
    BY DEF Goto, Release, GiveUp, DeliveryInv, RequeuesOwn, TypeOK, ControlOK
  <1> QED BY <1>2, <1>3, DeliveriesShrink

LEMMA DeliveryStep == DeliveryInv /\ [Next]_vars => DeliveryInv'
  <1> SUFFICES ASSUME DeliveryInv, [Next]_vars PROVE DeliveryInv'
    OBVIOUS
  <1>0. TypeOK /\ TypeOK' /\ ControlOK
    BY TypeStep DEF DeliveryInv, TypeOK
  <1> USE <1>0
  <1>1. ASSUME NEW j \in Jobs, Submit(j) \/ EnqueueLost(j) PROVE DeliveryInv'
    <2>1. UNCHANGED <<queue, pc, cur, viaRedis>>
      BY <1>1 DEF Submit, EnqueueLost, workerVars
    <2>2. \A k \in Jobs : request'[k] # "answered" => request[k] # "answered"
      BY <1>1 DEF Submit, EnqueueLost, TypeOK
    <2> QED BY <2>1, <2>2, DeliveriesShrink DEF DeliveryInv, RequeuesOwn
  <1>2. ASSUME NEW j \in Jobs, Enqueue(j) PROVE DeliveryInv'
    <2>1. Copies(j) = {} /\ Holders(j) = {}
      BY <1>2 DEF Enqueue, DeliveryInv, NotYetSent
    <2>2. /\ \A k \in Jobs : k # j => Copies(k)' = Copies(k)
          /\ Copies(j)' = {Len(queue) + 1}
      BY <1>2, <2>1, CopiesAppended DEF Enqueue
    <2>3. \A k \in Jobs : Holders(k)' = Holders(k)
      BY <1>2 DEF Enqueue, Holders, workerVars
    <2>4. OneDelivery'
      BY <2>1, <2>2, <2>3 DEF DeliveryInv, OneDelivery
    <2>5. request'[j] = "answered" /\ \A k \in Jobs : k # j => request'[k] = request[k]
      BY <1>2 DEF Enqueue, TypeOK
    <2>6. NotYetSent'
      BY <2>2, <2>3, <2>5 DEF DeliveryInv, NotYetSent
    <2>7. RequeuesOwn'
      BY <1>2 DEF Enqueue, workerVars, DeliveryInv, RequeuesOwn
    <2> QED BY <2>4, <2>6, <2>7 DEF DeliveryInv
  <1>3. ASSUME NEW d \in Decks, DeleteDeck(d) \/ DeleteCommit(d) \/ DeleteAborted(d)
        PROVE  DeliveryInv'
    <2>1. UNCHANGED <<queue, request, pc, cur, viaRedis>>
      BY <1>3 DEF DeleteDeck, DeleteCommit, DeleteAborted, workerVars
    <2> QED BY <2>1, DeliveriesShrink DEF DeliveryInv, RequeuesOwn
  <1>4. ASSUME NEW w \in Workers, Dequeue(w) PROVE DeliveryInv'
    <2>0. PICK head \in Jobs : head = Head(queue)
      BY <1>4, CopiesPopped DEF Dequeue
    <2>1. /\ 1 \in Copies(head)
          /\ \A k \in Jobs : \A i \in Copies(k)' : i \in Nat /\ i # 0 /\ i + 1 \in Copies(k)
      BY <1>4, <2>0, CopiesPopped DEF Dequeue
    <2>2. OthersStay(w) /\ pc'[w] = "dequeued" /\ cur'[w] = head
      BY <1>4, <2>0, OneWorkerMoves DEF Dequeue
    <2>3. ~viaRedis[w] /\ viaRedis'[w] /\ \A v \in Workers \ {w} : viaRedis'[v] = viaRedis[v]
      BY <1>4 DEF Dequeue, TypeOK, ControlOK
    <2>4. Holders(head) = {}
      BY <2>1 DEF DeliveryInv, OneDelivery
    <2>5. Holders(head)' = {w}
      BY <2>2, <2>3, <2>4 DEF Holders, OthersStay
    <2>6. \A k \in Jobs : k # head => Holders(k)' = Holders(k)
      BY <2>2, <2>3 DEF Holders, OthersStay
    <2>7. Copies(head)' = {}
      BY <2>1 DEF DeliveryInv, OneDelivery
    <2>8. \A k \in Jobs : \A a, b \in Copies(k)' : a = b
      <3> SUFFICES ASSUME NEW k \in Jobs, NEW a \in Copies(k)', NEW b \in Copies(k)'
                   PROVE  a = b
        OBVIOUS
      <3>1. a + 1 = b + 1
        BY <2>1 DEF DeliveryInv, OneDelivery
      <3> QED BY <2>1, <3>1
    <2>9. \A k \in Jobs : Copies(k) = {} => Copies(k)' = {}
      BY <2>1
    <2>10. OneDelivery'
      BY <2>5, <2>6, <2>7, <2>8, <2>9 DEF DeliveryInv, OneDelivery
    <2>11. request' = request /\ request[head] = "answered"
      BY <1>4, <2>1 DEF Dequeue, DeliveryInv, NotYetSent
    <2>12. NotYetSent'
      BY <2>1, <2>6, <2>9, <2>11 DEF DeliveryInv, NotYetSent
    <2>13. RequeuesOwn'
      BY <2>2, <2>3 DEF DeliveryInv, RequeuesOwn, OthersStay
    <2> QED BY <2>10, <2>12, <2>13 DEF DeliveryInv
  <1>5. ASSUME NEW w \in Workers, Requeue(w) PROVE DeliveryInv'
    <2>0. PICK job \in Jobs : job = cur[w]
      BY <1>5, JobAtHand DEF Requeue
    <2>1. viaRedis[w]
      BY <1>5 DEF Requeue, DeliveryInv, RequeuesOwn
    <2>2. OthersStay(w) /\ pc'[w] = "polling" /\ cur'[w] = NoJob
      BY <1>5, OneWorkerMoves DEF Requeue, Release
    <2>3. ~viaRedis'[w] /\ \A v \in Workers \ {w} : viaRedis'[v] = viaRedis[v]
      BY <1>5 DEF Requeue, Release, TypeOK, ControlOK
    <2>4. w \in Holders(job)
      BY <2>0, <2>1 DEF Holders
    <2>5. Copies(job) = {} /\ Holders(job) = {w} /\ request[job] = "answered"
      BY <2>1, <2>4 DEF DeliveryInv, OneDelivery, NotYetSent
    <2>6. /\ \A k \in Jobs : k # job => Copies(k)' = Copies(k)
          /\ Copies(job)' = {Len(queue) + 1}
      BY <1>5, <2>0, <2>5, CopiesAppended DEF Requeue
    <2>7. \A k \in Jobs : Holders(k)' \subseteq Holders(k)
      BY <2>2, <2>3 DEF Holders, OthersStay
    <2>8. Holders(job)' = {}
      BY <2>1, <2>3, <2>5, <2>7 DEF Holders
    <2>9. OneDelivery'
      BY <2>6, <2>7, <2>8 DEF DeliveryInv, OneDelivery
    <2>10. NotYetSent'
      BY <1>5, <2>5, <2>6, <2>7 DEF Requeue, DeliveryInv, NotYetSent
    <2>11. RequeuesOwn'
      BY <2>2, <2>3 DEF DeliveryInv, RequeuesOwn, OthersStay
    <2> QED BY <2>9, <2>10, <2>11 DEF DeliveryInv
  <1>6. ASSUME NEW w \in Workers,
               Start(w) \/ DequeueNothing(w) \/ Import(w) \/ Reject(w)
        PROVE  DeliveryInv'
    BY <1>6, WorkerKeepsDelivery DEF Start, DequeueNothing, Import, Reject, PCs
  <1>7. ASSUME NEW w \in Workers, ClaimDbJob(w) PROVE DeliveryInv'
    <2>1. ~viaRedis[w]
      BY <1>7 DEF ClaimDbJob, ControlOK
    <2>2. \A v \in Workers \ {w} : cur'[v] = cur[v]
      BY <1>7 DEF ClaimDbJob, ControlOK
    <2> QED BY <1>7, <2>1, <2>2, WorkerKeepsDelivery DEF ClaimDbJob, PCs
  <1>8. ASSUME NEW w \in Workers, LockJob(w) \/ RequeueLost(w) \/ Crash(w)
        PROVE  DeliveryInv'
    <2>1. \A v \in Workers \ {w} : cur'[v] = cur[v]
      BY <1>8 DEF LockJob, RequeueLost, Crash, Release, ControlOK
    <2>2. viaRedis[w] /\ viaRedis'[w] => cur'[w] = cur[w]
      BY <1>8 DEF LockJob, RequeueLost, Crash, Release, ControlOK
    <2> QED BY <1>8, <2>1, <2>2, WorkerKeepsDelivery DEF LockJob, RequeueLost, Crash, PCs
  <1>9. ASSUME NEW w \in Workers, MarkFailed(w) \/ CommitFails(w) \/ DbError(w)
        PROVE  DeliveryInv'
    <2>1. \A v \in Workers \ {w} : cur'[v] = cur[v]
      BY <1>9 DEF MarkFailed, CommitFails, DbError, GiveUp, Release, ControlOK
    <2>2. viaRedis[w] /\ viaRedis'[w] => cur'[w] = cur[w]
      BY <1>9 DEF MarkFailed, CommitFails, DbError, GiveUp, Release, ControlOK
    <2> QED BY <1>9, <2>1, <2>2, WorkerKeepsDelivery DEF MarkFailed, CommitFails, DbError, PCs
  <1>10. ASSUME NEW w \in Workers, Commit(w) \/ CommitUnacknowledged(w)
         PROVE  DeliveryInv'
    <2>1. \A v \in Workers \ {w} : cur'[v] = cur[v]
      BY <1>10 DEF Commit, CommitUnacknowledged, GiveUp, Release, ControlOK
    <2>2. viaRedis[w] /\ viaRedis'[w] => cur'[w] = cur[w]
      BY <1>10 DEF Commit, CommitUnacknowledged, GiveUp, Release, ControlOK
    <2> QED BY <1>10, <2>1, <2>2, WorkerKeepsDelivery DEF Commit, CommitUnacknowledged, PCs
  <1>11. CASE UNCHANGED vars
    BY <1>11, DeliveriesShrink DEF vars, workerVars, DeliveryInv, RequeuesOwn
  <1> QED BY <1>1, <1>2, <1>3, <1>4, <1>5, <1>6, <1>7, <1>8, <1>9, <1>10, <1>11
          DEF Next, ApiStep, WorkerStep, Fault

(* Requeueing never multiplies deliveries: however many workers pop, push   *)
(* back, lose or crash with it, the id of a job is once in the Redis list   *)
(* or once in the hands of a worker, or nowhere.                            *)
THEOREM DeliveredOnce == Spec => []OneDelivery
  <1>1. Init => DeliveryInv
    <2>1. Init => TypeOK
      BY JobsAssumption DEF Init, TypeOK, ControlOK, Statuses, PCs
    <2>2. Init => \A j \in Jobs : Copies(j) = {} /\ Holders(j) = {}
      <3>1. Init => DOMAIN queue = {} /\ \A w \in Workers : ~viaRedis[w]
        BY DEF Init
      <3> QED BY <3>1 DEF Copies, Holders
    <2> QED BY <2>1, <2>2 DEF Init, DeliveryInv, OneDelivery, NotYetSent, RequeuesOwn
  <1>2. DeliveryInv => OneDelivery
    BY DEF DeliveryInv
  <1> QED BY <1>1, <1>2, DeliveryStep, PTL DEF Spec

-----------------------------------------------------------------------------
(* The contract.  compose starts one import worker, and it is with one that *)
(* the pipeline keeps what ImportContract promises: between the rollback of *)
(* a failed import and the FAILED it records, the row is not locked, and a  *)
(* second worker could complete the job there (see README.md).              *)
OneWorker == \A v, w \in Workers : v = w

(* A worker that is about to record FAILED finds the job QUEUED, or gone    *)
(* with its deck; once it has locked the row again, QUEUED.                 *)
FailsQueued ==
  \A w \in Workers : /\ pc[w] = "failing" => status[cur[w]] \in {"queued", "gone"}
                     /\ pc[w] = "recording" => status[cur[w]] = "queued"

OneWorkerInv == IInv /\ FailsQueued

(* What a worker's step that commits nothing does to its pc.                *)
LEMMA FailsQueuedKept ==
  ASSUME OneWorker, FailsQueued, NEW w \in Workers, UNCHANGED status,
         pc'[w] = "failing" => /\ cur'[w] = cur[w]
                               /\ status[cur[w]] \in {"queued", "gone"},
         pc'[w] = "recording" => /\ cur'[w] = cur[w]
                                 /\ status[cur[w]] = "queued"
  PROVE  FailsQueued'
  BY DEF OneWorker, FailsQueued

(* A worker that lets go of its job is not going to record anything.        *)
LEMMA NotFailing ==
  ASSUME TypeOK, OneWorker, NEW w \in Workers,
         \/ \E label \in PCs \ {"failing", "recording"} : Goto(w, label)
         \/ \E label \in PCs \ {"failing", "recording"} : Release(w, label)
         \/ GiveUp(w)
  PROVE  FailsQueued'
  <1>1. pc'[w] \notin {"failing", "recording"}
    BY DEF Goto, Release, GiveUp, TypeOK, ControlOK
  <1> QED BY <1>1 DEF OneWorker, FailsQueued

LEMMA OneWorkerStep ==
  ASSUME OneWorker PROVE OneWorkerInv /\ [Next]_vars => OneWorkerInv'
  <1> SUFFICES ASSUME OneWorkerInv, [Next]_vars PROVE FailsQueued'
    BY InvStep DEF OneWorkerInv
  <1>0. IInv /\ TypeOK /\ ControlOK
    BY DEF OneWorkerInv, IInv, TypeOK
  <1>1. ASSUME NEW j \in Jobs, Submit(j) PROVE FailsQueued'
    <2>1. status[j] = "absent" /\ \A k \in Jobs : k # j => status'[k] = status[k]
      BY <1>0, <1>1 DEF Submit, IInv, CardsInv, StoredOnce, TypeOK
    <2>2. UNCHANGED <<pc, cur>>
      BY <1>1 DEF Submit, workerVars
    <2>3. \A w \in Workers : pc[w] \in {"failing", "recording"} => cur[w] \in Jobs
      BY <1>0, JobAtHand
    <2> QED BY <2>1, <2>2, <2>3 DEF OneWorkerInv, FailsQueued
  <1>2. ASSUME NEW j \in Jobs, Enqueue(j) \/ EnqueueLost(j) PROVE FailsQueued'
    BY <1>2 DEF Enqueue, EnqueueLost, jobVars, workerVars, OneWorkerInv, FailsQueued
  <1>3. ASSUME NEW d \in Decks, DeleteDeck(d) \/ DeleteAborted(d) PROVE FailsQueued'
    BY <1>3 DEF DeleteDeck, DeleteAborted, workerVars, OneWorkerInv, FailsQueued
  <1>4. ASSUME NEW d \in Decks, DeleteCommit(d) PROVE FailsQueued'
    <2>1. \A j \in Jobs : /\ status'[j] \in {status[j], "gone"}
                          /\ Locked(j) => status'[j] = status[j]
      BY <1>0, <1>4 DEF DeleteCommit, TypeOK
    <2>2. UNCHANGED <<pc, cur>>
      BY <1>4 DEF DeleteCommit, workerVars
    <2>3. \A w \in Workers : pc[w] \in {"failing", "recording"} => cur[w] \in Jobs
      BY <1>0, JobAtHand
    <2>4. \A w \in Workers : pc[w] = "recording" => Locked(cur[w])
      BY DEF Locked, HoldsLock
    <2> QED BY <2>1, <2>2, <2>3, <2>4 DEF OneWorkerInv, FailsQueued
  <1>5. ASSUME NEW w \in Workers, Reject(w) PROVE FailsQueued'
    <2>1. status[cur[w]] = "queued" /\ UNCHANGED <<status, cur>>
      BY <1>0, <1>5 DEF Reject, IInv, ImportsQueued, jobVars
    <2>2. pc'[w] = "failing"
      BY <1>0, <1>5 DEF Reject, Goto, ControlOK
    <2> QED BY <2>1, <2>2, FailsQueuedKept DEF OneWorkerInv
  <1>6. ASSUME NEW w \in Workers, MarkFailed(w) PROVE FailsQueued'
    <2>1. CASE status[cur[w]] = "gone"
      BY <1>0, <1>6, <2>1, NotFailing DEF MarkFailed
    <2>2. CASE status[cur[w]] # "gone"
      <3>1. status[cur[w]] = "queued" /\ UNCHANGED <<status, cur>>
        BY <1>6, <2>2 DEF MarkFailed, OneWorkerInv, FailsQueued, jobVars
      <3>2. pc'[w] = "recording"
        BY <1>0, <1>6, <2>2 DEF MarkFailed, Goto, ControlOK
      <3> QED BY <3>1, <3>2, FailsQueuedKept DEF OneWorkerInv
    <2> QED BY <2>1, <2>2
  <1>7. ASSUME NEW w \in Workers,
               \/ Start(w) \/ Dequeue(w) \/ DequeueNothing(w) \/ LockJob(w)
               \/ ClaimDbJob(w) \/ Import(w) \/ Requeue(w) \/ RequeueLost(w)
        PROVE  FailsQueued'
    BY <1>0, <1>7, NotFailing
    DEF Start, Dequeue, DequeueNothing, LockJob, ClaimDbJob, Import, Requeue,
        RequeueLost, PCs
  <1>8. ASSUME NEW w \in Workers,
               \/ Commit(w) \/ CommitFails(w) \/ DbError(w)
               \/ CommitUnacknowledged(w) \/ Crash(w)
        PROVE  FailsQueued'
    BY <1>0, <1>8, NotFailing
    DEF Commit, CommitFails, DbError, CommitUnacknowledged, Crash, PCs
  <1>9. CASE UNCHANGED vars
    BY <1>9 DEF vars, jobVars, workerVars, OneWorkerInv, FailsQueued
  <1> QED BY <1>1, <1>2, <1>3, <1>4, <1>5, <1>6, <1>7, <1>8, <1>9
          DEF Next, ApiStep, WorkerStep, Fault

LEMMA OneWorkerInvHolds == ASSUME OneWorker PROVE Spec => []OneWorkerInv
  <1>1. Spec => []FailsQueued
    <2>1. Init => FailsQueued
      BY DEF Init, FailsQueued
    <2>2. IInv /\ FailsQueued /\ [Next]_vars => FailsQueued'
      BY OneWorkerStep DEF OneWorkerInv
    <2> QED BY <2>1, <2>2, InvHolds, PTL DEF Spec
  <1> QED BY <1>1, InvHolds, PTL DEF OneWorkerInv

(* What a commit looks like from outside: the job, QUEUED until now, is     *)
(* COMPLETED with its cards or FAILED without.                              *)
LEMMA PublishResolves ==
  ASSUME OneWorkerInv, NEW w \in Workers, CanCommit(w), Publish(w)
  PROVE  \E j \in Jobs : Contract!Complete(j) \/ Contract!Fail(j)
  <1>1. cur[w] \in Jobs
    BY JobAtHand DEF OneWorkerInv, IInv, TypeOK, CanCommit
  <1>2. status[cur[w]] = "queued"
    BY DEF CanCommit, OneWorkerInv, FailsQueued, IInv, ImportsQueued
  <1>3. CASE pc[w] = "completing"
    <2>1. Contract!Complete(cur[w])
      BY <1>2, <1>3 DEF Publish, Contract!Complete
    <2> QED BY <1>1, <2>1
  <1>4. CASE pc[w] = "recording"
    <2>1. imported' = imported
      BY <1>1, <1>4 DEF Publish, OneWorkerInv, IInv, TypeOK
    <2>2. Contract!Fail(cur[w])
      BY <1>2, <1>4, <2>1 DEF Publish, Contract!Fail
    <2> QED BY <1>1, <2>2
  <1> QED BY <1>3, <1>4 DEF CanCommit

(* Every step of the pipeline is a step of its contract, or none.           *)
LEMMA ContractStep ==
  ASSUME OneWorkerInv, [Next]_vars
  PROVE  [Contract!Next]_(Contract!vars)
  <1> USE DEF Contract!vars
  <1>0. IInv /\ TypeOK
    BY DEF OneWorkerInv, IInv
  <1>1. ASSUME NEW j \in Jobs, Submit(j) PROVE Contract!Next
    <2>1. status[j] = "absent"
      BY <1>0, <1>1 DEF Submit, IInv, CardsInv, StoredOnce
    <2>2. Contract!Accept(j)
      BY <1>1, <2>1 DEF Submit, Contract!Accept
    <2> QED BY <2>2 DEF Contract!Next
  <1>2. ASSUME NEW d \in Decks, DeleteCommit(d) PROVE Contract!Next
    <2> DEFINE S == {j \in Jobs : DeckOf[j] = d /\ status[j] # "absent"}
    <2>1. S \in SUBSET Jobs /\ \A j \in S : status[j] # "absent"
      OBVIOUS
    <2>2. status' = [j \in Jobs |-> IF j \in S THEN "gone" ELSE status[j]]
      BY <1>2 DEF DeleteCommit
    <2>3. Contract!Forget(S)
      BY <1>2, <2>1, <2>2 DEF DeleteCommit, Contract!Forget
    <2> QED BY <2>1, <2>3 DEF Contract!Next
  <1>3. ASSUME NEW w \in Workers, Commit(w) \/ CommitUnacknowledged(w) PROVE Contract!Next
    <2>1. CanCommit(w) /\ Publish(w)
      BY <1>3 DEF Commit, CommitUnacknowledged
    <2> QED BY <2>1, PublishResolves DEF Contract!Next
  <1>4. ASSUME NEW w \in Workers, Start(w) PROVE UNCHANGED <<status, imported>>
    BY <1>0, <1>4 DEF Start, IInv, CardsInv, StoredOnce, TypeOK
  <1>5. ASSUME NEW j \in Jobs, Enqueue(j) \/ EnqueueLost(j)
        PROVE  UNCHANGED <<status, imported>>
    BY <1>5 DEF Enqueue, EnqueueLost, jobVars
  <1>6. ASSUME NEW d \in Decks, DeleteDeck(d) \/ DeleteAborted(d)
        PROVE  UNCHANGED <<status, imported>>
    BY <1>6 DEF DeleteDeck, DeleteAborted
  <1>7. ASSUME NEW w \in Workers,
               \/ Dequeue(w) \/ DequeueNothing(w) \/ LockJob(w) \/ ClaimDbJob(w)
               \/ Import(w) \/ Reject(w) \/ MarkFailed(w) \/ CommitFails(w)
               \/ Requeue(w) \/ RequeueLost(w) \/ DbError(w) \/ Crash(w)
        PROVE  UNCHANGED <<status, imported>>
    BY <1>7 DEF Dequeue, DequeueNothing, LockJob, ClaimDbJob, Import, Reject, MarkFailed,
                CommitFails, Requeue, RequeueLost, DbError, Crash, jobVars
  <1>8. CASE UNCHANGED vars
    BY <1>8 DEF vars, jobVars
  <1> QED BY <1>1, <1>2, <1>3, <1>4, <1>5, <1>6, <1>7, <1>8
          DEF Next, ApiStep, WorkerStep, Fault

(* With one worker, whatever it loses, requeues or crashes with, and        *)
(* whenever decks are deleted: the safety half of ImplementsContract.  An   *)
(* accepted job is resolved once, atomically with the arrival of its cards, *)
(* and forgotten only with its deck.                                        *)
THEOREM ContractKept ==
  ASSUME OneWorker
  PROVE  Spec => Contract!Init /\ [][Contract!Next]_(Contract!vars)
  <1>1. Init => Contract!Init
    BY DEF Init, Contract!Init
  <1>2. OneWorkerInv /\ [Next]_vars => [Contract!Next]_(Contract!vars)
    BY ContractStep
  <1> QED BY <1>1, <1>2, OneWorkerInvHolds, PTL DEF Spec

(* A step of the contract leaves an outcome as it is, or forgets it.        *)
LEMMA ContractOutcomes ==
  ASSUME TypeOK, [Contract!Next]_(Contract!vars), NEW j \in Jobs,
         status[j] \in {"completed", "failed"}
  PROVE  status'[j] \in {status[j], "gone"}
  <1>1. ASSUME NEW k \in Jobs,
               Contract!Accept(k) \/ Contract!Complete(k) \/ Contract!Fail(k)
        PROVE  status'[j] = status[j]
    BY <1>1 DEF Contract!Accept, Contract!Complete, Contract!Fail, TypeOK
  <1>2. ASSUME NEW S \in SUBSET Jobs, Contract!Forget(S)
        PROVE  status'[j] \in {status[j], "gone"}
    BY <1>2 DEF Contract!Forget
  <1> QED BY <1>1, <1>2 DEF Contract!Next, Contract!vars

(* The outcome a client has been shown is final, with one worker: COMPLETED *)
(* never becomes FAILED, FAILED is never retried.                           *)
THEOREM OutcomesAreFinal == ASSUME OneWorker PROVE Spec => OutcomeIsFinal
  <1> DEFINE Final == \A j \in Jobs : status[j] \in {"completed", "failed"}
                                        => status'[j] \in {status[j], "gone"}
  <1>1. OneWorkerInv /\ [Next]_vars => [Final]_vars
    BY ContractStep, ContractOutcomes DEF OneWorkerInv, IInv
  <1> QED BY <1>1, OneWorkerInvHolds, PTL DEF Spec, OutcomeIsFinal
=============================================================================
