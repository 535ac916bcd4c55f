--------------------------- MODULE ImportContract ---------------------------
(***************************************************************************)
(* What the import pipeline promises to the clients that upload a CSV file *)
(* and poll the job: an accepted job is resolved exactly once, atomically  *)
(* with the arrival of its cards, and is forgotten only with its deck.     *)
(* No queue, no worker, no crash appears here.                             *)
(***************************************************************************)
EXTENDS Naturals

CONSTANT Jobs

VARIABLES outcome,   \* the job as the clients see it
          imported   \* how often the job's cards were added to the deck

vars == <<outcome, imported>>

Init == /\ outcome = [j \in Jobs |-> "absent"]
        /\ imported = [j \in Jobs |-> 0]

Accept(j) == /\ outcome[j] = "absent"
             /\ outcome' = [outcome EXCEPT ![j] = "queued"]
             /\ UNCHANGED imported

Complete(j) == /\ outcome[j] = "queued"
               /\ outcome' = [outcome EXCEPT ![j] = "completed"]
               /\ imported' = [imported EXCEPT ![j] = @ + 1]

Fail(j) == /\ outcome[j] = "queued"
           /\ outcome' = [outcome EXCEPT ![j] = "failed"]
           /\ UNCHANGED imported

(* Deleting a deck takes all its jobs along, whatever became of them.       *)
Forget(S) == /\ \A j \in S : outcome[j] # "absent"
             /\ outcome' = [j \in Jobs |-> IF j \in S THEN "gone" ELSE outcome[j]]
             /\ UNCHANGED imported

Resolve(j) == Complete(j) \/ Fail(j) \/ \E S \in SUBSET Jobs : j \in S /\ Forget(S)

Next == \/ \E j \in Jobs : Accept(j) \/ Complete(j) \/ Fail(j)
        \/ \E S \in SUBSET Jobs : Forget(S)

(* The promise that is not safety: an accepted job does not stay queued.    *)
EventuallyResolved == \A j \in Jobs : outcome[j] = "queued" ~> outcome[j] # "queued"

Spec == Init /\ [][Next]_vars /\ EventuallyResolved
=============================================================================
