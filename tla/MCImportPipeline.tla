-------------------------- MODULE MCImportPipeline --------------------------
(* Small instances of ImportPipeline for TLC.                               *)
EXTENDS ImportPipeline

CONSTANTS d1, d2, w1, w2

(* Two decks: jobs 1 and 3 import into d1, job 2 into d2.                   *)
MCDeckOf == [j \in Jobs |-> IF j = 2 THEN d2 ELSE d1]
MCOneDeck == [j \in Jobs |-> d1]

(* Job 2's file is invalid; every other file is fine.                       *)
MCContent == [j \in Jobs |-> IF j = 2 THEN "invalid" ELSE "valid"]
(* Job 1, the oldest, has an overlong row.                                  *)
MCOverlong == [j \in Jobs |-> IF j = 1 THEN "overlong" ELSE "valid"]
=============================================================================
