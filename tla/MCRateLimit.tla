----------------------------- MODULE MCRateLimit -----------------------------
(* A few requests, windows of a few ticks and limits that they can reach.   *)
EXTENDS RateLimit, TLC

CONSTANTS q1, q2, q3, q4, someone

MCEndpoints == {<<"import", "POST">>, <<"provision", "POST">>}
MCWindow == [c \in Categories |-> IF c = "import" THEN 3 ELSE 2]
MCLimit == [c \in Categories |-> IF c = "auth" THEN 2 ELSE 1]
MCSymmetry == Permutations(Requests)
=============================================================================
