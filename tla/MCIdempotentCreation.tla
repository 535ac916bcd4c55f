------------------------ MODULE MCIdempotentCreation ------------------------
(* Small sets of clients, keys, names and decks for TLC.  The names n1 and  *)
(* N1 differ in case only; each is asked for with a key of its own.         *)
EXTENDS IdempotentCreation, TLC

CONSTANTS r1, r2, r3, k1, k2, d1, d2, d3, n1, N1

MCNameOf == [k \in Keys |-> IF k = k1 THEN n1 ELSE N1]

MCLower == [n \in Names |-> IF n = N1 THEN n1 ELSE n]

MCSymmetry == Permutations(Clients) \cup Permutations(Decks)
=============================================================================
