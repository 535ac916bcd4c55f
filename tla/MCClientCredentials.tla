------------------------- MODULE MCClientCredentials -------------------------
(* Small sets of tasks and accounts for TLC.                                *)
EXTENDS ClientCredentials, TLC

CONSTANTS x, y, t1, t2, t3

MCSymmetry == Permutations(Tasks) \cup Permutations(Accounts)
=============================================================================
