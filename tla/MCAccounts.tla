------------------------------ MODULE MCAccounts ------------------------------
(* The bootstrap admin and a few accounts, names and connections for TLC.   *)
EXTENDS Accounts, TLC

CONSTANTS a, b, c, n1, n2, r1, r2

MCSymmetry == Permutations(Users \ {Bootstrap}) \cup Permutations(Names) \cup
              Permutations(Clients)
=============================================================================
