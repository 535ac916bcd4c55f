----------------------------- MODULE MCDeckCards -----------------------------
(* Small sets of cards and connections for TLC.                             *)
EXTENDS DeckCards, TLC

CONSTANTS c1, c2, c3, r1, r2, r3

MCSymmetry == Permutations(Cards) \cup Permutations(Clients)
=============================================================================
