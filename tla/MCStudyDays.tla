----------------------------- MODULE MCStudyDays -----------------------------
(* A zone without and one with daylight saving time; days of two ticks.     *)
EXTENDS StudyDays, TLC

CONSTANTS d1, d2, fixed, shifting

MCOffset ==
  [z \in Zones |-> [t \in Instants |-> IF z = fixed THEN 1 ELSE IF t \in 3..6 THEN 1 ELSE 0]]

MCSymmetry == Permutations(Decks)
=============================================================================
