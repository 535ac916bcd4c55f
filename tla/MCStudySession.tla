--------------------------- MODULE MCStudySession ---------------------------
(* Small instances of StudySession.  Cards are interchangeable, and so are  *)
(* the connections; liveness is checked without the symmetry.               *)
EXTENDS StudySession, TLC

CONSTANTS c1, c2, c3, r1, r2, r3

MCSymmetry == Permutations(Cards) \cup Permutations(Clients)
=============================================================================
