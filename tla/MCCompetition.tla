--------------------------- MODULE MCCompetition ---------------------------
(* Instances of Competition for TLC. *)
EXTENDS Competition, TLC

CONSTANTS u1, u2, u3, r1, r2, k1, k2, k3

\* Three students, each with a pack of their own, two requests at a time.
MCUsers    == {u1, u2, u3}
MCRequests == {r1, r2}
MCPacks    == {k1, k2, k3}
MCPack     == (u1 :> k1 @@ u2 :> k2 @@ u3 :> k3)
MCNone     == {}

\* One student.
MCUser1    == {u1}
MCTwo      == {u1, u2}
=============================================================================
