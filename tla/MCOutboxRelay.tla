--------------------------- MODULE MCOutboxRelay ---------------------------
(* Instances of OutboxRelay for TLC. *)
EXTENDS OutboxRelay, TLC

CONSTANTS scored, typo, r1, r2, w1, w2

\* attempt.scored fans out to two actors; the message of an event that has no
\* route is never sent.
MCPoison  == {typo}
MCTargets == (scored :> <<"project_attempt", "notify_scored">>
              @@ typo :> <<"none">>)
MCRelays  == {r1, r2}
MCWorker1 == {w1}
MCWorkers2 == {w1, w2}
MCScoredTypo == {scored, typo}
=============================================================================
