--------------------------- MODULE MCExamAttempt ---------------------------
(* Instances of ExamAttempt for TLC. *)
EXTENDS ExamAttempt, TLC

CONSTANTS s1, s2, s3, u1, u2, w1, a, k1, k2, k3, k4

\* One autosave or three, one submit or two, the sweeper.
MCSave1    == {s1}
MCSave3    == {s1, s2, s3}
MCSubmit0  == {}
MCSubmit1  == {u1}
MCSubmit2  == {u1, u2}
MCSweepers == {w1}

MCSlot1 == {a}

\* Any deltas over the slots, none included.
MCBatches1 == [Slots -> 0 .. MaxSeq]

MCKeys == {k1, k2, k3, k4}

\* Each request under its own key; the two submits under one.
OwnKey    == (s1 :> k1 @@ s2 :> k2 @@ s3 :> k3 @@ u1 :> k3 @@ u2 :> k4)
MCOwn     == [p \in Clients |-> OwnKey[p]]
MCShared  == [p \in Clients |-> IF p \in Submits THEN k3 ELSE k1]
=============================================================================
