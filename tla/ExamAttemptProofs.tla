------------------------- MODULE ExamAttemptProofs -------------------------
(***************************************************************************)
(* What holds of one attempt for any number of overlapping requests, any   *)
(* slots, deltas, idempotency keys, deadline and grace.                    *)
(*                                                                         *)
(* The inductive invariant adds to the properties what the code relies on  *)
(* silently: the attempts row is locked exactly while a submission lies    *)
(* between its UPDATE and its commit, so the runs it found current are     *)
(* still the current ones when it commits; a committed submit has stored   *)
(* its response; and auto_expiry is only ever about to be written after    *)
(* the grace.                                                              *)
(***************************************************************************)
EXTENDS ExamAttempt, TLAPS

\* The holder of the row lock is the one submission past its UPDATE.
LockInv == \A p \in Requests : pc[p] \in {"frozen", "scored"} <=> rowLock = p

\* The runs a submission found current stay the current ones until it commits.
FlipInv == \A p \in Requests : pc[p] = "scored" => seen[p] = current

\* A submit whose run is committed has its response stored under its key.
KeptInv == runs \cap Submits \subseteq kept

\* Whoever is to write auto_expiry read the clock after the grace.
HowInv == \A p \in Requests : how[p] = "auto_expiry" => PastGrace

IInv ==
    /\ TypeOK
    /\ LockInv
    /\ FlipInv
    /\ KeptInv
    /\ HowInv
    /\ OneCurrentRun
    /\ \A p, q \in kept : SameKey(p, q) => p = q
    /\ AutoExpiryIsLate

-----------------------------------------------------------------------------
(* Overlaying deltas on rows gives rows.                                   *)
LEMMA LaterType ==
    ASSUME NEW x \in Deltas, NEW y \in Deltas
    PROVE  Later(x, y) \in Deltas
  BY DEF Later, Deltas

(* The empty batch is a batch. *)
LEMMA NoDeltaType == NoDelta \in Deltas
  BY DataAssumption DEF NoDelta, Deltas

(* The deltas of a request that pass the client_seq comparison are deltas. *)
LEMMA AcceptedType ==
    ASSUME TypeOK, NEW p \in Clients
    PROVE  Accepted(p) \in Deltas
  <1>1. body[p] \in Deltas
    BY DataAssumption DEF TypeOK
  <1> QED
    BY <1>1, DataAssumption DEF Accepted, Deltas

(* The initial states satisfy the inductive invariant. *)
LEMMA InitInv == Init => IInv
  <1> SUFFICES ASSUME Init PROVE IInv
    OBVIOUS
  <1> USE DEF Init
  <1>1. TypeOK
    BY NoDeltaType, TimeAssumption DEF TypeOK, Vias, Requests, OpenAt, EndedAt
  <1>2. LockInv
    BY RequestsAssumption DEF LockInv
  <1>3. FlipInv /\ KeptInv
    BY DEF FlipInv, KeptInv
  <1>4. HowInv /\ OneCurrentRun /\ AutoExpiryIsLate
    BY DEF HowInv, OneCurrentRun, AutoExpiryIsLate
  <1> QED
    BY <1>1, <1>2, <1>3, <1>4 DEF IInv

-----------------------------------------------------------------------------
(* Type correctness is preserved by every step. *)
LEMMA TypeStep == TypeOK /\ [Next]_vars => TypeOK'
  <1> SUFFICES ASSUME TypeOK, [Next]_vars PROVE TypeOK'
    OBVIOUS
  <1> USE DEF TypeOK, Goto, table, session, OpenAt, EndedAt, Requests, Clients
  <1>1. ASSUME NEW p \in Requests, Replay(p) PROVE TypeOK'
    BY <1>1 DEF Replay
  <1>2. ASSUME NEW p \in Requests, Begin(p) PROVE TypeOK'
    BY <1>2, NoDeltaType DEF Begin, Vias
  <1>3. ASSUME NEW p \in Requests, CheckSave(p) PROVE TypeOK'
    BY <1>3 DEF CheckSave
  <1>4. ASSUME NEW p \in Requests, RefuseSave(p) PROVE TypeOK'
    BY <1>4 DEF RefuseSave
  <1>5. ASSUME NEW p \in Requests, ExpireSave(p) PROVE TypeOK'
    BY <1>5 DEF ExpireSave
  <1>6. ASSUME NEW p \in Requests, ExpireSubmit(p) PROVE TypeOK'
    BY <1>6 DEF ExpireSubmit, Vias
  <1>7. ASSUME NEW p \in Requests, WriteAnswers(p) PROVE TypeOK'
    <2>1. Accepted(p) \in Deltas
      BY <1>7, AcceptedType DEF WriteAnswers
    <2> QED
      BY <1>7, <2>1 DEF WriteAnswers
  <1>8. ASSUME NEW p \in Requests, CommitSave(p) PROVE TypeOK'
    <2>1. Later(answers, mine[p]) \in Deltas
      BY LaterType
    <2> QED
      BY <1>8, <2>1 DEF CommitSave
  <1>9. ASSUME NEW p \in Requests, SweepBegin(p) PROVE TypeOK'
    BY <1>9 DEF SweepBegin, Vias
  <1>10. ASSUME NEW p \in Requests, ReturnRun(p) PROVE TypeOK'
    BY <1>10 DEF ReturnRun
  <1>11. ASSUME NEW p \in Requests, Freeze(p) PROVE TypeOK'
    BY <1>11 DEF Freeze
  <1>12. ASSUME NEW p \in Requests, Score(p) PROVE TypeOK'
    <2>1. Later(answers, mine[p]) \in Deltas
      BY LaterType
    <2> QED
      BY <1>12, <2>1 DEF Score
  <1>13. ASSUME NEW p \in Requests, CommitSubmit(p) PROVE TypeOK'
    <2>1. Later(answers, mine[p]) \in Deltas
      BY LaterType
    <2> QED
      BY <1>13, <2>1 DEF CommitSubmit, Frozen, Flipped
  <1>14. ASSUME NEW p \in Requests, Integrity(p) PROVE TypeOK'
    BY <1>14, NoDeltaType DEF Integrity, RollBack
  <1>15. ASSUME NEW p \in Requests, Crash(p) PROVE TypeOK'
    BY <1>15, NoDeltaType, TimeAssumption DEF Crash, RollBack
  <1>16. CASE Void
    BY <1>16 DEF Void, Frozen
  <1>17. CASE Tick
    BY <1>17, TimeAssumption DEF Tick
  <1>18. CASE Finished \/ UNCHANGED vars
    BY <1>18 DEF Finished, vars
  <1> QED
    BY <1>1, <1>2, <1>3, <1>4, <1>5, <1>6, <1>7, <1>8, <1>9, <1>10, <1>11,
       <1>12, <1>13, <1>14, <1>15, <1>16, <1>17, <1>18 DEF Next, Step

-----------------------------------------------------------------------------
(* Only Freeze takes the row lock, only a commit or a rollback of its      *)
(* holder gives it back.                                                   *)
LEMMA LockStep == IInv /\ [Next]_vars => LockInv'
  <1> SUFFICES ASSUME IInv, [Next]_vars PROVE LockInv'
    OBVIOUS
  <1> USE RequestsAssumption DEF IInv, TypeOK, LockInv, Goto, table, session
  <1>1. ASSUME NEW p \in Requests,
               Replay(p) \/ Begin(p) \/ CheckSave(p) \/ RefuseSave(p) \/ ExpireSave(p)
               \/ ExpireSubmit(p) \/ WriteAnswers(p) \/ CommitSave(p)
               \/ SweepBegin(p) \/ ReturnRun(p)
        PROVE  LockInv'
    BY <1>1 DEF Replay, Begin, CheckSave, RefuseSave, ExpireSave, ExpireSubmit,
                WriteAnswers, CommitSave, SweepBegin, ReturnRun
  <1>2. ASSUME NEW p \in Requests, Freeze(p) PROVE LockInv'
    BY <1>2 DEF Freeze, RowFree
  <1>3. ASSUME NEW p \in Requests, Score(p) PROVE LockInv'
    BY <1>3 DEF Score
  <1>4. ASSUME NEW p \in Requests, CommitSubmit(p) PROVE LockInv'
    BY <1>4 DEF CommitSubmit
  <1>5. ASSUME NEW p \in Requests, Integrity(p) \/ Crash(p) PROVE LockInv'
    <2>1. RollBack(p)
      BY <1>5 DEF Integrity, Crash
    <2> QED
      BY <2>1 DEF RollBack
  <1>6. CASE Void \/ Tick \/ Finished \/ UNCHANGED vars
    BY <1>6 DEF Void, RowFree, Tick, Finished, vars
  <1> QED
    BY <1>1, <1>2, <1>3, <1>4, <1>5, <1>6 DEF Next, Step

(* The set of current runs changes only at the commit of a submission,     *)
(* which holds the row lock: no other submission is past its flip.         *)
LEMMA FlipStep == IInv /\ [Next]_vars => FlipInv'
  <1> SUFFICES ASSUME IInv, [Next]_vars PROVE FlipInv'
    OBVIOUS
  <1> USE DEF IInv, TypeOK, FlipInv, Goto, table, session
  <1>1. ASSUME NEW p \in Requests,
               Replay(p) \/ Begin(p) \/ CheckSave(p) \/ RefuseSave(p) \/ ExpireSave(p)
               \/ ExpireSubmit(p) \/ WriteAnswers(p) \/ CommitSave(p)
               \/ SweepBegin(p) \/ ReturnRun(p) \/ Freeze(p)
        PROVE  FlipInv'
    BY <1>1 DEF Replay, Begin, CheckSave, RefuseSave, ExpireSave, ExpireSubmit,
                WriteAnswers, CommitSave, SweepBegin, ReturnRun, Freeze
  <1>2. ASSUME NEW p \in Requests, Score(p) PROVE FlipInv'
    BY <1>2 DEF Score
  <1>3. ASSUME NEW p \in Requests, CommitSubmit(p) PROVE FlipInv'
    <2>1. \A q \in Requests : pc[q] = "scored" => q = p
      BY <1>3, RequestsAssumption DEF CommitSubmit, LockInv
    <2> QED
      BY <1>3, <2>1 DEF CommitSubmit
  <1>4. ASSUME NEW p \in Requests, Integrity(p) \/ Crash(p) PROVE FlipInv'
    BY <1>4 DEF Integrity, Crash, RollBack
  <1>5. CASE Void \/ Tick \/ Finished \/ UNCHANGED vars
    BY <1>5 DEF Void, RowFree, Tick, Finished, vars
  <1> QED
    BY <1>1, <1>2, <1>3, <1>4, <1>5 DEF Next, Step

(* Every commit replaces whatever was current by the one new run. *)
LEMMA CurrentStep == IInv /\ [Next]_vars => OneCurrentRun'
  <1> SUFFICES ASSUME IInv, [Next]_vars PROVE OneCurrentRun'
    OBVIOUS
  <1> USE DEF IInv, TypeOK, OneCurrentRun, Goto, table, session
  <1>1. ASSUME NEW p \in Requests,
               Replay(p) \/ Begin(p) \/ CheckSave(p) \/ RefuseSave(p) \/ ExpireSave(p)
               \/ ExpireSubmit(p) \/ WriteAnswers(p) \/ CommitSave(p)
               \/ SweepBegin(p) \/ ReturnRun(p) \/ Freeze(p) \/ Score(p)
        PROVE  OneCurrentRun'
    BY <1>1 DEF Replay, Begin, CheckSave, RefuseSave, ExpireSave, ExpireSubmit,
                WriteAnswers, CommitSave, SweepBegin, ReturnRun, Freeze, Score
  <1>2. ASSUME NEW p \in Requests, CommitSubmit(p) PROVE OneCurrentRun'
    <2>1. current' = {p}
      BY <1>2 DEF CommitSubmit, FlipInv, Flipped
    <2> QED
      BY <2>1
  <1>3. ASSUME NEW p \in Requests, Integrity(p) \/ Crash(p) PROVE OneCurrentRun'
    BY <1>3 DEF Integrity, Crash, RollBack
  <1>4. CASE Void \/ Tick \/ Finished \/ UNCHANGED vars
    BY <1>4 DEF Void, RowFree, Tick, Finished, vars
  <1> QED
    BY <1>1, <1>2, <1>3, <1>4 DEF Next, Step

(* A response is stored only under a key no stored response has, and a     *)
(* submit stores its response in the transaction that writes its run.      *)
LEMMA KeptStep ==
    IInv /\ [Next]_vars
      => KeptInv' /\ (\A p, q \in kept : SameKey(p, q) => p = q)'
  <1> DEFINE KeyInv == \A p, q \in kept : SameKey(p, q) => p = q
  <1> SUFFICES ASSUME IInv, [Next]_vars PROVE KeptInv' /\ KeyInv'
    OBVIOUS
  <1>0. KeptInv /\ KeyInv
    BY DEF IInv
  <1> USE <1>0 DEF KeptInv, Goto, table, session
  <1>1. ASSUME NEW p \in Requests,
               Replay(p) \/ Begin(p) \/ CheckSave(p) \/ RefuseSave(p) \/ ExpireSave(p)
               \/ ExpireSubmit(p) \/ WriteAnswers(p) \/ SweepBegin(p) \/ Freeze(p) \/ Score(p)
        PROVE  KeptInv' /\ KeyInv'
    BY <1>1 DEF Replay, Begin, CheckSave, RefuseSave, ExpireSave, ExpireSubmit,
                WriteAnswers, SweepBegin, Freeze, Score
  <1>2. ASSUME NEW p \in Requests, CommitSave(p) \/ ReturnRun(p) PROVE KeptInv' /\ KeyInv'
    <2>1. kept' = kept \cup {p} /\ runs' = runs /\ ~ KeyTaken(p)
      BY <1>2 DEF CommitSave, ReturnRun
    <2> QED
      BY <2>1 DEF KeyTaken, SameKey
  <1>3. ASSUME NEW p \in Requests, CommitSubmit(p) PROVE KeptInv' /\ KeyInv'
    <2>1. CASE p \in Submits
      <3>1. kept' = kept \cup {p} /\ runs' = runs \cup {p} /\ ~ KeyTaken(p)
        BY <1>3, <2>1 DEF CommitSubmit
      <3> QED
        BY <3>1 DEF KeyTaken, SameKey
    <2>2. CASE p \notin Submits
      <3>1. kept' = kept /\ runs' = runs \cup {p}
        BY <1>3, <2>2 DEF CommitSubmit
      <3> QED
        BY <2>2, <3>1
    <2> QED
      BY <2>1, <2>2
  <1>4. ASSUME NEW p \in Requests, Integrity(p) \/ Crash(p) PROVE KeptInv' /\ KeyInv'
    BY <1>4 DEF Integrity, Crash, RollBack
  <1>5. CASE Void \/ Tick \/ Finished \/ UNCHANGED vars
    BY <1>5 DEF Void, RowFree, Tick, Finished, vars
  <1> QED
    BY <1>1, <1>2, <1>3, <1>4, <1>5 DEF Next, Step

(* auto_expiry is chosen after the grace, and the clock does not go back. *)
LEMMA ViaStep == IInv /\ [Next]_vars => HowInv' /\ AutoExpiryIsLate'
  <1> SUFFICES ASSUME IInv, [Next]_vars PROVE HowInv' /\ AutoExpiryIsLate'
    OBVIOUS
  <1> USE TimeAssumption DEF IInv, TypeOK, HowInv, AutoExpiryIsLate, PastGrace,
                             Goto, table, session
  <1>1. ASSUME NEW p \in Requests,
               Replay(p) \/ CheckSave(p) \/ RefuseSave(p) \/ ExpireSave(p)
               \/ WriteAnswers(p) \/ CommitSave(p) \/ ReturnRun(p) \/ Freeze(p) \/ Score(p)
        PROVE  HowInv' /\ AutoExpiryIsLate'
    BY <1>1 DEF Replay, CheckSave, RefuseSave, ExpireSave,
                WriteAnswers, CommitSave, ReturnRun, Freeze, Score
  <1>2. ASSUME NEW p \in Requests, Begin(p) \/ ExpireSubmit(p) \/ SweepBegin(p)
        PROVE  HowInv' /\ AutoExpiryIsLate'
    BY <1>2 DEF Begin, ExpireSubmit, SweepBegin, Due
  <1>3. ASSUME NEW p \in Requests, CommitSubmit(p) PROVE HowInv' /\ AutoExpiryIsLate'
    BY <1>3 DEF CommitSubmit
  <1>4. ASSUME NEW p \in Requests, Integrity(p) \/ Crash(p)
        PROVE  HowInv' /\ AutoExpiryIsLate'
    BY <1>4 DEF Integrity, Crash, RollBack
  <1>5. CASE Void \/ Finished \/ UNCHANGED vars
    BY <1>5 DEF Void, RowFree, Finished, vars
  <1>6. CASE Tick
    BY <1>6 DEF Tick
  <1> QED
    BY <1>1, <1>2, <1>3, <1>4, <1>5, <1>6 DEF Next, Step

-----------------------------------------------------------------------------
(* The inductive invariant holds in every reachable state. *)
THEOREM Inductive == Spec => []IInv
  <1>1. Init => IInv
    BY InitInv
  <1>2. IInv /\ [Next]_vars => IInv'
    <2> SUFFICES ASSUME IInv, [Next]_vars PROVE IInv'
      OBVIOUS
    <2>1. TypeOK'
      BY TypeStep DEF IInv
    <2>2. LockInv' /\ FlipInv' /\ OneCurrentRun'
      BY LockStep, FlipStep, CurrentStep
    <2>3. KeptInv' /\ (\A p, q \in kept : SameKey(p, q) => p = q)'
      BY KeptStep
    <2>4. HowInv' /\ AutoExpiryIsLate'
      BY ViaStep
    <2> QED
      BY <2>1, <2>2, <2>3, <2>4 DEF IInv
  <1> QED
    BY <1>1, <1>2, PTL DEF Spec

(* Every state of every attempt is well typed, for any set of requests. *)
THEOREM TypeCorrect == Spec => []TypeOK
  <1>1. IInv => TypeOK
    BY DEF IInv
  <1> QED
    BY Inductive, <1>1, PTL

(* However many submits and sweeps overlap, an attempt never has two       *)
(* current score runs, and a scored attempt has one (submit and _score).   *)
THEOREM OneCurrent == Spec => []OneCurrentRun
  <1>1. IInv => OneCurrentRun
    BY DEF IInv
  <1> QED
    BY Inductive, <1>1, PTL

(* The insert of a score run never meets score_runs_current_uq: the row    *)
(* lock of the attempt already orders the flips of is_current (_score).    *)
THEOREM NoConflict == Spec => []NoRunConflict
  <1>1. IInv => NoRunConflict
    BY DEF IInv, FlipInv, NoRunConflict, RunConflicts
  <1> QED
    BY Inductive, <1>1, PTL

(* An idempotency key has one stored response and, of two submits that     *)
(* carry it, at most one is ever marked (Idempotency.replay and .store).   *)
THEOREM OncePerKeyHolds == Spec => []OncePerKey
  <1>1. IInv => OncePerKey
    BY DEF IInv, KeptInv, OncePerKey
  <1> QED
    BY Inductive, <1>1, PTL

(* Nobody is force-submitted before the deadline and its grace have passed *)
(* (auto_submit_expired, and save_answers' own check).                     *)
THEOREM NoEarlyExpiry == Spec => []AutoExpiryIsLate
  <1>1. IInv => AutoExpiryIsLate
    BY DEF IInv
  <1> QED
    BY Inductive, <1>1, PTL

(* A batch with nothing in it changes no row. *)
LEMMA LaterNothing ==
    ASSUME NEW x \in Deltas
    PROVE  Later(x, NoDelta) = x
  BY DEF Later, NoDelta, Deltas

(* One step of the freeze: a settled attempt stays settled and keeps its   *)
(* answers, because a flush that comes now meets the trigger.              *)
LEMMA SettledStep ==
    ASSUME TypeOK, [Next]_vars, Settled
    PROVE  Settled' /\ answers' = answers
  <1> USE DEF TypeOK, Settled, Flushed, Open, OpenAt, Frozen, Goto, table, session
  <1>1. ASSUME NEW p \in Requests,
               Replay(p) \/ RefuseSave(p) \/ ExpireSave(p) \/ CheckSave(p)
               \/ ExpireSubmit(p) \/ ReturnRun(p) \/ Freeze(p) \/ Score(p)
        PROVE  Settled' /\ answers' = answers
    BY <1>1 DEF Replay, RefuseSave, ExpireSave, CheckSave, ExpireSubmit, ReturnRun,
                Freeze, Score
  <1>2. ASSUME NEW p \in Requests, Begin(p) PROVE Settled' /\ answers' = answers
    BY <1>2 DEF Begin
  <1>3. ASSUME NEW p \in Requests, WriteAnswers(p) PROVE Settled' /\ answers' = answers
    <2>1. Accepted(p) = NoDelta
      BY <1>3 DEF WriteAnswers, WriteFails
    <2>2. mine' = [mine EXCEPT ![p] = NoDelta] /\ pc' = [pc EXCEPT ![p] = "written"]
          /\ UNCHANGED <<status, answers>>
      BY <1>3, <2>1 DEF WriteAnswers
    <2> QED
      BY <2>2
  <1>4. ASSUME NEW p \in Requests, CommitSave(p) \/ CommitSubmit(p)
        PROVE  Settled' /\ answers' = answers
    <2>1. mine[p] = NoDelta
      BY <1>4 DEF CommitSave, CommitSubmit
    <2>2. Later(answers, mine[p]) = answers
      BY <2>1, LaterNothing
    <2>3. answers' = answers
      BY <1>4, <2>2 DEF CommitSave, CommitSubmit
    <2>4. /\ status' \in {status, "scored"}
          /\ mine' = mine /\ pc' = [pc EXCEPT ![p] = "committed"]
      BY <1>4 DEF CommitSave, CommitSubmit
    <2> QED
      BY <2>3, <2>4
  <1>5. ASSUME NEW p \in Requests, SweepBegin(p) PROVE Settled' /\ answers' = answers
    BY <1>5 DEF SweepBegin, Due
  <1>6. ASSUME NEW p \in Requests, Integrity(p) \/ Crash(p)
        PROVE  Settled' /\ answers' = answers
    <2>1. RollBack(p)
      BY <1>6 DEF Integrity, Crash
    <2> QED
      BY <2>1 DEF RollBack
  <1>7. CASE Void \/ Tick \/ Finished \/ UNCHANGED vars
    BY <1>7 DEF Void, Tick, Finished, vars
  <1> QED
    BY <1>1, <1>2, <1>3, <1>4, <1>5, <1>6, <1>7 DEF Next, Step

(* Once an attempt is marked and the transactions that had flushed rows    *)
(* before are over, its answers never change again, whatever is retried,   *)
(* delayed or voided after (attempt_answers_frozen).                       *)
THEOREM FreezeIsFinal == Spec => FrozenForGood
  <1>1. TypeOK /\ [Next]_vars => [Settled => Settled' /\ answers' = answers]_vars
    BY SettledStep
  <1> QED
    BY TypeCorrect, <1>1, PTL DEF Spec, FrozenForGood
=============================================================================
