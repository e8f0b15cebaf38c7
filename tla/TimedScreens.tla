---------------------------- MODULE TimedScreens ----------------------------
(***************************************************************************)
(* The screens that wait for something: the exam room for its clocks, the  *)
(* safety stream for its heartbeat and its retries, and the regrade desk   *)
(* for a worker.  Each has its own part of the server, so a behaviour is   *)
(* that of one of them.                                                    *)
(***************************************************************************)
EXTENDS SafetyStream, ExamRoom, Regrades

Screens == {"stream", "room", "regrades"}

\* A screen at rest starts in one of its ways.
Init ==
    /\ screen \in Screens
    /\ StreamInit /\ RoomInit /\ RegradesInit

allVars == <<screen, streamVars, roomVars, regradeVars>>

\* Of every screen but one, nothing changes.
Next ==
    /\ screen' = screen
    /\ IF screen = "stream" THEN StreamNext ELSE UNCHANGED streamVars
    /\ IF screen = "room" THEN RoomNext ELSE UNCHANGED roomVars
    /\ IF screen = "regrades" THEN RegradesNext ELSE UNCHANGED regradeVars

Spec == Init /\ [][Next]_allVars

FairSpec == Spec /\ StreamFairness /\ RoomFairness /\ RegradesFairness

=============================================================================
