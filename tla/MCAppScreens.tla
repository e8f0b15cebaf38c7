---------------------------- MODULE MCAppScreens ----------------------------
(* Instances of AppScreens for TLC. *)
EXTENDS AppScreens

MCLength == ("p1" :> 4) @@ ("p2" :> 2)
MCLead == ("p1" :> 1) @@ ("p2" :> 2)

\* A choice, a multiple selection and two gaps, in two sections.
MCSectionOf == "c" :> 1 @@ "m" :> 1 @@ "t" :> 2
MCKindOf    == "c" :> "choice" @@ "m" :> "set" @@ "t" :> "text"
MCSlotsOf   == "c" :> {"s1"} @@ "m" :> {"s1"} @@ "t" :> {"s1", "s2"}
MCCorrect   == "c" :> {"A"} @@ "m" :> {"A", "B"} @@ "t" :> {"A"}

\* Two people reported; the first report is a minor's.
MCSubjectOf == "r1" :> "p" @@ "r2" :> "q"

\* The newer invitation is of the higher rank.
MCInvitedAs == [i \in 1 .. 2 |-> i]

\* A teacher of one centre who is a member of another, and a platform admin.
MCTeacher == [admin |-> FALSE, teaches |-> "c1", member |-> {"c1", "c2"}, minor |-> FALSE,
              rosters |-> {"k2"}, level |-> None]
MCAdmin   == [admin |-> TRUE, teaches |-> None, member |-> {}, minor |-> FALSE,
              rosters |-> {}, level |-> None]
MCAccounts    == {MCTeacher, MCAdmin}
MCClassCentre == "k1" :> "c1" @@ "k2" :> "c2"
\* Open on both sides, the wrong way round, and open above.
MCRanges  == {[low |-> None, high |-> None], [low |-> 2, high |-> 1], [low |-> 2, high |-> None]}
MCFilters == {None, "cohort"}

\* The speaking screen alone, with the scheduler's fairness.
MCSpeakingSpec == FairSpec /\ screen = "speaking"

\* The screen of the question groups alone.
MCGroupSpec == Spec /\ screen = "groups"
=============================================================================
