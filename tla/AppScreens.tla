---------------------------- MODULE AppScreens ----------------------------
(***************************************************************************)
(* The screens of the console and of the student app.  Those a paper       *)
(* passes through: its audio, its question groups, its composition and the *)
(* page of its test, the reading pane of the runner and the review of the  *)
(* marked paper.  And those about people: signing in and out, the account, *)
(* buying, speaking slots and the speaking in them, and moderation.  Each  *)
(* has its own part of the server, so a behaviour is that of one screen,   *)
(* the one the router mounts, the others being at rest.                    *)
(***************************************************************************)
EXTENDS Composition, AudioLibrary, GroupLibrary, TestDetail, ReadingPane, PaperReview,
        ClientSession, Account, Billing, Slots, Speaking, Moderation

Screens == {"compose", "audio", "groups", "test", "reading", "review", "session",
            "account", "billing", "slots", "speaking", "moderation"}

\* A screen at rest starts in one of its ways.
Init ==
    /\ screen \in Screens
    /\ CompositionInit /\ AudioInit /\ GroupInit /\ TestInit /\ PaneInit
    /\ ReviewInit /\ SessionInit /\ AccountInit /\ BillingInit /\ SlotsInit
    /\ SpeakingInit /\ ModerationInit
    /\ screen # "compose" => me = Author /\ Cardinality(Placed(position)) = Max(Initially)
    /\ screen # "reading" => passage = CHOOSE p \in Passages : TRUE
    /\ screen # "review" => policy = "never"
    /\ screen # "session" => signInStage = "phone"
    /\ screen # "account" => profile = CHOOSE n \in Names : TRUE
    /\ screen # "slots" => viewer = CHOOSE a \in Accounts : TRUE
    /\ screen # "speaking" => adults = Students

allVars == <<screen, compositionVars, audioVars, groupVars, testVars, paneVars,
             reviewVars, sessionVars, accountVars, billingVars, slotsVars, speakingVars,
             moderationVars>>

\* Of every screen but one, nothing changes.
Next ==
    /\ screen' = screen
    /\ IF screen = "compose" THEN CompositionNext ELSE UNCHANGED compositionVars
    /\ IF screen = "audio" THEN AudioNext ELSE UNCHANGED audioVars
    /\ IF screen = "groups" THEN GroupNext ELSE UNCHANGED groupVars
    /\ IF screen = "test" THEN TestNext ELSE UNCHANGED testVars
    /\ IF screen = "reading" THEN PaneNext ELSE UNCHANGED paneVars
    /\ IF screen = "review" THEN ReviewNext ELSE UNCHANGED reviewVars
    /\ IF screen = "session" THEN SessionNext ELSE UNCHANGED sessionVars
    /\ IF screen = "account" THEN AccountNext ELSE UNCHANGED accountVars
    /\ IF screen = "billing" THEN BillingNext ELSE UNCHANGED billingVars
    /\ IF screen = "slots" THEN SlotsNext ELSE UNCHANGED slotsVars
    /\ IF screen = "speaking" THEN SpeakingNext ELSE UNCHANGED speakingVars
    /\ IF screen = "moderation" THEN ModerationNext ELSE UNCHANGED moderationVars

Spec == Init /\ [][Next]_allVars

FairSpec == Spec /\ SpeakingFairness
=============================================================================
