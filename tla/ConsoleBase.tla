---------------------------- MODULE ConsoleBase ----------------------------
(***************************************************************************)
(* What the modules of the screens share: the value of a state hook or of  *)
(* a query that holds nothing.  Every screen is a module of its own, with  *)
(* the part of the server it talks to; AppScreens and TimedScreens        *)
(* gather them, one screen to a behaviour.                                 *)
(***************************************************************************)
EXTENDS Integers, Sequences, FiniteSets, TLC, FiniteSetsExt, SequencesExt

CONSTANT None        \* null, undefined, "" : nothing chosen, nothing cached

VARIABLE screen      \* the one that is on: what is fair is said of the screen that is
=============================================================================
