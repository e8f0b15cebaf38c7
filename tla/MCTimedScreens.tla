--------------------------- MODULE MCTimedScreens ---------------------------
(* Instances of TimedScreens for TLC. *)
EXTENDS TimedScreens

\* Two timed sections: the first has one tick, the second the paper's time.
MCSectionLimit == <<1, 0>>

\* One retry each: three for a plan only make the same wait longer.
MCRetries == [plan |-> 1, apply |-> 1]
=============================================================================
