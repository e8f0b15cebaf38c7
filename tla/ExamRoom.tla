------------------------------ MODULE ExamRoom ------------------------------
(***************************************************************************)
(* A student's way through one assigned paper: the row on Home, the gates  *)
(* before the start (a screen wide enough, a store that keeps a record),   *)
(* the runner with its sections, clocks, recording and submit,             *)
(* and the result.  The rows of the outbox are abstracted to the sections  *)
(* they belong to; module AnswerOutbox models them one by one.             *)
(*                                                                         *)
(* Time is the server's, in ticks.  The runner's clock is kept as zero, the*)
(* tick at which remaining(clock) reaches 0: a reading that spent ticks on *)
(* the wire moves it later, never earlier.                                 *)
(***************************************************************************)
EXTENDS ConsoleBase

CONSTANTS
  Parts,          \* 1 .. n, the positions of the sections; one question each
  SectionLimit,   \* [Parts -> Nat], the authored limit in ticks, 0 for none
  AudioParts,     \* the sections with a play-once recording
  PaperTime,      \* the tick at which the attempt expires
  Grace,          \* the ticks the server still accepts after a deadline
  MaxLate,        \* bound: the ticks an answer with a clock may spend on the wire
  LastTick,       \* the tick at which the assignment closes; bound: time stops here
  MaxTroubles     \* bound: reloads, returns to Home, lost requests and lost answers

\* A deadline of 0 is no deadline, so a paper has at least one tick.
ASSUME RoomAssumption ==
  /\ IsFiniteSet(Parts) /\ Parts # {} /\ Parts = 1 .. Cardinality(Parts)
  /\ SectionLimit \in [Parts -> Nat]
  /\ PaperTime \in Nat \ {0} /\ Grace \in Nat /\ MaxLate \in Nat

VARIABLES
  now, sitting, begun, due, completed, played, marked,          \* the server
  seat, listed, wide, storage,                                  \* Home and the gates
  zero, here, entered, entering, known, closedParts,   \* the runner
  unsent, submitting, armed, failure, confirming, recording, shown,
  troubles

attemptVars == <<now, sitting, begun, due, completed, played, marked>>
gateVars    == <<seat, listed, wide, storage>>
placeVars   == <<here, entered, entering, recording>>
clockVars   == <<zero, known, closedParts>>
sendVars    == <<unsent, submitting, armed, failure, confirming>>
roomVars    == <<attemptVars, gateVars, placeVars, clockVars, sendVars, shown, troubles>>

Unlimited == 0

Cleared ==
  /\ zero' = None /\ here' = 1 /\ entered' = {} /\ entering' = {}
  /\ known' = [p \in Parts |-> Unlimited] /\ closedParts' = {} /\ recording' = "idle"
  /\ submitting' = FALSE /\ armed' = FALSE /\ failure' = None
  /\ confirming' = FALSE /\ shown' = None

RoomInit ==
  /\ now = 0 /\ sitting = "none" /\ begun = {} /\ completed = {} /\ marked = FALSE
  /\ due = [p \in Parts |-> Unlimited] /\ played = {}
  /\ seat = "home" /\ listed = None /\ wide = FALSE /\ storage = "probing"
  /\ zero = None /\ here = 1 /\ entered = {} /\ entering = {}
  /\ known = [p \in Parts |-> Unlimited] /\ closedParts = {} /\ recording = "idle"
  /\ unsent = FALSE /\ submitting = FALSE /\ armed = FALSE
  /\ failure = None /\ confirming = FALSE /\ shown = None
  /\ troubles = 0

----------------------------------------------------------------------------
(* The server *)

\* The paper is not timed before it is opened.
Tick == /\ sitting # "none" /\ now < LastTick /\ now' = now + 1
        /\ UNCHANGED <<sitting, begun, due, completed, played, marked, gateVars, placeVars,
                       clockVars, sendVars, shown, troubles>>

\* enter_section: the first entry starts the clock and completes the earlier ones.
\* The deadline just written, or one that stands, may be past: a conflict, which
\* rolls the whole entry back.
Deadline(p) == IF p \in begun \/ SectionLimit[p] = 0 THEN due[p]
               ELSE Min({now + SectionLimit[p], PaperTime})
Refused(p) == Deadline(p) # Unlimited /\ now > Deadline(p) + Grace

Enter(p) ==
  IF Refused(p) THEN UNCHANGED <<begun, due, completed>>
  ELSE /\ begun' = begun \cup {p}
       /\ due' = [due EXCEPT ![p] = Deadline(p)]
       /\ completed' = IF p \in begun THEN completed
                       ELSE completed \cup {q \in begun : q < p}

\* the same attempt in another tab: start resumes it, and its runner enters sections
OtherTab(p) ==
  /\ sitting = "live" /\ seat = "room" /\ p \notin begun
  /\ troubles < MaxTroubles /\ troubles' = troubles + 1
  /\ Enter(p)
  /\ UNCHANGED <<now, sitting, played, marked, gateVars, placeVars, clockVars, sendVars, shown>>

\* the sweeper submits an expired attempt, an invigilator voids one, a worker scores
AutoSubmitted == /\ sitting = "live" /\ now > PaperTime + Grace /\ sitting' = "submitted"
                 /\ UNCHANGED <<now, begun, due, completed, played, marked, gateVars, placeVars,
                                clockVars, sendVars, shown, troubles>>

Voided == /\ sitting = "live" /\ sitting' = "voided"
          /\ UNCHANGED <<now, begun, due, completed, played, marked, gateVars, placeVars,
                         clockVars, sendVars, shown, troubles>>

Scored == /\ sitting = "submitted" /\ ~ marked /\ marked' = TRUE
          /\ UNCHANGED <<now, sitting, begun, due, completed, played, gateVars, placeVars,
                         clockVars, sendVars, shown, troubles>>

----------------------------------------------------------------------------
(* Home and the gates *)

\* GET /assignments counts every attempt of the student, the live one included
Used == IF sitting = "none" THEN 0 ELSE 1
stateOf == IF now >= LastTick THEN "closed" ELSE IF Used >= 1 THEN "exhausted" ELSE "startable"

ListLoaded ==
  /\ seat = "home" /\ listed # stateOf /\ listed' = stateOf
  /\ UNCHANGED <<attemptVars, seat, wide, storage, placeVars, clockVars, sendVars,
                 shown, troubles>>

\* the link of a startable row; or the address of the runner, opened or reloaded
Approach ==
  /\ \/ seat = "home" /\ listed = "startable" /\ UNCHANGED troubles
     \/ /\ seat # "result" /\ troubles < MaxTroubles /\ troubles' = troubles + 1
        /\ sitting # "none"
  /\ seat' = "gate" /\ listed' = None /\ wide' \in BOOLEAN /\ storage' = "probing" /\ Cleared
  /\ UNCHANGED <<attemptVars, unsent>>

widen == /\ seat = "gate" /\ ~ wide /\ wide' = TRUE
         /\ UNCHANGED <<attemptVars, seat, listed, storage, placeVars, clockVars,
                        sendVars, shown, troubles>>

Probed ==
  /\ seat = "gate" /\ storage # "ok"          \* on mount, and on Try again
  /\ storage' \in {"ok", "broken"} /\ storage' # storage
  /\ UNCHANGED <<attemptVars, seat, listed, wide, placeVars, clockVars, sendVars,
                 shown, troubles>>

Back ==
  /\ seat # "home" /\ troubles < MaxTroubles       \* the button, or the browser's
  /\ troubles' = troubles + 1 /\ seat' = "home" /\ listed' = None /\ wide' = FALSE
  /\ storage' = "probing" /\ Cleared
  /\ UNCHANGED <<attemptVars, unsent>>

----------------------------------------------------------------------------
(* Opening, or resuming *)

\* Until the assignment closes the start returns the live attempt, expired or not.
\* resumedSections: what the snapshot says of the sections already entered
Over == {p \in begun : p \in completed \/ (due[p] # Unlimited /\ due[p] <= now)}
furthest == IF begun = {} THEN 1 ELSE Max(begun)

\* a clock sampled by the server late ticks ago: its remaining time counts from now
Delays == 0 .. Min({MaxLate, now})
Sampled(late) == now + Max({0, PaperTime - (now - late)})

\* the timer-zero effect, which runs when clock, started or submitting changed
Arms(z, busy) == now >= z /\ ~ busy

Opened ==
  /\ seat = "gate" /\ wide /\ storage = "ok" /\ sitting \in {"none", "live"}
  /\ now < LastTick
  /\ sitting' = "live" /\ seat' = "room"
  /\ \E late \in Delays : zero' = Sampled(late)
  /\ LET first == furthest IN
     /\ here' = first
     /\ entered' = begun \cup {first}
     /\ entering' = IF first \in begun THEN {} ELSE {first}
  /\ known' = due /\ closedParts' = Over
  /\ armed' = Arms(zero', FALSE)
  /\ UNCHANGED <<now, begun, due, completed, played, marked, listed, wide, storage,
                 recording, unsent, submitting, failure, confirming, shown, troubles>>

NotOpened ==
  /\ seat = "gate" /\ wide /\ storage = "ok" /\ seat' = "unopened"
  /\ \/ /\ sitting \in {"submitted", "voided"} \/ now >= LastTick
        /\ UNCHANGED <<sitting, troubles>>
     \/ /\ troubles < MaxTroubles /\ troubles' = troubles + 1
        /\ sitting' \in {sitting, IF sitting = "none" THEN "live" ELSE sitting}
  /\ UNCHANGED <<now, begun, due, completed, played, marked, listed, wide, storage,
                 placeVars, clockVars, sendVars, shown>>

----------------------------------------------------------------------------
(* Moving between sections *)

\* a change of section: its effect enters it once, and the recording remounts
Visit(p) ==
  /\ here' = p
  /\ entered' = entered \cup {p}
  /\ entering' = IF p \in entered THEN entering ELSE entering \cup {p}
  /\ recording' = IF p = here THEN recording ELSE "idle"

\* by the palette or the section tabs
goTo(p) ==
  /\ seat = "room" /\ p # here /\ Visit(p)
  /\ UNCHANGED <<attemptVars, gateVars, clockVars, sendVars, shown, troubles>>

Entered(p) ==
  /\ seat = "room" /\ p \in entering /\ entering' = entering \ {p}
  /\ Enter(p)
  /\ IF Refused(p) THEN closedParts' = closedParts \cup {p} /\ UNCHANGED known
                   ELSE known' = [known EXCEPT ![p] = due'[p]] /\ UNCHANGED closedParts
  /\ UNCHANGED <<now, sitting, played, marked, gateVars, here, entered, recording, zero,
                 sendVars, shown, troubles>>

\* the error is shown and nothing enters the section again
EnterFails(p) ==
  /\ seat = "room" /\ p \in entering /\ entering' = entering \ {p}
  /\ troubles < MaxTroubles /\ troubles' = troubles + 1
  /\ Enter(p) \/ UNCHANGED <<begun, due, completed>>
  /\ UNCHANGED <<now, sitting, played, marked, gateVars, here, entered, recording,
                 clockVars, sendVars, shown>>

\* sectionClock: the tick at which the section's own clock shows zero
sectionClock_WrongSign(p) == known[p] - (zero - PaperTime)
sectionClock(p) == zero - (PaperTime - known[p])

closesOnSectionExpiry(p) == known[p] # Unlimited /\ known[p] < PaperTime
advancesOnSectionExpiry(p) == p = Max(entered) /\ p # Max(Parts)

SectionTimeout ==
  /\ seat = "room" /\ here \notin closedParts
  /\ closesOnSectionExpiry(here) /\ now >= sectionClock(here)
  /\ closedParts' = closedParts \cup {here}
  /\ IF advancesOnSectionExpiry(here)
     THEN Visit(here + 1)
     ELSE UNCHANGED placeVars
  /\ UNCHANGED <<attemptVars, gateVars, zero, known, sendVars, shown, troubles>>

----------------------------------------------------------------------------
(* Answers and the recording *)

Type ==
  /\ seat = "room" /\ ~ unsent /\ unsent' = TRUE
  /\ UNCHANGED <<attemptVars, gateVars, placeVars, clockVars, submitting, armed, failure,
                 confirming, shown, troubles>>

\* The interval, or the tab being hidden; with nothing waiting nothing is sent.
\* The answer carries the clock as the server sampled it; rows typed meanwhile still
\* wait.
Flushed ==
  /\ seat = "room" /\ unsent /\ sitting = "live"
  /\ unsent' \in BOOLEAN
  /\ \E late \in Delays : zero' = Sampled(late)
  /\ armed' = (armed \/ (Arms(zero', submitting) /\ failure # "voided"))
  /\ UNCHANGED <<attemptVars, gateVars, placeVars, known, closedParts, submitting, failure,
                 confirming, shown, troubles>>

Play == /\ seat = "room" /\ here \in AudioParts /\ recording = "idle" /\ recording' = "loading"
        /\ UNCHANGED <<attemptVars, gateVars, here, entered, entering, clockVars,
                       sendVars, shown, troubles>>

\* audio_grant enters the section and locks the play; a failed download spends it
Granted ==
  /\ seat = "room" /\ recording = "loading"
  /\ Enter(here)
  /\ IF Refused(here) \/ here \in played
     THEN recording' = "error" /\ UNCHANGED <<played, troubles>>
     ELSE /\ played' = played \cup {here}
          /\ \/ recording' = "ready" /\ UNCHANGED troubles
             \/ /\ recording' = "error" /\ troubles < MaxTroubles
                /\ troubles' = troubles + 1
  /\ UNCHANGED <<now, sitting, marked, gateVars, here, entered, entering, clockVars,
                 sendVars, shown>>

PlayedOut == /\ recording = "ready" /\ recording' = "spent"
             /\ UNCHANGED <<attemptVars, gateVars, here, entered, entering, clockVars,
                            sendVars, shown, troubles>>

----------------------------------------------------------------------------
(* Submitting *)

Finish == /\ seat = "room" /\ ~ confirming /\ ~ submitting /\ confirming' = TRUE
          /\ UNCHANGED <<attemptVars, gateVars, placeVars, clockVars, unsent, submitting,
                         armed, failure, shown, troubles>>

KeepWorking == /\ confirming /\ confirming' = FALSE
               /\ UNCHANGED <<attemptVars, gateVars, placeVars, clockVars, unsent,
                              submitting, armed, failure, shown, troubles>>

doSubmit == /\ confirming /\ ~ submitting /\ confirming' = FALSE /\ submitting' = TRUE
            /\ UNCHANGED <<attemptVars, gateVars, placeVars, clockVars, unsent, armed,
                           failure, shown, troubles>>

\* the retry timer; a submit already under way answers "busy"
RetryTimer == /\ seat = "room" /\ armed /\ armed' = FALSE /\ submitting' = TRUE
              /\ UNCHANGED <<attemptVars, gateVars, placeVars, clockVars, unsent,
                             failure, confirming, shown, troubles>>

Submitted ==
  /\ seat = "room" /\ submitting /\ sitting # "voided"
  /\ sitting' = "submitted" /\ unsent' = FALSE /\ seat' = "result"
  /\ submitting' = FALSE /\ armed' = FALSE /\ confirming' = FALSE
  /\ shown' = None /\ recording' = "idle"
  /\ UNCHANGED <<now, begun, due, completed, played, marked, listed, wide, storage, here,
                 entered, entering, clockVars, failure, troubles>>

\* nextDelay: every failure but a void keeps the ladder climbing
nextDelay(why) == why # "voided"

SubmitFails ==
  /\ seat = "room" /\ submitting /\ submitting' = FALSE
  /\ \/ sitting = "voided" /\ failure' = "voided" /\ UNCHANGED <<sitting, troubles>>
     \/ /\ sitting # "voided" /\ failure' = "lost"
        /\ troubles < MaxTroubles /\ troubles' = troubles + 1
        /\ sitting' \in {sitting, "submitted"}
  /\ armed' = (armed \/ (Arms(zero, FALSE) /\ nextDelay(failure')))
  /\ UNCHANGED <<now, begun, due, completed, played, marked, gateVars, placeVars, clockVars, unsent,
                 confirming, shown>>

\* The result page asks once, and polls while it holds an answer that is not a score:
\* should the first one fail it holds none, and does not ask again.
refetchInterval_Scored == shown = "scored"
refetchInterval == shown = "marking"

ResultLoaded == /\ seat = "result" /\ (shown = None \/ refetchInterval)
                /\ shown' = IF marked THEN "scored" ELSE "marking"
                /\ shown' # shown
                /\ UNCHANGED <<attemptVars, gateVars, placeVars, clockVars, sendVars, troubles>>

ResultFails == /\ seat = "result" /\ shown = None /\ troubles < MaxTroubles
               /\ shown' = "failed" /\ troubles' = troubles + 1
               /\ UNCHANGED <<attemptVars, gateVars, placeVars, clockVars, sendVars>>

----------------------------------------------------------------------------
RoomNext ==
  \/ Tick \/ AutoSubmitted \/ Voided \/ Scored
  \/ ListLoaded \/ Approach \/ widen \/ Probed \/ Back \/ Opened \/ NotOpened
  \/ \E p \in Parts : goTo(p) \/ Entered(p) \/ EnterFails(p) \/ OtherTab(p)
  \/ SectionTimeout \/ Type \/ Flushed
  \/ Play \/ Granted \/ PlayedOut
  \/ Finish \/ KeepWorking \/ doSubmit \/ RetryTimer \/ Submitted \/ SubmitFails
  \/ ResultLoaded \/ ResultFails

\* The interval, the timers, the polls and the server run while the room is on the
\* screen; the student need not.
InRoom == screen = "room"
RoomFairness ==
  /\ WF_roomVars(InRoom /\ Tick) /\ WF_roomVars(InRoom /\ Scored) /\ WF_roomVars(InRoom /\ Flushed)
  /\ WF_roomVars(InRoom /\ RetryTimer) /\ WF_roomVars(InRoom /\ SectionTimeout)
  /\ WF_roomVars(InRoom /\ (Submitted \/ SubmitFails)) /\ WF_roomVars(InRoom /\ ResultLoaded)

----------------------------------------------------------------------------
(* Properties *)

\* A section the runner calls over has reached its deadline on the server's clock, or
\* was left behind, or was entered for the first time after the paper's own time: that
\* entry is rolled back with its deadline (enter_section).  Slow answers may close a
\* section late, never early.
ClosedIsOver ==
  \A p \in closedParts : \/ p \in completed
                         \/ due[p] # Unlimited /\ now >= due[p]
                         \/ p \notin begun /\ SectionLimit[p] # 0 /\ now > PaperTime + Grace

\* Once the time is up on every clock, the one of the slowest answer included, and a
\* submit is armed or under way, lost requests only delay it: the student ends at a
\* marked paper, unless the attempt was voided, the page was left, or the first answer
\* of the result page failed, after which nothing asks again (the refetchInterval of
\* Result.tsx).
ArmedEndsMarked ==
  ((armed \/ submitting) /\ now >= PaperTime + MaxLate)
    ~> (shown \in {"scored", "failed"} \/ sitting = "voided" \/ seat \in {"gate", "home"})
=============================================================================
