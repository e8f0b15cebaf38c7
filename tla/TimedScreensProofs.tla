------------------------- MODULE TimedScreensProofs -------------------------
(***************************************************************************)
(* What holds on the screens that wait, for any paper, any limits and any  *)
(* bounds.  The exam room and the regrade desk each have an inductive      *)
(* invariant; a step of TimedScreens is a step of one of them, or neither. *)
(***************************************************************************)
EXTENDS TimedScreens, FiniteSetTheorems, WellFoundedInduction, TLAPS

(* A finite set of numbers has a greatest one, and Max is it.              *)
LEMMA Greatest ==
    ASSUME NEW n \in Nat, NEW S, S \subseteq 1 .. n, S # {}
    PROVE  Max(S) \in S /\ \A x \in S : Max(S) >= x
  <1> DEFINE Above == {m \in Nat : \A x \in S : m >= x}
  <1>1. n \in Above
    OBVIOUS
  <1>2. PICK m \in Above : \A k \in Above : ~ (<<k, m>> \in OpToRel(<, Nat))
    <2>1. IsWellFoundedOn(OpToRel(<, Nat), Nat)
      BY NatLessThanWellFounded
    <2>2. QED  BY <1>1, <2>1, WFMin
  <1>3. m \in S
    <2>1. SUFFICES ASSUME m \notin S PROVE FALSE
      OBVIOUS
    <2>2. PICK y : y \in S
      OBVIOUS
    <2>3. y \in Nat /\ m \in Nat /\ m >= y /\ y >= 1
      BY <2>2
    <2>4. m - 1 \in Nat
      BY <2>3
    <2>5. m - 1 \in Above
      BY <2>1, <2>4
    <2>6. <<m - 1, m>> \in OpToRel(<, Nat)
      BY <2>3, <2>4 DEF OpToRel
    <2>7. QED  BY <1>2, <2>5, <2>6
  <1>4. \E x \in S : \A y \in S : x >= y
    BY <1>3
  <1>5. QED  BY <1>4 DEF Max

(* The positions of the sections are an interval of the numbers.           *)
LEMMA PartsAreAnInterval ==
    /\ Cardinality(Parts) \in Nat /\ Parts = 1 .. Cardinality(Parts) /\ 1 \in Parts
    /\ Max(Parts) = Cardinality(Parts)
  <1>1. Cardinality(Parts) \in Nat /\ Parts = 1 .. Cardinality(Parts) /\ Parts # {}
    BY RoomAssumption, FS_CardinalityType
  <1>2. Max(Parts) \in Parts /\ \A x \in Parts : Max(Parts) >= x
    BY <1>1, Greatest
  <1>3. 1 \in Parts /\ Cardinality(Parts) \in Parts
    BY <1>1
  <1>4. QED  BY <1>1, <1>2, <1>3

-----------------------------------------------------------------------------
(* ExamRoom.  The server writes a deadline once, when a section is entered *)
(* first; the runner knows either nothing of it or exactly that; and its   *)
(* own zero never comes before the paper's.                                *)

RoomTypes ==
    /\ now \in Nat /\ begun \subseteq Parts /\ due \in [Parts -> Nat]
    /\ known \in [Parts -> Nat] /\ here \in Parts /\ entering \subseteq Parts
    /\ entered \subseteq Parts

PartIsOver(p) == \/ p \in completed
                 \/ due[p] # Unlimited /\ now >= due[p]
                 \/ p \notin begun /\ SectionLimit[p] # 0 /\ now > PaperTime + Grace

RoomInv ==
    /\ RoomTypes
    /\ seat = "room" => zero \in Nat /\ zero >= PaperTime
    /\ \A p \in Parts : due[p] # Unlimited => p \in begun
    /\ \A p \in Parts : known[p] # Unlimited => known[p] = due[p]
    /\ closedParts \subseteq Parts /\ \A p \in closedParts : PartIsOver(p)

LEMMA RoomStarts == RoomInit => RoomInv
  BY PartsAreAnInterval DEF RoomInit, RoomInv, RoomTypes, Unlimited

(* The deadline a first entry writes is the paper's end at the latest.     *)
LEMMA DeadlineBounds ==
    ASSUME RoomInv, NEW p \in Parts
    PROVE  /\ Deadline(p) \in Nat
           /\ p \notin begun /\ SectionLimit[p] # 0 =>
                /\ Deadline(p) # Unlimited /\ Deadline(p) =< PaperTime
                /\ Deadline(p) \in {now + SectionLimit[p], PaperTime}
  <1> DEFINE a == now + SectionLimit[p]
  <1>1. now \in Nat /\ SectionLimit[p] \in Nat /\ PaperTime \in Nat /\ PaperTime # 0 /\ due[p] \in Nat
    BY RoomAssumption DEF RoomInv, RoomTypes
  <1>2. a \in Nat
    BY <1>1
  <1>3. Min({a, PaperTime}) \in {a, PaperTime} /\ Min({a, PaperTime}) =< PaperTime
    <2> HIDE DEF a
    <2>1. \E x \in {a, PaperTime} : \A y \in {a, PaperTime} : x =< y
      <3>1. CASE a =< PaperTime  BY <1>1, <1>2, <3>1
      <3>2. CASE ~ (a =< PaperTime)  BY <1>1, <1>2, <3>2
      <3>3. QED  BY <3>1, <3>2
    <2>2. QED  BY <2>1 DEF Min
  <1>4. CASE p \in begun \/ SectionLimit[p] = 0
    BY <1>1, <1>4 DEF Deadline
  <1>5. CASE p \notin begun /\ SectionLimit[p] # 0
    <2>1. Deadline(p) = Min({a, PaperTime})
      BY <1>5 DEF Deadline
    <2>2. a # 0
      BY <1>1, <1>5
    <2> HIDE DEF a
    <2>3. Deadline(p) \in {a, PaperTime} /\ Deadline(p) =< PaperTime
      BY <1>3, <2>1
    <2>4. Deadline(p) \in Nat /\ Deadline(p) # Unlimited
      BY <1>1, <1>2, <2>2, <2>3 DEF Unlimited
    <2>5. QED  BY <2>3, <2>4 DEF a
  <1>6. QED  BY <1>4, <1>5

(* A first entry writes the one deadline of the section; what was over     *)
(* stays over, and what was known stays true.  Past the paper's end and    *)
(* its grace no first entry is kept.                                       *)
LEMMA EnterKeeps ==
    ASSUME RoomInv, NEW p \in Parts, Enter(p), now' = now
    PROVE  /\ begun' \subseteq Parts /\ due' \in [Parts -> Nat]
           /\ \A q \in Parts : due'[q] # Unlimited => q \in begun'
           /\ \A q \in Parts : due[q] # Unlimited => due'[q] = due[q]
           /\ \A q \in Parts : PartIsOver(q) => PartIsOver(q)'
  <1> USE DEF RoomInv, RoomTypes
  <1>1. CASE Refused(p)
    <2>1. begun' = begun /\ due' = due /\ completed' = completed
      BY <1>1 DEF Enter
    <2>2. QED  BY <2>1 DEF PartIsOver
  <1>2. CASE ~ Refused(p)
    <2>1. /\ begun' = begun \cup {p} /\ completed \subseteq completed'
          /\ due' = [due EXCEPT ![p] = Deadline(p)]
      BY <1>2 DEF Enter
    <2>2. Deadline(p) \in Nat
      BY DeadlineBounds
    <2>3. due' \in [Parts -> Nat] /\ \A q \in Parts : q # p \/ p \in begun => due'[q] = due[q]
      BY <2>1, <2>2 DEF Deadline
    <2>4. \A q \in Parts : due[q] # Unlimited => due'[q] = due[q]
      BY <2>3
    <2>5. p \notin begun /\ SectionLimit[p] # 0 => ~ (now > PaperTime + Grace)
      <3>1. now \in Nat /\ PaperTime \in Nat /\ Grace \in Nat
        BY RoomAssumption
      <3>2. SUFFICES ASSUME p \notin begun, SectionLimit[p] # 0, now > PaperTime + Grace PROVE FALSE
        OBVIOUS
      <3>3. Deadline(p) # Unlimited /\ Deadline(p) =< PaperTime
        BY <3>2, DeadlineBounds
      <3>4. now > Deadline(p) + Grace
        BY <2>2, <3>1, <3>2, <3>3
      <3>5. QED  BY <1>2, <3>3, <3>4 DEF Refused
    <2>6. \A q \in Parts : PartIsOver(q) => PartIsOver(q)'
      BY <2>1, <2>4, <2>5 DEF PartIsOver
    <2>7. \A q \in Parts : due'[q] # Unlimited => q \in begun'
      BY <2>1, <2>3
    <2>8. QED  BY <2>1, <2>3, <2>4, <2>6, <2>7
  <1>3. QED  BY <1>1, <1>2

(* An entry that is refused finds the section over.                        *)
LEMMA RefusedIsOver ==
    ASSUME RoomInv, NEW p \in Parts, Refused(p)
    PROVE  PartIsOver(p)
  <1>1. /\ now \in Nat /\ PaperTime \in Nat /\ Grace \in Nat
        /\ SectionLimit[p] \in Nat /\ due[p] \in Nat
    BY RoomAssumption DEF RoomInv, RoomTypes
  <1>2. Deadline(p) # Unlimited /\ now > Deadline(p) + Grace
    BY DEF Refused
  <1>3. CASE p \in begun \/ SectionLimit[p] = 0
    <2>1. Deadline(p) = due[p]
      BY <1>3 DEF Deadline
    <2>2. QED  BY <1>1, <1>2, <2>1 DEF PartIsOver
  <1>4. CASE p \notin begun /\ SectionLimit[p] # 0
    <2>1. Deadline(p) \in {now + SectionLimit[p], PaperTime}
      BY <1>4, DeadlineBounds
    <2>2. Deadline(p) = PaperTime
      BY <1>1, <1>2, <2>1
    <2>3. QED  BY <1>2, <1>4, <2>2 DEF PartIsOver
  <1>5. QED  BY <1>3, <1>4

(* A clock sampled late shows zero no sooner than the paper's end.         *)
LEMMA SampledIsLate ==
    ASSUME RoomInv, NEW late \in Delays
    PROVE  Sampled(late) \in Nat /\ Sampled(late) >= PaperTime
  <1> DEFINE left == PaperTime - (now - late)
  <1>1. now \in Nat /\ PaperTime \in Nat
    BY RoomAssumption DEF RoomInv, RoomTypes
  <1>2. late \in Int /\ late >= 0
    BY DEF Delays
  <1>3. left \in Int
    BY <1>1, <1>2
  <1>4. Max({0, left}) \in Int /\ Max({0, left}) >= 0 /\ Max({0, left}) >= left
    <2> HIDE DEF left
    <2>1. \E x \in {0, left} : \A y \in {0, left} : x >= y
      <3>1. CASE left >= 0  BY <1>3, <3>1
      <3>2. CASE ~ (left >= 0)  BY <1>3, <3>2
      <3>3. QED  BY <3>1, <3>2
    <2>2. Max({0, left}) \in {0, left} /\ \A y \in {0, left} : Max({0, left}) >= y
      BY <2>1 DEF Max
    <2>3. QED  BY <1>3, <2>2
  <1> DEFINE m == Max({0, left})
  <1>5. Sampled(late) = now + m
    BY DEF Sampled
  <1>6. m \in Int /\ m >= 0 /\ m >= PaperTime - (now - late)
    BY <1>4
  <1> HIDE DEF m
  <1>7. QED  BY <1>1, <1>2, <1>5, <1>6

(* What a step leaves alone keeps its part of the invariant: a step of the *)
(* gates, of the answers or of a submit touches no deadline.               *)
LEMMA RoomUntouched ==
    ASSUME RoomInv, now' = now \/ now' = now + 1,
           UNCHANGED <<begun, due, completed, known, closedParts>>,
           here' \in Parts, entered' \subseteq Parts, entering' \subseteq Parts,
           seat' = "room" => zero' \in Nat /\ zero' >= PaperTime
    PROVE  RoomInv'
  <1>1. now \in Nat /\ now' \in Nat /\ now' >= now
    BY DEF RoomInv, RoomTypes
  <1>2. \A p \in closedParts : PartIsOver(p)'
    <2>1. SUFFICES ASSUME NEW p \in closedParts PROVE PartIsOver(p)'
      OBVIOUS
    <2>2. PartIsOver(p) /\ due[p] \in Nat
      BY DEF RoomInv, RoomTypes
    <2>3. CASE p \in completed
      BY <2>3 DEF PartIsOver
    <2>4. CASE due[p] # Unlimited /\ now >= due[p]
      BY <1>1, <2>2, <2>4 DEF PartIsOver
    <2>5. CASE p \notin begun /\ SectionLimit[p] # 0 /\ now > PaperTime + Grace
      BY <1>1, <2>5, RoomAssumption DEF PartIsOver
    <2>6. QED  BY <2>2, <2>3, <2>4, <2>5 DEF PartIsOver
  <1>3. QED  BY <1>1, <1>2 DEF RoomInv, RoomTypes

LEMMA VisitsAreParts ==
    ASSUME RoomInv, NEW p \in Parts, Visit(p)
    PROVE  here' \in Parts /\ entered' \subseteq Parts /\ entering' \subseteq Parts
  BY DEF RoomInv, RoomTypes, Visit

(* The runner that opens or resumes knows the deadlines of the snapshot,   *)
(* and starts at the furthest section that was entered.                    *)
LEMMA OpenedKeeps == ASSUME RoomInv, Opened PROVE RoomInv'
  <1> USE DEF RoomInv, RoomTypes
  <1>1. furthest \in Parts
    <2>1. CASE begun = {}
      BY <2>1, PartsAreAnInterval DEF furthest
    <2>2. CASE begun # {}
      <3>1. begun \subseteq 1 .. Cardinality(Parts) /\ Cardinality(Parts) \in Nat
        BY PartsAreAnInterval
      <3>2. Max(begun) \in begun
        BY <2>2, <3>1, Greatest
      <3>3. QED  BY <2>2, <3>2 DEF furthest
    <2>3. QED  BY <2>1, <2>2
  <1>2. here' \in Parts /\ entered' \subseteq Parts /\ entering' \subseteq Parts
    BY <1>1 DEF Opened
  <1>3. zero' \in Nat /\ zero' >= PaperTime
    BY SampledIsLate DEF Opened
  <1>4. UNCHANGED <<now, begun, due, completed>> /\ known' = due /\ closedParts' = Over
    BY DEF Opened
  <1>5. closedParts' \subseteq Parts /\ \A p \in closedParts' : PartIsOver(p)'
    BY <1>4 DEF Over, PartIsOver
  <1>6. QED  BY <1>2, <1>3, <1>4, <1>5

(* The answer to an entry tells the runner the deadline, or that it is     *)
(* past.                                                                   *)
LEMMA EnteredKeeps == ASSUME RoomInv, NEW p \in Parts, Entered(p) PROVE RoomInv'
  <1>1. UNCHANGED <<now, seat, zero, here, entered>> /\ Enter(p) /\ entering' \subseteq Parts
    BY DEF Entered, gateVars, RoomInv, RoomTypes
  <1>2. /\ begun' \subseteq Parts /\ due' \in [Parts -> Nat]
        /\ \A q \in Parts : due'[q] # Unlimited => q \in begun'
        /\ \A q \in Parts : due[q] # Unlimited => due'[q] = due[q]
        /\ \A q \in Parts : PartIsOver(q) => PartIsOver(q)'
    BY <1>1, EnterKeeps
  <1>3. CASE Refused(p)
    <2>1. closedParts' = closedParts \cup {p} /\ known' = known
      BY <1>3 DEF Entered
    <2>2. PartIsOver(p)
      BY <1>3, RefusedIsOver
    <2>3. QED  BY <1>1, <1>2, <2>1, <2>2 DEF RoomInv, RoomTypes
  <1>4. CASE ~ Refused(p)
    <2>1. known' = [known EXCEPT ![p] = due'[p]] /\ closedParts' = closedParts
      BY <1>4 DEF Entered
    <2>2. \A q \in Parts : known'[q] # Unlimited => known'[q] = due'[q]
      BY <1>2, <2>1 DEF RoomInv, RoomTypes
    <2>3. known' \in [Parts -> Nat]
      BY <1>2, <2>1 DEF RoomInv, RoomTypes
    <2>4. QED  BY <1>1, <1>2, <2>1, <2>2, <2>3 DEF RoomInv, RoomTypes
  <1>5. QED  BY <1>3, <1>4

(* An entry whose answer is lost, or that another tab or a recording made: *)
(* the server's deadlines grow, the runner knows nothing new.              *)
LEMMA EntersUnseen ==
    ASSUME RoomInv, NEW p \in Parts, Enter(p) \/ UNCHANGED <<begun, due, completed>>,
           UNCHANGED <<now, seat, zero, here, entered, known, closedParts>>,
           entering' \subseteq Parts
    PROVE  RoomInv'
  <1>1. CASE Enter(p)
    <2>1. /\ begun' \subseteq Parts /\ due' \in [Parts -> Nat]
          /\ \A q \in Parts : due'[q] # Unlimited => q \in begun'
          /\ \A q \in Parts : due[q] # Unlimited => due'[q] = due[q]
          /\ \A q \in Parts : PartIsOver(q) => PartIsOver(q)'
      BY <1>1, EnterKeeps
    <2>2. QED  BY <2>1 DEF RoomInv, RoomTypes
  <1>2. CASE UNCHANGED <<begun, due, completed>>
    BY <1>2, RoomUntouched DEF RoomInv, RoomTypes
  <1>3. QED  BY <1>1, <1>2

(* The section's own clock reaches zero: zero is not before the paper's    *)
(* end, so the section's zero is not before its deadline.                  *)
LEMMA TimeoutKeeps == ASSUME RoomInv, SectionTimeout PROVE RoomInv'
  <1>1. here \in Parts /\ known[here] # Unlimited /\ now >= zero - (PaperTime - known[here])
    BY DEF SectionTimeout, closesOnSectionExpiry, sectionClock, RoomInv, RoomTypes
  <1>2. seat = "room" /\ seat' = seat /\ UNCHANGED <<now, begun, due, completed, zero, known>>
    BY DEF SectionTimeout, attemptVars, gateVars
  <1>3. known[here] = due[here] /\ due[here] \in Nat /\ zero \in Nat /\ zero >= PaperTime
        /\ now \in Nat /\ PaperTime \in Nat
    BY <1>1, <1>2, RoomAssumption DEF RoomInv, RoomTypes
  <1>4. due[here] # Unlimited /\ now >= due[here]
    BY <1>1, <1>3
  <1>5. closedParts' \subseteq Parts /\ \A p \in closedParts' : PartIsOver(p)'
    BY <1>1, <1>2, <1>4 DEF SectionTimeout, PartIsOver, RoomInv
  <1>6. here' \in Parts /\ entered' \subseteq Parts /\ entering' \subseteq Parts
    <2>1. CASE advancesOnSectionExpiry(here)
      <3>1. here + 1 \in Parts
        <4>1. here \in 1 .. Cardinality(Parts) /\ here # Cardinality(Parts) /\ Cardinality(Parts) \in Nat
          BY <1>1, <2>1, PartsAreAnInterval DEF advancesOnSectionExpiry
        <4>2. here + 1 \in 1 .. Cardinality(Parts)
          BY <4>1
        <4>3. QED  BY <4>2, PartsAreAnInterval
      <3>2. Visit(here + 1)
        BY <2>1 DEF SectionTimeout
      <3>3. QED  BY <3>1, <3>2, VisitsAreParts
    <2>2. CASE ~ advancesOnSectionExpiry(here)
      BY <2>2 DEF SectionTimeout, placeVars, RoomInv, RoomTypes
    <2>3. QED  BY <2>1, <2>2
  <1>7. QED  BY <1>2, <1>5, <1>6 DEF RoomInv, RoomTypes

(* The answer to a flush sets the clock again, as the server sampled it.   *)
LEMMA FlushedKeeps == ASSUME RoomInv, Flushed PROVE RoomInv'
  <1>1. zero' \in Nat /\ zero' >= PaperTime
    BY SampledIsLate DEF Flushed
  <1>2. QED  BY <1>1, RoomUntouched DEF Flushed, attemptVars, gateVars, placeVars, RoomInv, RoomTypes

LEMMA RoomSteps == RoomInv /\ [RoomNext]_roomVars => RoomInv'
  <1> SUFFICES ASSUME RoomInv, [RoomNext]_roomVars PROVE RoomInv'
    OBVIOUS
  <1> USE DEF attemptVars, gateVars, placeVars, clockVars, sendVars
  <1>0. /\ now \in Nat /\ here \in Parts
        /\ entered \subseteq Parts /\ entering \subseteq Parts
        /\ seat = "room" => zero \in Nat /\ zero >= PaperTime
    BY DEF RoomInv, RoomTypes
  <1>1. CASE Tick
    BY <1>0, <1>1, RoomUntouched DEF Tick
  <1>2. CASE AutoSubmitted \/ Voided \/ Scored
    BY <1>0, <1>2, RoomUntouched DEF AutoSubmitted, Voided, Scored
  <1>3. CASE ListLoaded \/ widen \/ Probed
    BY <1>0, <1>3, RoomUntouched DEF ListLoaded, widen, Probed
  <1>4. CASE Approach \/ Back
    <2>1. seat' # "room" /\ UNCHANGED <<now, begun, due, completed>> /\ Cleared
      BY <1>4 DEF Approach, Back
    <2>2. QED  BY <2>1, PartsAreAnInterval DEF Cleared, RoomInv, RoomTypes, Unlimited
  <1>5. CASE Opened
    BY <1>5, OpenedKeeps
  <1>6. CASE NotOpened
    BY <1>0, <1>6, RoomUntouched DEF NotOpened
  <1>7. CASE \E p \in Parts : goTo(p)
    BY <1>0, <1>7, VisitsAreParts, RoomUntouched DEF goTo
  <1>8. CASE \E p \in Parts : Entered(p)
    BY <1>8, EnteredKeeps
  <1>9. CASE \E p \in Parts : EnterFails(p)
    <2>1. PICK p \in Parts : EnterFails(p)
      BY <1>9
    <2>2. QED  BY <1>0, <2>1, EntersUnseen DEF EnterFails
  <1>10. CASE \E p \in Parts : OtherTab(p)
    <2>1. PICK p \in Parts : OtherTab(p)
      BY <1>10
    <2>2. QED  BY <1>0, <2>1, EntersUnseen DEF OtherTab
  <1>12. CASE SectionTimeout
    BY <1>12, TimeoutKeeps
  <1>13. CASE Type
    BY <1>0, <1>13, RoomUntouched DEF Type
  <1>14. CASE Flushed
    BY <1>14, FlushedKeeps
  <1>15. CASE Play \/ PlayedOut
    BY <1>0, <1>15, RoomUntouched DEF Play, PlayedOut
  <1>16. CASE Granted
    BY <1>0, <1>16, EntersUnseen DEF Granted
  <1>17. CASE Finish \/ KeepWorking \/ doSubmit \/ RetryTimer
    BY <1>0, <1>17, RoomUntouched DEF Finish, KeepWorking, doSubmit, RetryTimer
  <1>18. CASE Submitted \/ SubmitFails \/ ResultLoaded \/ ResultFails
    BY <1>0, <1>18, RoomUntouched DEF Submitted, SubmitFails, ResultLoaded, ResultFails
  <1>19. CASE UNCHANGED roomVars
    BY <1>0, <1>19, RoomUntouched DEF roomVars
  <1>20. QED
    BY <1>1, <1>2, <1>3, <1>4, <1>5, <1>6, <1>7, <1>8, <1>9, <1>10, <1>12, <1>13, <1>14,
       <1>15, <1>16, <1>17, <1>18, <1>19 DEF RoomNext

-----------------------------------------------------------------------------
(* Regrades.  As long as no two deliveries of a job's messages have been   *)
(* handled at once, a job that was rescored is completed, and whoever      *)
(* handles an apply, or a plan that will write the status, has it not      *)
(* completed before it: the status a worker read is still good.            *)

Statuses == InFlight \cup Settled
JobRecs == [question : Questions, status : Statuses, dryRun : BOOLEAN, planned : Nat,
            rescored : Nat]
Actors == {"plan", "apply"}

RegradeTypes ==
    /\ keys \in [Questions -> Seq(Questions)]
    /\ keyHistory \in [Questions -> Int]
    /\ \A q \in Questions : keyHistory[q] =< Len(keys[q])
    /\ questionVersionXid \in Questions \cup {None} /\ subjectXid \in Questions \cup {None}
    /\ editor.of \in Questions \cup {None}
    /\ fixKey # None => fixKey.question \in Questions /\ fixKey.key \in Questions

QueueTypes ==
    /\ working \in [Workers -> {None} \cup
                     [actor : Actors, job : DOMAIN jobs, tries : Nat, seen : Statuses,
                      key : Nat \cup {None}, from : Nat \cup {None}]]
    /\ messages \subseteq [actor : Actors, job : DOMAIN jobs, tries : Nat]
    /\ scoredWith \in [Questions -> Nat]

PanelTypes ==
    /\ jobList \in Nat /\ 1 .. jobList \subseteq DOMAIN jobs
    /\ {opened, asking, apply} \subseteq {None} \cup DOMAIN jobs

Writes(w) == working[w].actor = "apply" \/ working[w].seen # "ready"
Calm(j) ==
    /\ jobs[j].rescored <= 1
    /\ jobs[j].rescored = 1 => jobs[j].status = "completed"
    /\ \A v, w \in Workers : Handles(v, j) /\ Handles(w, j) => v = w
    /\ \A w \in Workers : Handles(w, j) /\ Writes(w) => jobs[j].status # "completed"
OnceInv == \A j \in DOMAIN jobs : j \notin overlapped => Calm(j)

RegradesInv ==
    RegradeTypes /\ jobs \in Seq(JobRecs) /\ QueueTypes /\ PanelTypes /\ OnceInv

(* A sequence with one element changed, or with one more.                  *)
LEMMA Changed ==
    ASSUME NEW S, NEW s \in Seq(S), NEW i \in DOMAIN s, NEW d \in S
    PROVE  /\ [s EXCEPT ![i] = d] \in Seq(S)
           /\ Len([s EXCEPT ![i] = d]) = Len(s)
  OBVIOUS

LEMMA Longer ==
    ASSUME NEW S, NEW s \in Seq(S), NEW d \in S
    PROVE  Append(s, d) \in Seq(S) /\ Len(Append(s, d)) = Len(s) + 1
           /\ \A i \in 1 .. Len(s) : Append(s, d)[i] = s[i]
  OBVIOUS

LEMMA RegradesStart == RegradesInit => RegradesInv
  <1> SUFFICES ASSUME RegradesInit PROVE RegradesInv
    OBVIOUS
  <1>1. keys \in [Questions -> Seq(Questions)]
    BY DEF RegradesInit
  <1>2. \A q \in Questions : keyHistory[q] =< Len(keys[q])
    <2>1. SUFFICES ASSUME NEW q \in Questions PROVE keyHistory[q] =< Len(keys[q])
      OBVIOUS
    <2>2. keys[q] \in Seq(Questions) /\ keyHistory[q] = -1
      BY <1>1 DEF RegradesInit
    <2>3. Len(keys[q]) \in Nat
      BY <2>2
    <2>4. QED  BY <2>2, <2>3
  <1>3. jobs \in Seq(JobRecs) /\ DOMAIN jobs = {}
    BY DEF RegradesInit
  <1>4. scoredWith \in [Questions -> Nat]
    <2>1. \A q \in Questions : Len(keys[q]) \in Nat
      BY <1>1
    <2>2. QED  BY <2>1 DEF RegradesInit
  <1>5. QueueTypes /\ PanelTypes /\ OnceInv
    BY <1>3, <1>4 DEF RegradesInit, QueueTypes, PanelTypes, OnceInv
  <1>6. QED  BY <1>1, <1>2, <1>3, <1>5 DEF RegradesInit, RegradesInv, RegradeTypes

(* The types of what a worker reads.                                       *)
LEMMA KeysAreCounted ==
    ASSUME RegradesInv, NEW j \in DOMAIN jobs
    PROVE  /\ jobs[j] \in JobRecs /\ jobs[j].question \in Questions
           /\ Len(keys[jobs[j].question]) \in Nat
  <1>1. jobs[j] \in JobRecs
    BY DEF RegradesInv
  <1>2. jobs[j].question \in Questions
    BY <1>1 DEF JobRecs
  <1>3. keys[jobs[j].question] \in Seq(Questions)
    BY <1>2 DEF RegradesInv, RegradeTypes
  <1>4. QED  BY <1>1, <1>2, <1>3

(* What a worker holds when it handles something.                          *)
LEMMA DeliveryTyped ==
    ASSUME RegradesInv, NEW w \in Workers, working[w] # None
    PROVE  /\ working[w] \in [actor : Actors, job : DOMAIN jobs, tries : Nat, seen : Statuses,
                              key : Nat \cup {None}, from : Nat \cup {None}]
           /\ working[w].job \in DOMAIN jobs /\ working[w].actor \in Actors
           /\ working[w].tries \in Nat /\ working[w].seen \in Statuses
           /\ working[w].key \in Nat \cup {None}
  <1>1. working[w] \in [actor : Actors, job : DOMAIN jobs, tries : Nat, seen : Statuses,
                        key : Nat \cup {None}, from : Nat \cup {None}]
    BY DEF RegradesInv, QueueTypes
  <1>2. QED  BY <1>1

(* A new job: nobody handles it, and it has not been rescored.             *)
LEMMA StagedKeeps ==
    ASSUME RegradesInv, NEW q \in Questions, jobs' = Staged(q),
           messages' = Requested("plan", Len(jobs) + 1), UNCHANGED queue
    PROVE  jobs' \in Seq(JobRecs) /\ QueueTypes' /\ OnceInv'
  <1> DEFINE r == [question |-> q, status |-> "planning", dryRun |-> TRUE,
                   planned |-> 0, rescored |-> 0]
             n == Len(jobs) + 1
  <1>1. r \in JobRecs /\ r.rescored = 0
    BY DEF JobRecs, Statuses, InFlight, Settled
  <1>2. jobs' = Append(jobs, r)
    BY DEF Staged
  <1> HIDE DEF r
  <1>3. /\ jobs \in Seq(JobRecs) /\ jobs' \in Seq(JobRecs) /\ Len(jobs') = n
        /\ \A i \in 1 .. Len(jobs) : jobs'[i] = jobs[i]
    BY <1>1, <1>2, Longer DEF RegradesInv
  <1>4. /\ Len(jobs) \in Nat /\ DOMAIN jobs = 1 .. Len(jobs) /\ DOMAIN jobs' = 1 .. n
        /\ jobs'[n] = r
    BY <1>1, <1>2, <1>3
  <1>5. DOMAIN jobs \subseteq DOMAIN jobs' /\ n \in DOMAIN jobs' /\ n \notin DOMAIN jobs
    BY <1>4
  <1> HIDE DEF n
  <1>6. QueueTypes'
    <2>1. messages' \subseteq [actor : Actors, job : DOMAIN jobs', tries : Nat]
      BY <1>5 DEF Requested, Actors, n, RegradesInv, QueueTypes
    <2>2. ASSUME NEW w \in Workers
          PROVE  working[w] \in {None} \cup
                     [actor : Actors, job : DOMAIN jobs', tries : Nat, seen : Statuses,
                      key : Nat \cup {None}, from : Nat \cup {None}]
      BY <1>5, DeliveryTyped
    <2>3. working' = working /\ scoredWith' = scoredWith
      BY DEF queue
    <2>4. working' \in [Workers -> {None} \cup
                     [actor : Actors, job : DOMAIN jobs', tries : Nat, seen : Statuses,
                      key : Nat \cup {None}, from : Nat \cup {None}]]
      BY <2>2, <2>3 DEF RegradesInv, QueueTypes
    <2>5. QED  BY <2>1, <2>3, <2>4 DEF RegradesInv, QueueTypes
  <1>7. ASSUME NEW i \in DOMAIN jobs', i \notin overlapped' PROVE Calm(i)'
    <2>1. overlapped' = overlapped /\ working' = working
      BY DEF queue
    <2>2. CASE i \in DOMAIN jobs
      <3>1. Calm(i) /\ jobs'[i] = jobs[i]
        BY <1>3, <1>4, <1>7, <2>1, <2>2 DEF RegradesInv, OnceInv
      <3>2. QED  BY <2>1, <3>1 DEF Calm, Handles, Writes
    <2>3. CASE i = n
      <3>1. \A w \in Workers : ~ Handles(w, i)
        BY <1>5, <2>3, DeliveryTyped DEF Handles
      <3>2. QED  BY <1>1, <1>4, <2>1, <2>3, <3>1 DEF Calm, Handles
    <2>4. QED  BY <1>4, <2>2, <2>3 DEF n
  <1>8. QED  BY <1>3, <1>6, <1>7 DEF OnceInv

LEMMA StagedIsShown ==
    ASSUME RegradesInv, NEW q \in Questions, jobs' = Staged(q),
           opened' \in {opened, Len(jobs) + 1}, jobList' \in {jobList, Len(jobs) + 1},
           UNCHANGED <<asking, apply>>
    PROVE  PanelTypes'
  <1> DEFINE r == [question |-> q, status |-> "planning", dryRun |-> TRUE,
                   planned |-> 0, rescored |-> 0]
  <1>1. jobs' = Append(jobs, r)
    BY DEF Staged
  <1> HIDE DEF r
  <1>2. jobs \in Seq(JobRecs)
    BY DEF RegradesInv
  <1>3. /\ Len(jobs) \in Nat /\ DOMAIN jobs = 1 .. Len(jobs)
        /\ DOMAIN jobs' = 1 .. Len(jobs) + 1
    BY <1>1, <1>2
  <1>4. DOMAIN jobs \subseteq DOMAIN jobs' /\ Len(jobs) + 1 \in DOMAIN jobs'
    BY <1>3
  <1>5. QED  BY <1>3, <1>4 DEF RegradesInv, PanelTypes

(* One job changes, the deliveries of the others do not.                   *)
LEMMA OneJobChanges ==
    ASSUME RegradesInv, NEW j \in DOMAIN jobs, NEW r \in JobRecs, jobs' = [jobs EXCEPT ![j] = r],
           NEW w \in Workers,
           working' \in {working, [working EXCEPT ![w] = None]},
           overlapped' = overlapped, j \notin overlapped => Calm(j)'
    PROVE  jobs' \in Seq(JobRecs) /\ DOMAIN jobs' = DOMAIN jobs /\ OnceInv'
  <1>1. jobs \in Seq(JobRecs)
    BY DEF RegradesInv
  <1>2. jobs' \in Seq(JobRecs) /\ DOMAIN jobs' = DOMAIN jobs
    BY <1>1
  <1>3. \A v \in Workers : working'[v] = working[v] \/ working'[v] = None
    BY DEF RegradesInv, QueueTypes
  <1>4. ASSUME NEW i \in DOMAIN jobs, i # j, i \notin overlapped PROVE Calm(i)'
    <2>1. Calm(i) /\ jobs'[i] = jobs[i]
      BY <1>1, <1>4 DEF RegradesInv, OnceInv
    <2>2. QED  BY <1>3, <2>1 DEF Calm, Handles, Writes
  <1>5. QED  BY <1>2, <1>4 DEF OnceInv

(* With its delivery a worker lets go of the only hold on a calm job.      *)
LEMMA LetsGo ==
    ASSUME RegradesInv, NEW w \in Workers, NEW j \in DOMAIN jobs, Handles(w, j),
           j \notin overlapped, working' = [working EXCEPT ![w] = None]
    PROVE  \A v \in Workers : ~ Handles(v, j)'
  <1>1. SUFFICES ASSUME NEW v \in Workers, working'[v] # None, working'[v].job = j PROVE FALSE
    BY DEF Handles
  <1>2. v # w /\ working'[v] = working[v]
    BY <1>1 DEF RegradesInv, QueueTypes
  <1>3. Handles(v, j)
    BY <1>1, <1>2 DEF Handles
  <1>4. QED  BY <1>2, <1>3 DEF RegradesInv, OnceInv, Calm

LEMMA DeliveredKeeps ==
    ASSUME RegradesInv, NEW w \in Workers, NEW m \in messages, Delivered(w, m)
    PROVE  RegradesInv'
  <1> DEFINE status == jobs[m.job].status
             d == [actor |-> m.actor, job |-> m.job, tries |-> m.tries,
                   seen |-> status, key |-> None, from |-> None]
  <1>1. m.actor \in Actors /\ m.job \in DOMAIN jobs /\ m.tries \in Nat
    BY DEF RegradesInv, QueueTypes
  <1>2. status \in Statuses
    BY <1>1, KeysAreCounted DEF JobRecs
  <1>3. /\ working[w] = None /\ messages' = messages \ {m}
        /\ UNCHANGED <<keys, jobs, redelivered, scoredWith, keyForm, stageForm, panel>>
    BY DEF Delivered
  <1>4. CASE status \in Admits(m.actor)
    <2>1. /\ working' = [working EXCEPT ![w] = d]
          /\ overlapped' = overlapped \cup {j \in {m.job} : \E v \in Workers : Handles(v, j)}
      BY <1>4 DEF Delivered
    <2>2. d \in [actor : Actors, job : DOMAIN jobs, tries : Nat, seen : Statuses,
                 key : Nat \cup {None}, from : Nat \cup {None}]
      BY <1>1, <1>2
    <2>3. d.actor = m.actor /\ d.job = m.job /\ d.seen = status
      OBVIOUS
    <2>5. status # "completed"
      BY <1>1, <1>4 DEF Admits, Actors
    <2> HIDE DEF d, status
    <2>6. QueueTypes'
      BY <1>3, <2>1, <2>2 DEF RegradesInv, QueueTypes
    <2>7. /\ working'[w] = d
          /\ \A v \in Workers : v # w => working'[v] = working[v]
      BY <2>1 DEF RegradesInv, QueueTypes
    <2>8. ASSUME NEW i \in DOMAIN jobs, i \notin overlapped' PROVE Calm(i)'
      <3>1. i \notin overlapped /\ Calm(i)
        BY <2>1, <2>8 DEF RegradesInv, OnceInv
      <3>2. CASE i # m.job
        <4>1. ~ Handles(w, i)'
          BY <2>3, <2>7, <3>2 DEF Handles
        <4>2. QED  BY <1>3, <2>7, <3>1, <4>1 DEF Calm, Handles, Writes
      <3>3. CASE i = m.job
        <4>1. \A v \in Workers : ~ Handles(v, i)
          BY <2>1, <2>8, <3>3
        <4>2. \A v \in Workers : Handles(v, i)' => v = w
          BY <2>7, <4>1 DEF Handles
        <4>3. jobs'[i].status # "completed"
          BY <1>3, <2>5, <3>3 DEF status
        <4>4. QED  BY <1>3, <3>1, <4>2, <4>3 DEF Calm, Handles
      <3>4. QED  BY <3>2, <3>3
    <2>9. QED
      BY <1>3, <2>6, <2>8 DEF RegradesInv, OnceInv, RegradeTypes, PanelTypes, keyForm, stageForm, panel
  <1>5. CASE status \notin Admits(m.actor)
    <2>1. UNCHANGED <<working, overlapped>>
      BY <1>5 DEF Delivered
    <2>2. QueueTypes'
      BY <1>3, <2>1 DEF RegradesInv, QueueTypes
    <2>3. OnceInv'
      BY <1>3, <2>1 DEF RegradesInv, OnceInv, Calm, Handles, Writes
    <2>4. QED
      BY <1>3, <2>2, <2>3 DEF RegradesInv, RegradeTypes, PanelTypes, keyForm, stageForm, panel
  <1>6. QED  BY <1>4, <1>5

LEMMA RecomputedKeeps ==
    ASSUME RegradesInv, NEW w \in Workers, Recomputed(w)
    PROVE  RegradesInv'
  <1> DEFINE j == working[w].job
             q == jobs[j].question
             d == [working[w] EXCEPT !.key = Len(keys[q]), !.from = scoredWith[q]]
  <1>1. working[w] # None /\ j \in DOMAIN jobs
    BY DeliveryTyped DEF Recomputed
  <1>2. q \in Questions /\ Len(keys[q]) \in Nat /\ scoredWith[q] \in Nat
    BY <1>1, KeysAreCounted DEF RegradesInv, QueueTypes
  <1>3. d \in [actor : Actors, job : DOMAIN jobs, tries : Nat, seen : Statuses,
               key : Nat \cup {None}, from : Nat \cup {None}]
    <2> HIDE DEF q
    <2>1. QED  BY <1>1, <1>2, DeliveryTyped
  <1>4. d.actor = working[w].actor /\ d.job = working[w].job /\ d.seen = working[w].seen
    BY <1>1, DeliveryTyped
  <1>5. working' = [working EXCEPT ![w] = d]
    BY DEF Recomputed, RegradesInv, QueueTypes
  <1>6. UNCHANGED <<keys, jobs, messages, overlapped, scoredWith, keyForm, stageForm,
                  panel>>
    BY DEF Recomputed
  <1> HIDE DEF d, j, q
  <1>7. QueueTypes'
    BY <1>3, <1>5, <1>6 DEF RegradesInv, QueueTypes
  <1>8. \A v \in Workers, i \in DOMAIN jobs :
           /\ Handles(v, i)' => Handles(v, i)
           /\ Handles(v, i) => (Writes(v)' <=> Writes(v))
    BY <1>1, <1>4, <1>5 DEF Handles, Writes, RegradesInv, QueueTypes
  <1>9. OnceInv'
    <2>1. SUFFICES ASSUME NEW i \in DOMAIN jobs, i \notin overlapped PROVE Calm(i)'
      BY <1>6 DEF OnceInv
    <2>2. Calm(i)
      BY <2>1 DEF RegradesInv, OnceInv
    <2>3. QED  BY <1>6, <1>8, <2>2 DEF Calm
  <1>10. QED
    BY <1>6, <1>7, <1>9 DEF RegradesInv, RegradeTypes, PanelTypes, keyForm, stageForm, panel

LEMMA PlannedKeeps == ASSUME RegradesInv, NEW w \in Workers, Planned(w) PROVE RegradesInv'
  <1>0. PICK j \in DOMAIN jobs : j = working[w].job
    BY DeliveryTyped DEF Planned
  <1> DEFINE d == working[w]
             st == IF d.seen = "ready" THEN jobs[j].status ELSE "ready"
             r == [jobs[j] EXCEPT !.planned = d.key, !.status = st]
  <1>1. d.job = j /\ d # None /\ d.actor = "plan" /\ d.key # None /\ j \in DOMAIN jobs /\ d.key \in Nat
    BY <1>0, DeliveryTyped DEF Planned
  <1>2. jobs[j] \in JobRecs
    BY <1>1, KeysAreCounted
  <1>3. st \in Statuses
    BY <1>2 DEF JobRecs, Statuses, Settled
  <1>4. jobs' = [jobs EXCEPT ![j] = r]
    BY <1>1, <1>2 DEF Planned, JobRecs, RegradesInv
  <1>5. /\ working' = [working EXCEPT ![w] = None]
        /\ UNCHANGED <<keys, messages, redelivered, overlapped, scoredWith, keyForm, stageForm,
                       panel>>
    BY DEF Planned
  <1>6. Handles(w, j)
    BY <1>1 DEF Handles
  <1> HIDE DEF st
  <1>7. r \in JobRecs /\ r.rescored = jobs[j].rescored /\ r.status = st
    BY <1>1, <1>2, <1>3 DEF JobRecs
  <1>8. j \notin overlapped => Calm(j)'
    <2>1. SUFFICES ASSUME j \notin overlapped PROVE Calm(j)'
      OBVIOUS
    <2>2. Calm(j)
      BY <1>1, <2>1 DEF RegradesInv, OnceInv
    <2>3. \A v \in Workers : ~ Handles(v, j)'
      BY <2>1, <1>5, <1>6, LetsGo
    <2>4. jobs'[j] = r
      BY <1>1, <1>4 DEF RegradesInv
    <2>5. jobs[j].rescored = 1 => st = "completed"
      BY <1>6, <2>2 DEF Calm, Writes, st
    <2> HIDE DEF r
    <2>6. QED  BY <1>7, <2>2, <2>3, <2>4, <2>5 DEF Calm
  <1> HIDE DEF d, r
  <1>9. jobs' \in Seq(JobRecs) /\ DOMAIN jobs' = DOMAIN jobs /\ OnceInv'
    BY <1>1, <1>4, <1>5, <1>7, <1>8, OneJobChanges
  <1>10. QueueTypes'
    BY <1>5, <1>9 DEF RegradesInv, QueueTypes
  <1>11. QED
    BY <1>5, <1>9, <1>10 DEF RegradesInv, RegradeTypes, PanelTypes, keyForm, stageForm, panel

LEMMA AppliedKeeps == ASSUME RegradesInv, NEW w \in Workers, Applied(w) PROVE RegradesInv'
  <1>0. PICK j \in DOMAIN jobs : j = working[w].job
    BY DeliveryTyped DEF Applied
  <1> DEFINE d == working[w]
             n == jobs[j].rescored + 1
             r == [jobs[j] EXCEPT !.status = "completed", !.dryRun = FALSE, !.rescored = n]
  <1>1. d.job = j /\ d # None /\ d.actor = "apply" /\ d.key # None /\ j \in DOMAIN jobs /\ d.key \in Nat
    BY <1>0, DeliveryTyped DEF Applied
  <1>2. jobs[j] \in JobRecs /\ jobs[j].question \in Questions
    BY <1>1, KeysAreCounted
  <1>3. jobs[j].rescored \in Nat /\ n \in Nat
    BY <1>2 DEF JobRecs
  <1>4. jobs' = [jobs EXCEPT ![j] = r]
    BY <1>1, <1>2 DEF Applied, JobRecs, RegradesInv
  <1>5. /\ working' = [working EXCEPT ![w] = None]
        /\ UNCHANGED <<keys, messages, redelivered, overlapped, keyForm, stageForm, panel>>
    BY DEF Applied
  <1>6. Handles(w, j) /\ Writes(w)
    BY <1>1 DEF Handles, Writes
  <1>7. scoredWith' \in [Questions -> Nat]
    <2>1. scoredWith' = IF d.key = d.from THEN scoredWith
                        ELSE [scoredWith EXCEPT ![jobs[j].question] = d.key]
      BY <1>1 DEF Applied
    <2> HIDE DEF d
    <2>2. QED  BY <1>1, <1>2, <2>1 DEF RegradesInv, QueueTypes
  <1> HIDE DEF n
  <1>8. r \in JobRecs /\ r.rescored = n /\ r.status = "completed"
    BY <1>2, <1>3 DEF JobRecs, Statuses, Settled
  <1>9. j \notin overlapped => Calm(j)'
    <2>1. SUFFICES ASSUME j \notin overlapped PROVE Calm(j)'
      OBVIOUS
    <2>2. Calm(j)
      BY <1>1, <2>1 DEF RegradesInv, OnceInv
    <2>3. \A v \in Workers : ~ Handles(v, j)'
      BY <2>1, <1>5, <1>6, LetsGo
    <2>4. jobs'[j] = r
      BY <1>1, <1>4 DEF RegradesInv
    <2>5. jobs[j].rescored = 0
      BY <1>3, <1>6, <2>2 DEF Calm
    <2>6. n = 1
      BY <2>5 DEF n
    <2> HIDE DEF r
    <2>7. QED  BY <1>8, <2>3, <2>4, <2>6 DEF Calm
  <1> HIDE DEF d, r
  <1>10. jobs' \in Seq(JobRecs) /\ DOMAIN jobs' = DOMAIN jobs /\ OnceInv'
    BY <1>1, <1>4, <1>5, <1>8, <1>9, OneJobChanges
  <1>11. QueueTypes'
    BY <1>5, <1>7, <1>10 DEF RegradesInv, QueueTypes
  <1>12. QED
    BY <1>5, <1>10, <1>11 DEF RegradesInv, RegradeTypes, PanelTypes, keyForm, stageForm, panel

(* A failure takes back nothing that is committed: it is recorded only on  *)
(* a job still running or failed.                                          *)
LEMMA RaisedKeeps == ASSUME RegradesInv, NEW w \in Workers, Raised(w) PROVE RegradesInv'
  <1>0. PICK j \in DOMAIN jobs : j = working[w].job
    BY DeliveryTyped DEF Raised
  <1> DEFINE d == working[w]
             back == [actor |-> d.actor, job |-> j, tries |-> d.tries + 1]
  <1>1. d.job = j /\ d # None /\ j \in DOMAIN jobs /\ d.actor \in Actors /\ d.tries \in Nat
    BY <1>0, DeliveryTyped DEF Raised
  <1>2. jobs[j] \in JobRecs
    BY <1>1, KeysAreCounted
  <1>3. /\ working' = [working EXCEPT ![w] = None]
        /\ UNCHANGED <<keys, redelivered, overlapped, scoredWith, keyForm, stageForm, panel>>
        /\ messages' = messages \/ messages' = messages \cup {back}
    BY <1>1 DEF Raised
  <1>4. \/ jobs' = jobs
        \/ /\ jobs[j].status \in {"running", "failed"}
           /\ jobs' = [jobs EXCEPT ![j].status = "failed"]
    BY <1>1 DEF Raised
  <1>5. back \in [actor : Actors, job : DOMAIN jobs, tries : Nat]
    BY <1>1
  <1> HIDE DEF back
  <1>6. PICK r \in JobRecs :
          /\ jobs' = [jobs EXCEPT ![j] = r] /\ r.rescored = jobs[j].rescored
          /\ \/ r.status = jobs[j].status
             \/ r.status = "failed" /\ jobs[j].status # "completed"
    <2>1. CASE jobs' = jobs
      <3>1. jobs' = [jobs EXCEPT ![j] = jobs[j]]
        BY <1>1, <2>1 DEF RegradesInv
      <3>2. QED  BY <1>2, <3>1
    <2>2. CASE /\ jobs[j].status \in {"running", "failed"}
               /\ jobs' = [jobs EXCEPT ![j].status = "failed"]
      <3> DEFINE f == [jobs[j] EXCEPT !.status = "failed"]
      <3>1. f \in JobRecs /\ f.rescored = jobs[j].rescored /\ f.status = "failed"
        BY <1>2 DEF JobRecs, Statuses, Settled
      <3>2. jobs' = [jobs EXCEPT ![j] = f]
        BY <2>2
      <3> HIDE DEF f
      <3>3. QED  BY <2>2, <3>1, <3>2
    <2>3. QED  BY <1>4, <2>1, <2>2
  <1>7. j \notin overlapped => Calm(j)'
    <2>1. SUFFICES ASSUME j \notin overlapped PROVE Calm(j)'
      OBVIOUS
    <2>2. Calm(j)
      BY <1>1, <2>1 DEF RegradesInv, OnceInv
    <2>3. Handles(w, j)
      BY <1>1 DEF Handles
    <2>4. \A v \in Workers : ~ Handles(v, j)'
      BY <2>1, <1>3, <2>3, LetsGo
    <2>5. jobs'[j] = r
      BY <1>1, <1>6 DEF RegradesInv
    <2>6. QED  BY <1>6, <2>2, <2>4, <2>5 DEF Calm
  <1> HIDE DEF d
  <1>8. jobs' \in Seq(JobRecs) /\ DOMAIN jobs' = DOMAIN jobs /\ OnceInv'
    BY <1>1, <1>3, <1>6, <1>7, OneJobChanges
  <1>9. QueueTypes'
    BY <1>3, <1>5, <1>8 DEF RegradesInv, QueueTypes
  <1>10. QED
    BY <1>3, <1>8, <1>9 DEF RegradesInv, RegradeTypes, PanelTypes, keyForm, stageForm, panel

LEMMA RedeliveredKeeps == ASSUME RegradesInv, NEW w \in Workers, Redelivered(w) PROVE RegradesInv'
  <1> DEFINE back == [actor |-> working[w].actor, job |-> working[w].job,
                      tries |-> working[w].tries]
  <1>1. back \in [actor : Actors, job : DOMAIN jobs, tries : Nat]
    BY DeliveryTyped DEF Redelivered
  <1>2. /\ messages' = messages \cup {back}
        /\ UNCHANGED <<keys, jobs, overlapped, scoredWith, keyForm, stageForm, panel>>
        /\ working' = working \/ working' = [working EXCEPT ![w] = None]
    BY DEF Redelivered
  <1> HIDE DEF back
  <1>3. QueueTypes'
    BY <1>1, <1>2 DEF RegradesInv, QueueTypes
  <1>4. \A v \in Workers : working'[v] = working[v] \/ working'[v] = None
    BY <1>2 DEF RegradesInv, QueueTypes
  <1>5. OnceInv'
    <2>1. SUFFICES ASSUME NEW i \in DOMAIN jobs, i \notin overlapped PROVE Calm(i)'
      BY <1>2 DEF OnceInv
    <2>2. Calm(i)
      BY <2>1 DEF RegradesInv, OnceInv
    <2>3. QED  BY <1>2, <1>4, <2>2 DEF Calm, Handles, Writes
  <1>6. QED
    BY <1>2, <1>3, <1>5 DEF RegradesInv, RegradeTypes, PanelTypes, keyForm, stageForm, panel

(* An apply is accepted for a planned job only, wherever it was asked.     *)
LEMMA AnswerKeeps == ASSUME RegradesInv, ApplyAnswered PROVE RegradesInv'
  <1>1. jobs \in Seq(JobRecs)
    BY DEF RegradesInv
  <1>2. /\ UNCHANGED <<keys, queue, keyForm, stageForm, opened, impact>>
        /\ apply' = None /\ asking' = None /\ apply \in DOMAIN jobs
    BY DEF ApplyAnswered, RegradesInv, PanelTypes
  <1>3. CASE CanApply(apply) /\ ApplyRequested(apply) /\ apply \in DOMAIN jobs
    <2> DEFINE r == [jobs[apply] EXCEPT !.status = "running", !.dryRun = FALSE]
               m == [actor |-> "apply", job |-> apply, tries |-> 0]
    <2>1. jobs[apply] \in JobRecs
      BY <1>1, <1>3
    <2>2. /\ r \in JobRecs /\ r.rescored = jobs[apply].rescored /\ r.status = "running"
          /\ jobs[apply].status # "completed"
      BY <1>3, <2>1 DEF CanApply, JobRecs, Statuses, InFlight, Settled
    <2>3. jobs' = [jobs EXCEPT ![apply] = r] /\ messages' = messages \cup {m}
      BY <1>1, <1>3 DEF ApplyRequested, Requested
    <2>4. m \in [actor : Actors, job : DOMAIN jobs, tries : Nat]
      BY <1>3 DEF Actors
    <2> HIDE DEF r, m
    <2>5. jobs' \in Seq(JobRecs) /\ DOMAIN jobs' = DOMAIN jobs
          /\ jobs'[apply] = r /\ \A i \in DOMAIN jobs : i # apply => jobs'[i] = jobs[i]
      BY <1>1, <1>3, <2>2, <2>3, Changed
    <2>6. QueueTypes'
      BY <1>2, <2>3, <2>4, <2>5 DEF RegradesInv, QueueTypes, queue
    <2>7. ASSUME NEW i \in DOMAIN jobs, i \notin overlapped PROVE Calm(i)'
      <3>1. Calm(i) /\ working' = working
        BY <1>2, <2>7 DEF RegradesInv, OnceInv, queue
      <3>2. CASE i = apply
        BY <2>2, <2>5, <3>1, <3>2 DEF Calm, Handles, Writes
      <3>3. CASE i # apply
        BY <2>5, <3>1, <3>3 DEF Calm, Handles, Writes
      <3>4. QED  BY <3>2, <3>3
    <2>8. OnceInv'
      BY <1>2, <2>5, <2>7 DEF OnceInv, queue
    <2>9. QED
      BY <1>2, <2>5, <2>6, <2>8 DEF RegradesInv, RegradeTypes, PanelTypes, keyForm, stageForm, panel
  <1>4. CASE ~ (CanApply(apply) /\ ApplyRequested(apply))
    <2>1. jobs' = jobs /\ messages' = messages
      BY <1>4 DEF ApplyAnswered
    <2>2. QueueTypes' /\ OnceInv'
      BY <1>2, <2>1 DEF RegradesInv, QueueTypes, OnceInv, Calm, Handles, Writes, queue
    <2>3. QED
      BY <1>2, <2>1, <2>2 DEF RegradesInv, RegradeTypes, PanelTypes, keyForm, stageForm, panel
  <1>5. QED  BY <1>2, <1>3, <1>4

(* The forms.  An editor is filled from a version of a question's key, or  *)
(* by typing under a question on the screen.                               *)
LEMMA SeededTyped ==
    ASSUME RegradesInv, NEW c \in Questions \cup {None}, NEW h \in [Questions -> Int],
           \A q \in Questions : h[q] =< Len(keys[q])
    PROVE  Seeded(c, h).of \in Questions \cup {None}
  <1>1. CASE c # None /\ h[c] > 0 /\ editor.seededFrom # <<c, h[c]>>
    <2>1. c \in Questions /\ keys[c] \in Seq(Questions) /\ h[c] \in Int /\ h[c] =< Len(keys[c])
      BY <1>1 DEF RegradesInv, RegradeTypes
    <2>2. h[c] \in 1 .. Len(keys[c])
      BY <1>1, <2>1
    <2>3. keys[c][h[c]] \in Questions
      BY <2>1, <2>2
    <2>4. QED  BY <1>1, <2>3 DEF Seeded
  <1>2. CASE ~ (c # None /\ h[c] > 0 /\ editor.seededFrom # <<c, h[c]>>)
    <2>1. Seeded(c, h) = editor
      BY <1>2 DEF Seeded
    <2>2. QED  BY <2>1 DEF RegradesInv, RegradeTypes
  <1>3. QED  BY <1>1, <1>2

LEMMA KeySavedKeeps == ASSUME RegradesInv, KeySaved PROVE RegradesInv'
  <1> DEFINE q == fixKey.question
             k == fixKey.key
  <1>1. q \in Questions /\ k \in Questions /\ keys \in [Questions -> Seq(Questions)]
        /\ jobs \in Seq(JobRecs)
    BY DEF KeySaved, RegradesInv, RegradeTypes
  <1>2. keys' = FixedKeys(q, k) /\ jobs' = Staged(q) /\ fixKey' = None
        /\ UNCHANGED <<questionVersionXid, keyHistory, editor, subjectXid>>
    BY DEF KeySaved, FixAnswerKey
  <1> HIDE DEF q, k
  <1>3. jobs' \in Seq(JobRecs) /\ QueueTypes' /\ OnceInv' /\ PanelTypes'
    <2>1. messages' = Requested("plan", Len(jobs) + 1) /\ UNCHANGED queue
      BY DEF KeySaved, FixAnswerKey
    <2>2. jobs' \in Seq(JobRecs) /\ QueueTypes' /\ OnceInv'
      BY <1>1, <1>2, <2>1, StagedKeeps
    <2>3. /\ opened' \in {opened, Len(jobs) + 1} /\ jobList' \in {jobList, Len(jobs) + 1}
          /\ UNCHANGED <<asking, apply>>
      BY DEF KeySaved
    <2>4. QED  BY <1>1, <1>2, <2>2, <2>3, StagedIsShown
  <1>4. keys[q] \in Seq(Questions)
    BY <1>1
  <1> DEFINE longer == Append(keys[q], k)
  <1>5. longer \in Seq(Questions) /\ Len(longer) = Len(keys[q]) + 1
    BY <1>1, <1>4, Longer
  <1>6. keys' = [keys EXCEPT ![q] = longer]
    BY <1>2 DEF FixedKeys
  <1> HIDE DEF longer
  <1>7. keys' \in [Questions -> Seq(Questions)]
    BY <1>1, <1>5, <1>6
  <1>8. \A p \in Questions : keyHistory'[p] =< Len(keys'[p])
    <2>1. SUFFICES ASSUME NEW p \in Questions PROVE keyHistory[p] =< Len(keys'[p])
      BY <1>2
    <2>2. keyHistory[p] \in Int /\ keyHistory[p] =< Len(keys[p]) /\ keys[p] \in Seq(Questions)
      BY DEF RegradesInv, RegradeTypes
    <2>3. Len(keys[p]) \in Nat
      BY <2>2
    <2>4. CASE p = q
      BY <1>1, <1>5, <1>6, <2>2, <2>3, <2>4
    <2>5. CASE p # q
      BY <1>1, <1>6, <2>2, <2>5
    <2>6. QED  BY <2>4, <2>5
  <1>9. QED  BY <1>2, <1>3, <1>7, <1>8 DEF RegradesInv, RegradeTypes

(* Where the jobs and the queue are left alone.                            *)
LEMMA QueueUntouched ==
    ASSUME RegradesInv, UNCHANGED <<jobs, messages, queue>>
    PROVE  jobs' \in Seq(JobRecs) /\ QueueTypes' /\ OnceInv'
  BY DEF RegradesInv, QueueTypes, OnceInv, Calm, Handles, Writes, queue

LEMMA RegradesStep == RegradesInv /\ [RegradesNext]_regradeVars => RegradesInv'
  <1> SUFFICES ASSUME RegradesInv, [RegradesNext]_regradeVars PROVE RegradesInv'
    OBVIOUS
  <1> USE DEF regradeServer, keyForm, stageForm, panel
  <1>0. UNCHANGED <<jobs, messages, queue>> => jobs' \in Seq(JobRecs) /\ QueueTypes' /\ OnceInv'
    BY QueueUntouched
  <1>1. CASE ChooseQuestion
    <2>1. PICK q \in Questions \ {questionVersionXid} : Chosen(q)
      BY <1>1 DEF ChooseQuestion
    <2>2. Seeded(q, keyHistory).of \in Questions \cup {None}
      BY SeededTyped DEF RegradesInv, RegradeTypes
    <2>3. QED  BY <1>0, <2>1, <2>2 DEF Chosen, RegradesInv, RegradeTypes, PanelTypes
  <1>2. CASE KeyHistoryLoaded
    <2> DEFINE q == questionVersionXid
               h == [keyHistory EXCEPT ![q] = Len(keys[q])]
    <2>1. q \in Questions /\ keyHistory \in [Questions -> Int]
          /\ keys \in [Questions -> Seq(Questions)]
      BY <1>2 DEF KeyHistoryLoaded, RegradesInv, RegradeTypes
    <2>2. Len(keys[q]) \in Nat
      <3>1. keys[q] \in Seq(Questions)
        BY <2>1
      <3>2. QED  BY <3>1
    <2>3. h \in [Questions -> Int] /\ \A p \in Questions : h[p] =< Len(keys[p])
      BY <2>1, <2>2 DEF RegradesInv, RegradeTypes
    <2>4. keyHistory' = h /\ editor' = Seeded(q, h)
      BY <1>2 DEF KeyHistoryLoaded
    <2> HIDE DEF h
    <2>5. Seeded(q, h).of \in Questions \cup {None}
      BY <2>1, <2>3, SeededTyped
    <2>6. QED  BY <1>0, <1>2, <2>3, <2>4, <2>5
                 DEF KeyHistoryLoaded, RegradesInv, RegradeTypes, PanelTypes
  <1>3. CASE EditKey
    <2>1. editor'.of \in Questions \cup {None}
      BY <1>3 DEF EditKey, RegradesInv, RegradeTypes
    <2>2. QED  BY <1>0, <1>3, <2>1 DEF EditKey, RegradesInv, RegradeTypes, PanelTypes
  <1>4. CASE SaveKey \/ KeyRefused
    <2>1. fixKey' # None => fixKey'.question \in Questions /\ fixKey'.key \in Questions
      BY <1>4 DEF SaveKey, KeyRefused, RegradesInv, RegradeTypes
    <2>2. QED  BY <1>0, <1>4, <2>1 DEF SaveKey, KeyRefused, RegradesInv, RegradeTypes,
                                       PanelTypes
  <1>5. CASE KeySaved
    BY <1>5, KeySavedKeeps
  <1>6. CASE Stage
    <2>1. subjectXid \in Questions /\ jobs' = Staged(subjectXid)
      BY <1>6 DEF Stage, RegradesInv, RegradeTypes
    <2>2. jobs' \in Seq(JobRecs) /\ QueueTypes' /\ OnceInv'
      BY <1>6, <2>1, StagedKeeps DEF Stage
    <2>3. PanelTypes'
      BY <1>6, <2>1, StagedIsShown DEF Stage
    <2>4. QED  BY <1>6, <2>2, <2>3 DEF Stage, RegradesInv, RegradeTypes
  <1>7. CASE ChooseSubject \/ JobsLoaded \/ Toggle \/ ImpactLoaded
    <2>1. jobs \in Seq(JobRecs) /\ Len(jobs) \in Nat /\ DOMAIN jobs = 1 .. Len(jobs)
      BY DEF RegradesInv
    <2>2. PanelTypes'
      BY <1>7, <2>1 DEF ChooseSubject, JobsLoaded, Toggle, ImpactLoaded, RegradesInv,
                        PanelTypes
    <2>3. QED  BY <1>0, <1>7, <2>2 DEF ChooseSubject, JobsLoaded, Toggle, ImpactLoaded,
                                       RegradesInv, RegradeTypes
  <1>8. CASE AskApply \/ CancelApply \/ ConfirmApply
    <2>1. PanelTypes'
      BY <1>8 DEF AskApply, CancelApply, ConfirmApply, Applicable, RegradesInv, PanelTypes
    <2>2. QED  BY <1>0, <1>8, <2>1 DEF AskApply, CancelApply, ConfirmApply, RegradesInv,
                                       RegradeTypes
  <1>9. CASE ApplyAnswered
    BY <1>9, AnswerKeeps
  <1>10. CASE \E w \in Workers : \/ \E m \in messages : Delivered(w, m)
                                \/ Recomputed(w) \/ Planned(w) \/ Applied(w)
                                \/ Raised(w) \/ Redelivered(w)
    BY <1>10, DeliveredKeeps, RecomputedKeeps, PlannedKeeps, AppliedKeeps, RaisedKeeps,
       RedeliveredKeeps
  <1>11. CASE UNCHANGED regradeVars
    BY <1>0, <1>11 DEF regradeVars, RegradesInv, RegradeTypes, PanelTypes
  <1>12. QED
    BY <1>1, <1>2, <1>3, <1>4, <1>5, <1>6, <1>7, <1>8, <1>9, <1>10, <1>11 DEF RegradesNext

-----------------------------------------------------------------------------
(* The screens together.                                                   *)

TimedInv == RoomInv /\ RegradesInv

LEMMA TimedInvariance == Spec => []TimedInv
  <1>1. Init => TimedInv
    BY RoomStarts, RegradesStart DEF Init, TimedInv
  <1>2. TimedInv /\ [Next]_allVars => TimedInv'
    <2>1. [Next]_allVars => [RoomNext]_roomVars /\ [RegradesNext]_regradeVars
      BY DEF Next, allVars
    <2>2. QED  BY <2>1, RoomSteps, RegradesStep DEF TimedInv
  <1>3. QED  BY <1>1, <1>2, PTL DEF Spec

(* ClosedIsOver: for any sections, limits, grace and delays of the answers *)
(* that set its clock, the runner calls no section over before the server's*)
(* clock has reached its deadline, unless the section was left behind or   *)
(* first entered when the paper's own time was up, where enter_section     *)
(* rolls the deadline it wrote back with its refusal.                      *)
THEOREM NoSectionClosesEarly == Spec => []ClosedIsOver
  <1>1. TimedInv => ClosedIsOver
    BY DEF TimedInv, RoomInv, PartIsOver, ClosedIsOver
  <1>2. QED  BY <1>1, TimedInvariance, PTL

(* RescoredOnce: for any number of jobs, key versions, workers, retries and *)
(* redeliveries, a job's scores are committed at most once unless two       *)
(* deliveries of its messages were handled at once.                         *)
THEOREM AJobRescoresOnce == Spec => []RescoredOnce
  <1>1. RegradesInv => RescoredOnce
    BY DEF RegradesInv, OnceInv, Calm, RescoredOnce
  <1>2. QED  BY <1>1, TimedInvariance, PTL DEF TimedInv
=============================================================================
