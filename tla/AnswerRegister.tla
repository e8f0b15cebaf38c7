--------------------------- MODULE AnswerRegister ---------------------------
(***************************************************************************)
(* What the answer path promises a student, whatever the network and the   *)
(* browser do: each slot of the paper is a register that moves forward     *)
(* through what was typed.  Two requests that overlap on the server may    *)
(* take a slot back; that slot is named from then on.  Once the paper is   *)
(* marked a slot moves at most once more, to rows that were written before *)
(* and committed after.                                                    *)
(***************************************************************************)
EXTENDS Integers

CONSTANT Slots

VARIABLES
    newest,   \* the last keystroke in each slot
    held,     \* the keystroke each slot's answer comes from, 0 for none
    marked,   \* "no", or whose submission was marked
    settled,  \* slots that have been written since, and move no more
    raced     \* slots two requests have overlapped in

vars == <<newest, held, marked, settled, raced>>

Init ==
    /\ newest = [s \in Slots |-> 0]
    /\ held = [s \in Slots |-> 0]
    /\ marked = "no"
    /\ settled = {} /\ raced = {}

Keystroke ==
    \E s \in Slots :
        /\ newest' = [newest EXCEPT ![s] = newest'[s]]
        /\ newest'[s] > newest[s]
        /\ UNCHANGED <<held, marked, settled, raced>>

\* A register moves on to something typed later in its slot, unless an
\* overlap takes it back to any other thing typed there.
Moves(s) ==
    /\ s \notin settled
    /\ held'[s] \in (IF s \in raced' THEN 0 ELSE held[s]) .. newest[s]

Written == {s \in Slots : held'[s] # held[s]}

Store ==
    /\ \A s \in Written : Moves(s)
    /\ raced \subseteq raced'
    /\ settled \subseteq settled'
    /\ marked' # "no" => Written \subseteq settled'
    /\ UNCHANGED newest

\* A submission may bring the last answers with it, and one that was running
\* when another was marked is marked again.
Mark == Store /\ marked' \in {"user", "auto_expiry"}

Next == Keystroke \/ (Store /\ UNCHANGED marked) \/ Mark

Spec == Init /\ [][Next]_vars
=============================================================================
