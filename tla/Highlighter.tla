---------------------------- MODULE Highlighter -----------------------------
(***************************************************************************)
(* What the highlighter of the exam does to a passage: a set of painted    *)
(* characters.  The passage's are numbered from 0; those of the title and  *)
(* the hint above it are the shift numbers before it, -shift .. -1.  To    *)
(* highlight an interval paints the one shift characters further on, and   *)
(* to clear at a character wipes the whole unbroken run that the character *)
(* shift further on is in.  With a shift of 0 it would be what a student   *)
(* sees selected and under the pointer.                                    *)
(***************************************************************************)
EXTENDS Integers

CONSTANT Positions       \* the offsets the text of a pane can have

VARIABLES painted, shift

Places == {p - shift : p \in Positions}      \* where one can select or click

HLInit == painted = {}

Paint(x, y) == painted' = painted \cup (x + shift .. y + shift - 1)

\* the characters joined to o by highlighted ones
Run(o) == {i \in painted : \A j \in Positions :
             (i <= j /\ j <= o) \/ (o <= j /\ j <= i) => j \in painted}

Wipe(x) == x + shift \in painted /\ painted' = painted \ Run(x + shift)

Forget == painted' = {}

HLNext ==
  \/ Forget
  \/ \E x, y \in Places : x < y /\ Paint(x, y)
  \/ \E x \in Places : Wipe(x)

HLSpec == HLInit /\ [][HLNext]_painted
=============================================================================
