----------------------------- MODULE AnswerBook -----------------------------
(***************************************************************************)
(* What the resume ledger of a collection promises (prove/collect.py, the  *)
(* `resume` argument): answers are added and kept.  A kill may cut one     *)
(* line short; the write after it may cost one answer that could still be  *)
(* read, and no more.                                                      *)
(***************************************************************************)
EXTENDS Integers, FiniteSets

CONSTANT Questions

VARIABLES book,   \* the questions whose answer can be read back
          debt    \* 1 from a kill that cut a line until the next write

TypeOK == book \subseteq Questions /\ debt \in {0, 1}

Init == book = {} /\ debt = 0

Add(q) == debt = 0 /\ book' = book \cup {q} /\ UNCHANGED debt
Cut(q) == debt = 0 /\ debt' = 1 /\ book' \in {book, book \cup {q}}
\* The answer being written is spoiled with the line it runs into, and may be
\* cut short itself.
Spoil(q) == debt = 1 /\ debt' \in {0, 1} /\ book' \in {book, book \ {q}}

Next == \E q \in Questions : Add(q) \/ Cut(q) \/ Spoil(q)
Spec == Init /\ [][Next]_<<book, debt>>
=============================================================================
