------------------------------- MODULE Handoff -------------------------------
(***************************************************************************)
(* What a reader of smw promises to its user: every sample it took from    *)
(* the middleware is given to a callback once, in the order it was taken,  *)
(* and without anyone asking, as long as the reader is open.               *)
(***************************************************************************)
EXTENDS Naturals, Sequences

CONSTANT Item

VARIABLES taken, handed, open

vars == <<taken, handed, open>>

Init == taken = <<>> /\ handed = <<>> /\ open = TRUE

Take ==
  /\ \E i \in Item : taken' = Append(taken, i)
  /\ UNCHANGED <<handed, open>>

Hand ==
  /\ Len(handed) < Len(taken)
  /\ handed' = Append(handed, taken[Len(handed) + 1])
  /\ UNCHANGED <<taken, open>>

\* From now on nothing more is promised, and nothing more is taken twice.
Close == open /\ open' = FALSE /\ UNCHANGED <<taken, handed>>

Next == Take \/ Hand \/ Close

\* What is never done, and with it what is always done.
Safety == Init /\ [][Next]_vars
Spec == Safety /\ WF_vars(open /\ Hand)

=============================================================================
