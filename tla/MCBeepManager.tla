---------------------------- MODULE MCBeepManager -----------------------------
(* The host manager of Beep on small instances. *)
EXTENDS BeepManager, TLC

Symmetry == Permutations(Ids) \cup Permutations(Revs)

\* The plans that wait.  One made where nothing is installed, or for what is not
\* there any more, is refused, or does what a plan made later does.
WaitingMatters == asked # Idle => asked.id # None /\ asked.id = InstanceId
=============================================================================
