---------------------------- MODULE MCReactivation ---------------------------
(* Small instances of Reactivation for TLC.                                *)
EXTENDS Reactivation, TLC

\* Timers, turns of one kind, conversations and operators are interchangeable.
Symmetry ==
    Permutations(Timers) \cup Permutations(PostTurns) \cup
    Permutations(TimerTurns) \cup Permutations(Convs) \cup Permutations(Operators)
==============================================================================
