---- MODULE MCTurnStream ----
(* Viewers are interchangeable, so runs without liveness reduce by symmetry. *)
EXTENDS TurnStream, TLC

Symmetry == Permutations(Viewers)
=============================
