---------------------------- MODULE MCApprovals ------------------------------
(* Approvals for TLC: ids, turns and requests are interchangeable.          *)
EXTENDS Approvals, TLC

Symmetry ==
    Permutations(Entries) \cup Permutations(CallIds)
    \cup Permutations(Turns) \cup Permutations(Requests)
==============================================================================
