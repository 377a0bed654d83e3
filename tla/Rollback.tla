------------------------------- MODULE Rollback -------------------------------
(***************************************************************************)
(* The swap transaction by which the Beep manager puts a recovery snapshot *)
(* in the place of the installed files                                     *)
(* (Manager._restore_snapshot_transactionally): copies of the snapshot are *)
(* staged beside their targets, the services are stopped, every target is  *)
(* renamed away and its copy renamed into its place, and the restored      *)
(* installation is checked and started.  A failure before the end undoes   *)
(* the renames in reverse order; each undoing may fail as well.            *)
(*                                                                         *)
(* One step is one rename, or one phase that leaves the targets alone.     *)
(* The process may be killed at any point.                                 *)
(***************************************************************************)
EXTENDS Naturals

CONSTANTS
    N,        \* number of swaps: installed trees, entries of the state root,
              \* host files
    InState   \* swaps of the state root, staged and kept in the transaction

ASSUME NAssumption == N \in Nat \ {0}
ASSUME InStateAssumption == InState \subseteq 1..N

VARIABLES
    prior,      \* the swaps whose target was present at the start
    snap,       \* the swaps that the snapshot has a copy for
    degraded,   \* allow_degraded: called by a failed convergence
    target, staged, previous,   \* what is at the three paths of each swap
    moved, placed,              \* target_moved, staged_moved
    begun,                      \* completion_started
    failed,     \* the swaps whose reversal failed
    pc, at,     \* the phase, and the swap it is at
    units,      \* the services: "as_found", "as_saved" in the snapshot,
                \* stopped, or unknown
    outcome

record       == <<prior, snap, degraded>>
files        == <<target, staged, previous>>
flags        == <<moved, placed, failed>>
rollbackVars == <<record, files, flags, begun, pc, at, units, outcome>>

-------------------------------------------------------------------------------
Swaps == 1..N

Contents == {"none", "old", "new"}

Phases == {"stage", "stop", "away", "place", "finish", "complete",
           "unplace", "unmove", "settle", "commit", "over"}

Outcomes == {"none", "not_staged", "restored", "unrestored", "committed", "degraded"}

TypeOK ==
    /\ prior \in SUBSET Swaps /\ snap \in SUBSET Swaps /\ degraded \in BOOLEAN
    /\ target \in [Swaps -> Contents]
    /\ staged \in [Swaps -> Contents]
    /\ previous \in [Swaps -> Contents]
    /\ moved \in SUBSET Swaps /\ placed \in SUBSET Swaps /\ failed \in SUBSET Swaps
    /\ begun \in BOOLEAN
    /\ pc \in Phases /\ at \in 0..N + 1
    /\ units \in {"as_found", "as_saved", "stopped", "unknown"}
    /\ outcome \in Outcomes

Nowhere == [i \in Swaps |-> "none"]

FoundAt(i) == IF i \in prior THEN "old" ELSE "none"
SavedAt(i) == IF i \in snap THEN "new" ELSE "none"

\* Any target may be missing, and the snapshot may have a copy for it or not.
RollbackInit ==
    /\ prior \in SUBSET Swaps /\ snap \in SUBSET Swaps /\ degraded \in BOOLEAN
    /\ target = [i \in Swaps |-> FoundAt(i)]
    /\ staged = Nowhere /\ previous = Nowhere
    /\ moved = {} /\ placed = {} /\ failed = {}
    /\ begun = FALSE /\ pc = "stage" /\ at = 1
    /\ units = "as_found" /\ outcome = "none"

-------------------------------------------------------------------------------
(* Forward.                                                                *)

Stage ==
    /\ pc = "stage" /\ at \in Swaps
    /\ staged' = [staged EXCEPT ![at] = SavedAt(at)]
    /\ at' = at + 1
    /\ UNCHANGED <<record, target, previous, flags, pc, units, begun, outcome>>

AllStaged ==
    /\ pc = "stage" /\ at = N + 1
    /\ pc' = "stop"
    /\ UNCHANGED <<record, files, flags, at, units, begun, outcome>>

\* A copy fails: what was staged is removed, as far as that works.
StageFails ==
    /\ pc = "stage"
    /\ pc' = "over" /\ outcome' = "not_staged"
    /\ \E kept \in SUBSET Swaps :
          staged' = [i \in Swaps |-> IF i \in kept THEN staged[i] ELSE "none"]
    /\ UNCHANGED <<record, target, previous, flags, at, units, begun>>

\* _stop_services also disables the units, so that they stay down after a boot.
StopServices_skipped ==        \* mutant: the services are left running
    /\ pc = "stop"
    /\ pc' = "away" /\ at' = 1
    /\ UNCHANGED <<record, files, flags, units, begun, outcome>>

StopServices ==
    /\ pc = "stop"
    /\ units' = "stopped"
    /\ pc' = "away" /\ at' = 1
    /\ UNCHANGED <<record, files, flags, begun, outcome>>

\* The except clause: undo from the last swap on.
Undo == pc' = "unplace" /\ at' = N

StopFails ==
    /\ pc = "stop"
    /\ units' \in {"as_found", "unknown"}
    /\ Undo
    /\ UNCHANGED <<record, files, flags, begun, outcome>>

\* _apply_rollback_swaps, first rename: there may be nothing to move.
Away ==
    /\ pc = "away" /\ at \in Swaps
    /\ IF target[at] = "none"
       THEN UNCHANGED <<target, previous, moved>>
       ELSE /\ previous' = [previous EXCEPT ![at] = target[at]]
            /\ target' = [target EXCEPT ![at] = "none"]
            /\ moved' = moved \cup {at}
    /\ pc' = "place"
    /\ UNCHANGED <<record, staged, placed, failed, at, units, begun, outcome>>

Place ==
    /\ pc = "place" /\ at \in Swaps
    /\ IF at \notin snap
       THEN UNCHANGED <<target, staged, placed>>
       ELSE /\ target' = [target EXCEPT ![at] = staged[at]]
            /\ staged' = [staged EXCEPT ![at] = "none"]
            /\ placed' = placed \cup {at}
    /\ pc' = "away" /\ at' = at + 1
    /\ UNCHANGED <<record, previous, moved, failed, units, begun, outcome>>

AllPlaced ==
    /\ pc = "away" /\ at = N + 1
    /\ pc' = "finish"
    /\ UNCHANGED <<record, files, flags, at, units, begun, outcome>>

\* A rename fails, or ownership cannot be restored.
ApplyFails ==
    /\ pc \in {"away", "place", "finish"}
    /\ Undo
    /\ UNCHANGED <<record, files, flags, units, begun, outcome>>

\* Ownership and permissions are restored, and completion starts.
Finish ==
    /\ pc = "finish"
    /\ pc' = "complete" /\ begun' = TRUE
    /\ UNCHANGED <<record, files, flags, at, units, outcome>>

\* _complete_rollback: the restored manager finds no fault and its services
\* come up.
CompletionHolds ==
    /\ pc = "complete"
    /\ units' = "as_saved"
    /\ pc' = "commit"
    /\ UNCHANGED <<record, files, flags, at, begun, outcome>>

\* It finds one, or a service does not come up: all are stopped, and only a
\* rollback after a failed convergence goes on.
CompletionFails ==
    /\ pc = "complete"
    /\ units' \in {"stopped", "unknown"}
    /\ IF degraded /\ units' = "stopped"
       THEN pc' = "commit" /\ UNCHANGED at
       ELSE Undo
    /\ UNCHANGED <<record, files, flags, begun, outcome>>

-------------------------------------------------------------------------------
(* Backward: _reverse_rollback_swaps.                                      *)

Unplaced_left == UNCHANGED <<target, staged>>   \* mutant: the copy is left

\* The copy goes back to its staging path.
Unplaced ==
    IF at \in placed /\ target[at] # "none"
    THEN /\ staged' = [staged EXCEPT ![at] = target[at]]
         /\ target' = [target EXCEPT ![at] = "none"]
    ELSE UNCHANGED <<target, staged>>

Unplace ==
    /\ pc = "unplace" /\ at \in Swaps
    /\ Unplaced
    /\ pc' = "unmove"
    /\ UNCHANGED <<record, previous, flags, at, units, begun, outcome>>

\* The old target comes back.
Unmove ==
    /\ pc = "unmove" /\ at \in Swaps
    /\ at \in moved => previous[at] # "none"
    /\ IF at \in moved
       THEN /\ target' = [target EXCEPT ![at] = previous[at]]
            /\ previous' = [previous EXCEPT ![at] = "none"]
       ELSE UNCHANGED <<target, previous>>
    /\ pc' = "unplace" /\ at' = at - 1
    /\ UNCHANGED <<record, staged, flags, units, begun, outcome>>

\* A rename fails, or the old target is gone: noted, and the next swap follows.
Noted == failed \cup {at}

UndoFails ==
    /\ at \in Swaps
    /\ \/ pc = "unplace" /\ at \in placed /\ target[at] # "none"
       \/ pc = "unmove" /\ at \in moved
    /\ failed' = Noted
    /\ pc' = "unplace" /\ at' = at - 1
    /\ UNCHANGED <<record, files, moved, placed, units, begun, outcome>>

Undone ==
    /\ pc = "unplace" /\ at = 0
    /\ pc' = "settle"
    /\ UNCHANGED <<record, files, flags, at, units, begun, outcome>>

-------------------------------------------------------------------------------
(* The end.                                                                *)

\* _cleanup_rollback_artifacts removes staged copies and, with the directory of
\* the transaction, what the state root's entries were moved to.
CleanedUp(kept) ==
    /\ staged' = [i \in Swaps |-> IF i \in kept THEN staged[i] ELSE "none"]
    /\ previous' = [i \in Swaps |->
                      IF i \in InState \ kept THEN "none" ELSE previous[i]]

MustKeep_nothing == FALSE      \* mutant: cleaned up in any case
MustKeep == failed # {}

\* Some reversal failed (of a swap, or of the state root's mode): the error
\* names the paths, everything is left where it is, and the services are
\* stopped if that is possible.
Unrestored ==
    /\ pc = "settle"
    /\ outcome' = "unrestored" /\ pc' = "over"
    /\ units' \in {"stopped", "unknown"}
    /\ UNCHANGED <<record, files, flags, at, begun>>

\* The old installation is back.  The services are stopped after a convergence
\* or a completion that failed, otherwise put back as they were found; if that
\* fails, they are stopped if that is possible.
Restored ==
    /\ pc = "settle" /\ ~MustKeep
    /\ outcome' = "restored" /\ pc' = "over"
    /\ \E kept \in SUBSET Swaps : CleanedUp(kept)
    /\ units' \in {"stopped", "unknown"} \cup {s \in {"as_found"} : ~(degraded \/ begun)}
    /\ UNCHANGED <<record, target, flags, at, begun>>

\* The rollback stands; the old files are removed, as far as that works.
Commit ==
    /\ pc = "commit"
    /\ outcome' = IF units = "stopped" THEN "degraded" ELSE "committed"
    /\ pc' = "over"
    /\ \E kept \in SUBSET Swaps :
          /\ staged' = [i \in Swaps |-> IF i \in kept THEN staged[i] ELSE "none"]
          /\ previous' = [i \in Swaps |-> IF i \in kept THEN previous[i] ELSE "none"]
          /\ \/ units' = units
             \/ kept # {} /\ units = "as_saved" /\ units' \in {"stopped", "unknown"}
    /\ UNCHANGED <<record, target, flags, at, begun>>

-------------------------------------------------------------------------------
Forward ==
    \/ Stage \/ AllStaged \/ StageFails \/ StopServices \/ StopFails
    \/ Away \/ Place \/ AllPlaced \/ ApplyFails
    \/ Finish \/ CompletionHolds \/ CompletionFails

Backward == Unplace \/ Unmove \/ UndoFails \/ Undone

RollbackNext == Forward \/ Backward \/ Unrestored \/ Restored \/ Commit

\* No fairness: a process that is killed takes no further step, and every state
\* is one it may leave behind.
RollbackSpec == RollbackInit /\ [][RollbackNext]_rollbackVars

-------------------------------------------------------------------------------
\* What the manager reports is what the disk holds: after a failure that it
\* calls restored every target is as it was found, missing ones included, after
\* a rollback every target is as the snapshot has it ("reverses already-applied
\* swaps if a later application or ownership step fails", docs/UPGRADING.md).
FilesFitOutcome ==
    /\ outcome \in {"not_staged", "restored"} => \A i \in Swaps : target[i] = FoundAt(i)
    /\ outcome \in {"committed", "degraded"} => \A i \in Swaps : target[i] = SavedAt(i)

\* Until a rollback stands, every installed file or tree exists, in its place or
\* beside it, whichever renames fail and wherever the process is killed.
OldIsKept ==
    outcome \notin {"committed", "degraded"} =>
        \A i \in prior : target[i] = "old" \/ previous[i] = "old"

\* When the reversal failed, the paths to "preserve" that the error names
\* include those of every swap that is not as it was found.
StrayIsNamed ==
    outcome = "unrestored" => \A i \in Swaps : target[i] = FoundAt(i) \/ i \in failed

\* Services run on the installation they belong to, and never on a mixture of
\* the two, in any state a killed manager leaves behind included: only a
\* systemctl that failed leaves them in a state nobody knows.
MixNeverServes ==
    /\ units = "as_found" => \A i \in Swaps : target[i] = FoundAt(i)
    /\ units = "as_saved" => \A i \in Swaps : target[i] = SavedAt(i)

(* Why they hold: an inductive invariant.                                  *)

\* Where a swap can be.
Ready(i) == staged[i] = SavedAt(i)

Untouched(i) ==
    /\ target[i] = FoundAt(i) /\ previous[i] = "none"
    /\ i \notin moved \cup placed

Vacant(i) ==
    /\ target[i] = "none" /\ previous[i] = FoundAt(i)
    /\ i \in moved <=> i \in prior

Aside(i) == Vacant(i) /\ i \notin placed

Swapped(i) ==
    /\ target[i] = SavedAt(i) /\ previous[i] = FoundAt(i)
    /\ i \in moved <=> i \in prior
    /\ i \in placed <=> i \in snap

Applied(i) == Untouched(i) \/ Aside(i) \/ Swapped(i)

Back(i) ==
    \/ target[i] = FoundAt(i)
    \/ i \in failed /\ (i \in prior => previous[i] = "old")

\* How far the swaps before, at and after the current one have got.
SwapsInv ==
    /\ pc \in {"stage", "stop"} => \A i \in Swaps : Untouched(i)
    /\ pc = "stage" => \A i \in Swaps : i < at => Ready(i)
    /\ pc = "stop" => \A i \in Swaps : Ready(i)
    /\ pc \in {"away", "place"} => \A i \in Swaps :
          /\ i < at => Swapped(i)
          /\ i > at => Untouched(i)
          /\ i >= at => Ready(i)
    /\ pc = "away" => \A i \in Swaps : i = at => Untouched(i)
    /\ pc = "place" => \A i \in Swaps : i = at => Aside(i)
    /\ pc \in {"finish", "complete", "commit"} => \A i \in Swaps : Swapped(i)
    /\ pc \in {"unplace", "unmove"} => \A i \in Swaps :
          /\ i < at => Applied(i)
          /\ i > at => Back(i)
    /\ pc = "unplace" => \A i \in Swaps :
          i = at => Applied(i)
    /\ pc = "unmove" => \A i \in Swaps : i = at => Untouched(i) \/ Vacant(i)
    /\ pc = "settle" => \A i \in Swaps : Back(i)

PhaseInv ==
    /\ outcome # "none" <=> pc = "over"
    /\ pc \in {"away", "place", "finish", "complete"} => units = "stopped"
    /\ pc = "commit" => units \in {"as_saved", "stopped"}
    /\ pc \in {"stage", "stop"} => units = "as_found"
    /\ units = "as_saved" => pc \in {"commit", "over"}
    /\ units = "as_found" /\ pc # "over" => \A i \in Swaps : Untouched(i)

Inductive ==
    /\ TypeOK /\ SwapsInv /\ PhaseInv
    /\ FilesFitOutcome /\ OldIsKept /\ StrayIsNamed /\ MixNeverServes
=============================================================================
