---------------------------- MODULE ApprovalDesk -----------------------------
(***************************************************************************)
(* What the approval gate promises about one place of its queue, the audit *)
(* entry of a tool call that policy does not approve by itself: a call     *)
(* waits there until an operator's request takes it; one call is then run  *)
(* or denied for it, never both and never twice; and the only other way    *)
(* out is a restart of the service, which forgets all that is not settled. *)
(***************************************************************************)
CONSTANT Entries

VARIABLE desk

DeskInit == desk = [e \in Entries |-> "none"]

\* A call arrives; one that policy approves runs at once.
Arrive(e) ==
    /\ desk[e] = "none"
    /\ \E fate \in {"waiting", "ran"} : desk' = [desk EXCEPT ![e] = fate]

Take(e) ==
    /\ desk[e] = "waiting"
    /\ desk' = [desk EXCEPT ![e] = "taken"]

Settle(e) ==
    /\ desk[e] = "taken"
    /\ \E fate \in {"ran", "denied"} : desk' = [desk EXCEPT ![e] = fate]

Forget ==
    desk' = [e \in Entries |->
               IF desk[e] \in {"waiting", "taken"} THEN "lost" ELSE desk[e]]

DeskNext == Forget \/ \E e \in Entries : Arrive(e) \/ Take(e) \/ Settle(e)

DeskSpec == DeskInit /\ [][DeskNext]_desk
==============================================================================
