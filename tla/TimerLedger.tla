----------------------------- MODULE TimerLedger -----------------------------
(***************************************************************************)
(* What the reactivation service promises about its timers, whatever       *)
(* threads, crashes and operator commands do: at most one timer waits in   *)
(* the queue, a timer runs at most once and only after it was claimed, and *)
(* its record ends by telling whether it ran.                              *)
(*                                                                         *)
(* ledger is the status column of the reactivations table ("absent" for a  *)
(* row not written yet); ran is the set of timers that started a turn.     *)
(***************************************************************************)
CONSTANT Timers

VARIABLES ledger, ran

ledgerVars == <<ledger, ran>>

Final == {"fired", "cancelled", "failed"}

LedgerInit ==
    /\ ledger = [t \in Timers |-> "absent"]
    /\ ran = {}

\* A new timer enters the queue; the one it replaces, if any, is cancelled.
Enqueue(t) ==
    /\ ledger[t] = "absent"
    /\ ledger' = [x \in Timers |->
                    IF x = t THEN "pending"
                    ELSE IF ledger[x] = "pending" THEN "cancelled"
                    ELSE ledger[x]]
    /\ UNCHANGED ran

\* The operator empties the queue.
Withdraw ==
    /\ ledger' = [x \in Timers |->
                    IF ledger[x] = "pending" THEN "cancelled" ELSE ledger[x]]
    /\ UNCHANGED ran

Claim(t) ==
    /\ ledger[t] = "pending"
    /\ ledger' = [ledger EXCEPT ![t] = "firing"]
    /\ UNCHANGED ran

Run(t) ==
    /\ ledger[t] = "firing"
    /\ t \notin ran
    /\ ran' = ran \cup {t}
    /\ UNCHANGED ledger

\* A claimed timer reaches the outcome that tells whether it ran.
Settle(t, outcome) ==
    /\ ledger[t] = "firing"
    /\ outcome \in Final
    /\ outcome = "fired" => t \in ran
    /\ outcome \in {"cancelled", "failed"} => t \notin ran
    /\ ledger' = [ledger EXCEPT ![t] = outcome]
    /\ UNCHANGED ran

\* A restart fails every claimed timer, whether or not its turn had started.
Abandon ==
    /\ ledger' = [x \in Timers |->
                    IF ledger[x] = "firing" THEN "failed" ELSE ledger[x]]
    /\ UNCHANGED ran

LedgerNext ==
    \/ Withdraw
    \/ Abandon
    \/ \E t \in Timers : Enqueue(t) \/ Claim(t) \/ Run(t)
    \/ \E t \in Timers, outcome \in Final : Settle(t, outcome)

LedgerSpec == LedgerInit /\ [][LedgerNext]_ledgerVars
==============================================================================
