---------------------------- MODULE Reactivation -----------------------------
(***************************************************************************)
(* Timer reactivation of the chat service: the reactivations and           *)
(* reactivation_settings tables of history.py, the timer daemon of         *)
(* server.py, the turns that queue continuations, and the operator's       *)
(* cancel, configure, reset and stop handlers, as interleaved threads of   *)
(* one process that may crash and be restarted.                            *)
(*                                                                         *)
(* One step is one transaction of history.py (each runs under History._lock*)
(* and commits once), or one section under App._lock, or one read of       *)
(* another thread's state.  Time is abstract: a pending timer becomes due  *)
(* at some moment.  The wake-up event only shortens a wait that ends by    *)
(* itself after at most 30 s, so the daemon may always take its next step. *)
(***************************************************************************)
EXTENDS Naturals, FiniteSets

CONSTANTS
    Timers,      \* reactivation ids (a bound: each is used once)
    PostTurns,   \* turns and approvals started by operator requests (a bound)
    PostKinds,   \* the kinds of request that start them
    TimerTurns,  \* turns started by the timer daemon (a bound)
    Convs,       \* conversations
    Operators,   \* request threads that administer reactivation
    MaxCrashes,  \* bound on process crashes
    MaxFaults,   \* bound on exceptions inside the daemon
    Null

Turns == PostTurns \cup TimerTurns

ASSUME TurnsAssumption == PostTurns \cap TimerTurns = {}
ASSUME NullAssumption == Null \notin Timers \cup Convs \cup Operators \cup {"daemon"}
ASSUME PostKindsAssumption == PostKinds \subseteq {"stream", "sync", "approval"}
ASSUME OperatorsAssumption == "daemon" \notin Operators
ASSUME BoundsAssumption == MaxCrashes \in Nat /\ MaxFaults \in Nat

VARIABLES
    \* conversations.db, which survives a crash
    status,      \* reactivations.status; "absent" before the row is inserted
    home,        \* reactivations.conversation_id
    due,         \* timers whose fire_at has passed
    fresh,       \* timers with created_at > reset_at
    enabled,     \* reactivation_settings.enabled
    \* memory of the process
    up,          \* the service process is running
    turn,        \* the turns and their worker or request threads
    daemon,      \* the thread in _reactivation_daemon
    control,     \* holder of _reactivation_control_lock
    op,          \* the operator request threads
    \* the world around it
    dead,        \* lifecycle.status()["dead"]
    crashes, faults,
    \* an observation no step depends on
    sawEnabled   \* enabled was TRUE at some moment since the last claim

store == <<status, home, due, fresh, enabled>>
world == <<dead, crashes, faults>>
vars  == <<store, up, turn, daemon, control, op, world, sawEnabled>>

-------------------------------------------------------------------------------
Status == {"absent", "pending", "firing", "fired", "cancelled", "failed"}

\* The kinds of turn: POST /api/message with and without "stream", an approval
\* of a queued timer.reactivation call, and a continuation.
Kinds == {"stream", "sync", "approval", "timer"}

\* A turn's thread: life check, model running, then the checks and the insert
\* of schedule_reactivation, and closing before turn_done is emitted.
ActivePcs == {"begin", "model", "settings", "life", "insert", "closing"}

TurnRecord == [pc : ActivePcs \cup {"unused", "done", "lost"},
               kind : Kinds, conv : Convs \cup {Null},
               timer : Timers \cup {Null}, cancelled : BOOLEAN,
               ret : {"model", "closing"}]

UnusedTurn == [pc |-> "unused", kind |-> "stream", conv |-> Null,
               timer |-> Null, cancelled |-> FALSE, ret |-> "closing"]

\* The daemon between its sleep and the end of the control-lock section.
ClaimedPcs == {"enabled", "life", "start", "finish"}

DaemonRecord == [pc : {"wait", "busy", "claim"} \cup ClaimedPcs,
                 item : Timers \cup {Null}, busy : SUBSET Convs]

IdleDaemon == [pc |-> "wait", item |-> Null, busy |-> {}]

OpRecord == [pc : {"idle", "write", "cancel", "stop"},
             want : {"on", "off", "keep"}, read : BOOLEAN]

IdleOp == [pc |-> "idle", want |-> "keep", read |-> TRUE]

TypeOK ==
    /\ status \in [Timers -> Status]
    /\ home \in [Timers -> Convs \cup {Null}]
    /\ due \subseteq Timers
    /\ fresh \subseteq Timers
    /\ enabled \in BOOLEAN
    /\ up \in BOOLEAN
    /\ turn \in [Turns -> TurnRecord]
    /\ daemon \in DaemonRecord
    /\ control \in Operators \cup {"daemon", Null}
    /\ op \in [Operators -> OpRecord]
    /\ dead \in BOOLEAN
    /\ crashes \in 0..MaxCrashes
    /\ faults \in 0..MaxFaults
    /\ sawEnabled \in BOOLEAN

Init ==
    /\ status = [t \in Timers |-> "absent"]
    /\ home = [t \in Timers |-> Null]
    /\ due = {} /\ fresh = {} /\ enabled = TRUE
    /\ up = TRUE
    /\ turn = [s \in Turns |-> UnusedTurn]
    /\ daemon = IdleDaemon
    /\ control = Null
    /\ op = [o \in Operators |-> IdleOp]
    /\ dead = FALSE /\ crashes = 0 /\ faults = 0
    /\ sawEnabled = TRUE

-------------------------------------------------------------------------------
Pending == {t \in Timers : status[t] = "pending"}

\* cancel_pending_reactivation and the first half of reset and of a replacing
\* schedule: the pending row, if there is one, becomes cancelled.

WithoutPending_open ==         \* mutant: a claimed row is cancelled as well
    [t \in Timers |-> IF status[t] \in {"pending", "firing"} THEN "cancelled"
                      ELSE status[t]]

WithoutPending ==
    [t \in Timers |-> IF status[t] = "pending" THEN "cancelled" ELSE status[t]]

InFlight(s) == turn[s].pc \in ActivePcs

\* A turn that App.turns holds with done_at unset: synchronous posts and
\* approvals run without an entry there.
Registered(s) == InFlight(s) /\ turn[s].kind \in {"stream", "timer"}

\* _busy_conversations
Busy_posted ==                     \* mutant: continuations are left out
    {turn[s].conv : s \in {x \in PostTurns : Registered(x)}}
Busy == {turn[s].conv : s \in {x \in Turns : Registered(x)}}

\* A continuation that is running and was not told to stop.
ActiveContinuation(s) ==
    Registered(s) /\ turn[s].kind = "timer" /\ ~turn[s].cancelled

TurnGoes(s, pc) == turn' = [turn EXCEPT ![s].pc = pc]

\* schedule_reactivation returns to the tool call or to the end of the turn.
TurnReturns(s) ==
    turn' = [turn EXCEPT ![s].pc = turn[s].ret, ![s].ret = "closing"]

-------------------------------------------------------------------------------
(* Turns.                                                                  *)

\* POST /api/message, streamed or not: a dead zombie is refused.  An approval
\* goes straight to the dispatch of its tool and never looks at the lifecycle.
PostTurn(s, k, c) ==
    /\ up
    /\ turn[s].pc = "unused"
    /\ k = "approval" \/ ~dead
    /\ turn' = [turn EXCEPT ![s] =
                 [UnusedTurn EXCEPT !.pc = IF k = "approval" THEN "settings"
                                           ELSE "begin",
                                    !.kind = k, !.conv = c]]
    /\ UNCHANGED <<store, up, daemon, control, op, world, sawEnabled>>

\* post_message reads the lifecycle before it adds the user message.
TurnBegin(s) ==
    /\ turn[s].pc = "begin"
    /\ TurnGoes(s, IF dead THEN "closing" ELSE "model")
    /\ UNCHANGED <<store, up, daemon, control, op, world, sawEnabled>>

\* A timer.reactivation tool call that policy auto-approves is dispatched in
\* the middle of the turn, with no look at the turn's cancel event.
TurnToolCall(s) ==
    /\ turn[s].pc = "model"
    /\ turn' = [turn EXCEPT ![s].pc = "settings", ![s].ret = "model"]
    /\ UNCHANGED <<store, up, daemon, control, op, world, sawEnabled>>

\* run_turn returned a reply that carries a reactivation request: a stopped
\* turn is refused, any other goes on to schedule_reactivation.
TurnReply(s) ==
    /\ turn[s].pc = "model"
    /\ TurnGoes(s, IF turn[s].cancelled THEN "closing" ELSE "settings")
    /\ UNCHANGED <<store, up, daemon, control, op, world, sawEnabled>>

\* run_turn failed, was stopped, or returned a reply without a request.
TurnModelEnds(s) ==
    /\ turn[s].pc = "model"
    /\ TurnGoes(s, "closing")
    /\ UNCHANGED <<store, up, daemon, control, op, world, sawEnabled>>

\* schedule_reactivation reads the settings; the delay or the text may be
\* refused as well.
TurnSettings(s) ==
    /\ turn[s].pc = "settings"
    /\ \/ enabled /\ TurnGoes(s, "life")
       \/ TurnReturns(s)
    /\ UNCHANGED <<store, up, daemon, control, op, world, sawEnabled>>

\* ... then the lifecycle: dead, or a delay beyond the remaining TTL, refuses.
TurnLife(s) ==
    /\ turn[s].pc = "life"
    /\ \/ ~dead /\ TurnGoes(s, "insert")
       \/ TurnReturns(s)
    /\ UNCHANGED <<store, up, daemon, control, op, world, sawEnabled>>

\* ... then history.schedule_reactivation in one transaction: an existing
\* timer stays unless the request replaces it.
TurnInsert(s) ==
    /\ turn[s].pc = "insert"
    /\ TurnReturns(s)
    /\ \/ \E t \in Timers, replace \in BOOLEAN :
             /\ status[t] = "absent"
             /\ Pending = {} \/ replace
             /\ status' = [WithoutPending EXCEPT ![t] = "pending"]
             /\ home' = [home EXCEPT ![t] = turn[s].conv]
             /\ fresh' = fresh \cup {t}
             /\ UNCHANGED <<due, enabled>>
       \/ \* refused: one is pending (or the model's timer ids are used up)
          /\ Pending # {} \/ \A t \in Timers : status[t] # "absent"
          /\ UNCHANGED store
    /\ UNCHANGED <<up, daemon, control, op, world, sawEnabled>>

\* The assistant message is stored and turn_done or turn_error sets done_at.
TurnDone_unmarked(s) ==        \* mutant: done_at is never set
    turn[s].pc = "closing" /\ UNCHANGED vars

TurnDone(s) ==
    /\ turn[s].pc = "closing"
    /\ TurnGoes(s, "done")
    /\ UNCHANGED <<store, up, daemon, control, op, world, sawEnabled>>

-------------------------------------------------------------------------------
(* The timer daemon.                                                       *)

DaemonGoes(pc) == daemon' = [daemon EXCEPT !.pc = pc]

\* _reactivation_control_lock can be taken.
ControlFree_always == TRUE     \* mutant: nobody takes the lock
ControlFree == control = Null

\* The end of the control-lock section, or of a round that came to nothing.
DaemonRests ==
    /\ daemon' = IdleDaemon
    /\ control' = IF control = "daemon" THEN Null ELSE control

\* After a wait the pending row is read again; nothing due means wait again.
DaemonCheck ==
    /\ up /\ daemon.pc = "wait"
    /\ \E t \in Pending \cap due :
          daemon' = [pc |-> "busy", item |-> t, busy |-> {}]
    /\ UNCHANGED <<store, up, turn, control, op, world, sawEnabled>>

\* The conversations with a turn in flight are collected under App._lock; a
\* timer of one of them is deferred.
DaemonBusy ==
    /\ daemon.pc = "busy"
    /\ daemon' = IF home[daemon.item] \in Busy THEN IdleDaemon
                 ELSE [daemon EXCEPT !.pc = "claim", !.busy = Busy]
    /\ UNCHANGED <<store, up, turn, control, op, world, sawEnabled>>

\* The due timers claim_due_reactivation may take: not those of the
\* conversations that were busy when the daemon looked.
Claimable == {t \in Pending \cap due : home[t] \notin daemon.busy}

\* The UPDATE of the claim.
MarkFiring_forgotten(t) == UNCHANGED status  \* mutant: the row stays pending
MarkFiring(t) == status' = [status EXCEPT ![t] = "firing"]

\* Under the control lock claim_due_reactivation turns one into "firing".
DaemonClaim ==
    /\ daemon.pc = "claim"
    /\ ControlFree
    /\ \/ /\ Claimable = {}
          /\ DaemonRests
          /\ UNCHANGED <<status, sawEnabled>>
       \/ /\ \E t \in Claimable :
                /\ MarkFiring(t)
                /\ daemon' = [daemon EXCEPT !.pc = "enabled", !.item = t]
          /\ control' = "daemon"
          /\ sawEnabled' = enabled
    /\ UNCHANGED <<home, due, fresh, enabled, up, turn, op, world>>

\* finish_reactivation, a single UPDATE that only touches open rows.
Finish(t, outcome) ==
    status' = [status EXCEPT ![t] =
                 IF @ \in {"pending", "firing"} THEN outcome ELSE @]

\* Scheduling was turned off meanwhile: _reactivation_terminal cancels.
DaemonEnabled_unread ==        \* mutant: the setting is not looked at
    /\ daemon.pc = "enabled"
    /\ DaemonGoes("life")
    /\ UNCHANGED <<store, up, turn, control, op, world, sawEnabled>>

DaemonEnabled ==
    /\ daemon.pc = "enabled"
    /\ \/ enabled /\ DaemonGoes("life") /\ UNCHANGED <<status, control>>
       \/ ~enabled /\ Finish(daemon.item, "cancelled") /\ DaemonRests
    /\ UNCHANGED <<home, due, fresh, enabled, up, turn, op, world, sawEnabled>>

\* A dead zombie's timer fails.
DaemonLife ==
    /\ daemon.pc = "life"
    /\ \/ ~dead /\ DaemonGoes("start") /\ UNCHANGED <<status, control>>
       \/ dead /\ Finish(daemon.item, "failed") /\ DaemonRests
    /\ UNCHANGED <<home, due, fresh, enabled, up, turn, op, world, sawEnabled>>

\* start_streaming_message looks at the lifecycle again, registers the turn
\* under App._lock and starts its thread.
DaemonStart ==
    /\ daemon.pc = "start"
    /\ \/ /\ dead
          /\ Finish(daemon.item, "failed")
          /\ DaemonRests
          /\ UNCHANGED turn
       \/ /\ ~dead
          /\ \E s \in TimerTurns :
                /\ turn[s].pc = "unused"
                /\ turn' = [turn EXCEPT ![s] =
                     [UnusedTurn EXCEPT !.pc = "begin", !.kind = "timer",
                                        !.conv = home[daemon.item],
                                        !.timer = daemon.item]]
          /\ DaemonGoes("finish")
          /\ UNCHANGED <<status, control>>
    /\ UNCHANGED <<home, due, fresh, enabled, up, op, world, sawEnabled>>

\* The timer is recorded as fired and the control lock released.
DaemonFinish ==
    /\ daemon.pc = "finish"
    /\ Finish(daemon.item, "fired")
    /\ DaemonRests
    /\ UNCHANGED <<home, due, fresh, enabled, up, turn, op, world, sawEnabled>>

\* A database or file error while a timer is claimed: the with statement
\* releases the lock, the supervisor starts the daemon over, the row stays
\* "firing".
DaemonFault ==
    /\ faults < MaxFaults
    /\ daemon.pc \in ClaimedPcs
    /\ DaemonRests
    /\ faults' = faults + 1
    /\ UNCHANGED <<store, up, turn, op, dead, crashes, sawEnabled>>

-------------------------------------------------------------------------------
(* The operator's requests.                                                *)

\* POST /api/reactivation {cancel: true}: one transaction.
CancelReactivation ==
    /\ up
    /\ status' = WithoutPending
    /\ UNCHANGED <<home, due, fresh, enabled, up, turn, daemon, control, op,
                   world, sawEnabled>>

\* configure_reactivation: update_reactivation_settings reads the row,
ConfigureRead(o, want) ==
    /\ up
    /\ op[o].pc = "idle"
    /\ op' = [op EXCEPT ![o] = [pc |-> "write", want |-> want, read |-> enabled]]
    /\ UNCHANGED <<store, up, turn, daemon, control, world, sawEnabled>>

\* ... in another transaction writes all its columns, those the request did
\* not name with the values read before,
ConfigureWrite(o) ==
    /\ op[o].pc = "write"
    /\ enabled' = CASE op[o].want = "on"  -> TRUE
                    [] op[o].want = "off" -> FALSE
                    [] OTHER              -> op[o].read
    /\ sawEnabled' = (sawEnabled \/ enabled')
    /\ op' = [op EXCEPT ![o] = IF op[o].want = "off"
                                THEN [IdleOp EXCEPT !.pc = "cancel"] ELSE IdleOp]
    /\ UNCHANGED <<status, home, due, fresh, up, turn, daemon, control, world>>

\* ... and, when scheduling was turned off, cancels the pending timer.
ConfigureCancel(o) ==
    /\ op[o].pc = "cancel"
    /\ status' = WithoutPending
    /\ op' = [op EXCEPT ![o] = IdleOp]
    /\ UNCHANGED <<home, due, fresh, enabled, up, turn, daemon, control, world,
                   sawEnabled>>

\* reset_reactivation, under the control lock: one transaction retires the
\* pending timer, restores the settings and moves reset_at,
ResetStore(o) ==
    /\ up
    /\ op[o].pc = "idle"
    /\ ControlFree
    /\ control' = o
    /\ status' = WithoutPending
    /\ fresh' = {}
    /\ enabled' = TRUE
    /\ sawEnabled' = TRUE
    /\ op' = [op EXCEPT ![o].pc = "stop"]
    /\ UNCHANGED <<home, due, up, turn, daemon, world>>

\* ... then every active continuation is told to stop.
ResetStop(o) ==
    /\ op[o].pc = "stop"
    /\ turn' = [s \in Turns |-> [turn[s] EXCEPT
                  !.cancelled = @ \/ ActiveContinuation(s)]]
    /\ control' = Null
    /\ op' = [op EXCEPT ![o] = IdleOp]
    /\ UNCHANGED <<store, up, daemon, world, sawEnabled>>

\* POST /api/turn/<id>/stop
StopTurn(s) ==
    /\ up
    /\ Registered(s) /\ ~turn[s].cancelled
    /\ turn' = [turn EXCEPT ![s].cancelled = TRUE]
    /\ UNCHANGED <<store, up, daemon, control, op, world, sawEnabled>>

-------------------------------------------------------------------------------
(* Time, death, crash and restart.                                         *)

TimerDue(t) ==
    /\ status[t] = "pending" /\ t \notin due
    /\ due' = due \cup {t}
    /\ UNCHANGED <<status, home, fresh, enabled, up, turn, daemon, control, op,
                   world, sawEnabled>>

Die ==
    /\ ~dead
    /\ dead' = TRUE
    /\ UNCHANGED <<store, up, turn, daemon, control, op, crashes, faults, sawEnabled>>

\* The process is gone: threads, turns and locks with it.
Crash ==
    /\ up
    /\ crashes < MaxCrashes
    /\ crashes' = crashes + 1
    /\ up' = FALSE
    /\ turn' = [s \in Turns |-> [turn[s] EXCEPT
                  !.pc = IF @ \in ActivePcs THEN "lost" ELSE @]]
    /\ daemon' = IdleDaemon
    /\ control' = Null
    /\ op' = [o \in Operators |-> IdleOp]
    /\ UNCHANGED <<store, dead, faults, sawEnabled>>

\* fail_orphaned_reactivations: what becomes of a row claimed by a process
\* that is gone.
OrphanOutcome_pending == "pending"    \* mutant: it is queued again
OrphanOutcome_firing == "firing"      \* mutant: nobody looks after it
OrphanOutcome == "failed"

\* App.__init__ fails the timers a previous process had claimed, then starts
\* the daemon.
Start ==
    /\ ~up
    /\ up' = TRUE
    /\ status' = [t \in Timers |->
                    IF status[t] = "firing" THEN OrphanOutcome ELSE status[t]]
    /\ UNCHANGED <<home, due, fresh, enabled, turn, daemon, control, op, world,
                   sawEnabled>>

-------------------------------------------------------------------------------
TurnStep(s) ==
    \/ TurnBegin(s) \/ TurnReply(s) \/ TurnModelEnds(s)
    \/ TurnToolCall(s) \/ TurnSettings(s) \/ TurnLife(s) \/ TurnInsert(s)
    \/ TurnDone(s)

DaemonStep ==
    \/ DaemonCheck \/ DaemonBusy \/ DaemonClaim
    \/ DaemonEnabled \/ DaemonLife \/ DaemonStart \/ DaemonFinish

OpStep(o) ==
    ConfigureWrite(o) \/ ConfigureCancel(o) \/ ResetStop(o)

Next ==
    \/ \E s \in PostTurns, k \in PostKinds, c \in Convs : PostTurn(s, k, c)
    \/ \E s \in Turns : TurnStep(s) \/ StopTurn(s)
    \/ DaemonStep \/ DaemonFault
    \/ CancelReactivation
    \/ \E o \in Operators, want \in {"on", "off", "keep"} : ConfigureRead(o, want)
    \/ \E o \in Operators : ResetStore(o) \/ OpStep(o)
    \/ \E t \in Timers : TimerDue(t)
    \/ Die \/ Crash \/ Start

Spec == Init /\ [][Next]_vars

\* The operating system schedules every thread, so a thread that can take a
\* step takes it; a pending timer's time comes; systemd restarts the service
\* (Restart=on-failure).  run_turn ends even when the model calls tools again
\* and again: its idle deadline and max_tool_calls_per_turn bound it, which is
\* the strong fairness of TurnModelEnds.  Nothing obliges an operator to act,
\* a turn to ask for a timer, or the process to fail.
Fairness ==
    /\ WF_vars(DaemonStep)
    /\ WF_vars(Start)
    /\ \A s \in Turns :
          /\ SF_vars(TurnModelEnds(s))
          /\ WF_vars(TurnBegin(s) \/ TurnSettings(s) \/ TurnLife(s)
                       \/ TurnInsert(s) \/ TurnDone(s))
    /\ \A o \in Operators : WF_vars(OpStep(o))
    /\ \A t \in Timers : WF_vars(TimerDue(t))

FairSpec == Spec /\ Fairness

-------------------------------------------------------------------------------
(* Safety.                                                                 *)

\* The turns that a timer started, over all lives of the process.
Ran == {turn[s].timer : s \in {x \in TimerTurns : turn[x].pc # "unused"}}

\* At most one timer waits in the queue, whichever turns schedule and replace
\* concurrently: the unique index one_pending_reactivation never refuses the
\* INSERT of history.schedule_reactivation.
AtMostOnePending == \A t, u \in Pending : t = u

\* A timer starts at most one turn, across claims, daemon faults, crashes and
\* restarts ("so it can never fire twice", claim_due_reactivation).
FiresAtMostOnce ==
    \A r, s \in TimerTurns :
        /\ turn[r].pc # "unused" /\ turn[s].pc # "unused"
        /\ turn[r].timer = turn[s].timer
        => r = s

\* What the durable record says happened is what happened: a timer recorded
\* as fired did start its turn, one recorded as cancelled never did.  "failed"
\* says neither: after a crash the turn may or may not have started.
RecordTellsTheTruth ==
    \A t \in Timers :
        /\ status[t] = "fired" => t \in Ran
        /\ status[t] = "cancelled" => t \notin Ran

\* Two continuations never run at the same time in one conversation, though
\* the daemon looks at the running turns before it takes the control lock.
ContinuationsNeverOverlap ==
    \A r, s \in TimerTurns :
        InFlight(r) /\ InFlight(s) /\ turn[r].conv = turn[s].conv => r = s

\* A continuation queued before a reset is told to stop by the time the reset
\* releases the control lock, even one the daemon had already claimed when
\* the reset arrived.
ResetStopsContinuations ==
    \A s \in TimerTurns :
        InFlight(s) /\ turn[s].timer \notin fresh
        => turn[s].cancelled \/ \E o \in Operators : op[o].pc = "stop"

\* A reset and the firing of a timer exclude each other.
ControlIsExclusive ==
    /\ daemon.pc \in ClaimedPcs => \A o \in Operators : op[o].pc # "stop"
    /\ \A o, p \in Operators : op[o].pc = "stop" /\ op[p].pc = "stop" => o = p

\* No timer starts a turn if scheduling stayed off from the moment it was
\* claimed: the daemon looks at the setting after the claim.
StartsContinuation ==
    \E s \in TimerTurns : turn[s].pc = "unused" /\ turn'[s].pc # "unused"

OffStopsContinuations == [][StartsContinuation => sawEnabled]_vars

(* Why the safety properties hold: an inductive invariant.                 *)

Claimed == daemon.pc \in ClaimedPcs

\* A row names its conversation, and one still queued is newer than any reset.
RowsInv ==
    \A t \in Timers :
        /\ status[t] # "absent" => home[t] \in Convs
        /\ status[t] = "pending" => t \in fresh

\* A turn has a conversation, a continuation has a timer as well.
TurnsInv ==
    /\ \A s \in Turns : turn[s].pc # "unused" => turn[s].conv \in Convs
    /\ \A s \in TimerTurns :
          turn[s].pc # "unused" => turn[s].kind = "timer" /\ turn[s].timer \in Timers

\* The control lock covers a claim from the UPDATE to the outcome, so the row
\* the daemon works on stays "firing" and is not older than a reset.
LockInv ==
    /\ ~up => daemon.pc = "wait"
    /\ daemon.pc # "wait" => daemon.item \in Timers /\ status[daemon.item] # "absent"
    /\ Claimed => /\ control = "daemon"
                  /\ status[daemon.item] = "firing"
                  /\ daemon.item \in fresh
    /\ \A o \in Operators : op[o].pc = "stop" => control = o

\* Only a claimed timer runs, and only until its outcome is recorded.
RunInv ==
    /\ \A t \in Timers : status[t] \in {"absent", "pending", "cancelled"} => t \notin Ran
    /\ \A t \in Timers : status[t] = "fired" => t \in Ran
    /\ Claimed => (daemon.item \in Ran <=> daemon.pc = "finish")

\* The daemon's stale view of the running turns is good enough: nobody else
\* starts a continuation.
BusyInv ==
    /\ daemon.pc = "claim" =>
          \A s \in TimerTurns : InFlight(s) => turn[s].conv \in daemon.busy
    /\ Claimed /\ daemon.pc # "finish" =>
          \A s \in TimerTurns : InFlight(s) => turn[s].conv # home[daemon.item]

SettingInv ==
    /\ enabled => sawEnabled
    /\ daemon.pc \in {"life", "start"} => sawEnabled

\* Everything the steps preserve together.
Inductive ==
    /\ TypeOK /\ RowsInv /\ TurnsInv /\ LockInv /\ RunInv /\ BusyInv /\ SettingInv
    /\ AtMostOnePending /\ FiresAtMostOnce /\ ContinuationsNeverOverlap
    /\ ResetStopsContinuations

(* The record of the timers, as an abstract ledger.                        *)

Ledger == INSTANCE TimerLedger WITH ledger <- status, ran <- Ran

ImplementsLedger == Ledger!LedgerSpec

(* Liveness, under FairSpec.                                               *)

\* Every queued timer leaves the queue: it is claimed, cancelled or replaced.
\* The turns that may keep its conversation busy are finite in number here.
QueuedTimerLeaves ==
    \A t \in Timers : status[t] = "pending" ~> status[t] # "pending"

\* A claimed timer reaches an outcome, at the latest when the service is
\* restarted after a crash.  Needs MaxFaults = 0: a fault of the daemon leaves
\* the row "firing" for the rest of the process's life.
ClaimedTimerSettles ==
    \A t \in Timers : status[t] = "firing" ~> status[t] \in {"fired", "cancelled", "failed"}

(* What the documentation says and the code does not keep.                 *)

\* "A due timer is never started while its conversation still has a turn in
\* flight" (docs/CONFIGURATION.md).
NeverStartsBesideATurn ==
    [][\A s \in TimerTurns :
          turn[s].pc = "unused" /\ turn'[s].pc # "unused" =>
          \A r \in Turns : InFlight(r) /\ turn[r].kind # "approval"
                            => turn[r].conv # turn'[s].conv]_vars
==============================================================================
