----------------------------- MODULE FriendManager -----------------------------
(***************************************************************************)
(* The host manager of Imaginary Friend (products/imaginary-friend/payload/*)
(* agent/friend/management.py).  Unlike its siblings it changes a runtime  *)
(* by renaming whole trees, undoes by itself whatever fails after that,    *)
(* and keeps the suspension in the database of the chat service, which the *)
(* owner may set at any time over HTTP while an operation is going on.     *)
(*                                                                         *)
(* Left out: which instance it is (its records never outlive each other),  *)
(* backup (nothing but its archive changes), workspaces, credentials,      *)
(* receipts, and what the owner writes: the database is its suspension.    *)
(* A file or tree is written, copied or removed in one step, a rename is   *)
(* a step of its own.  Confirming is no step: the digest is computed again *)
(* in the lock.                                                            *)
(***************************************************************************)
EXTENDS Naturals, Sequences

CONSTANTS
    Releases,     \* the versions of the product, the oldest first
    MaxFailures,  \* bound on steps that fail, on kills and on reboots
    None,         \* there is no such thing
    Empty         \* a directory with nothing in it

Versions == {Releases[n] : n \in DOMAIN Releases}

ASSUME MaxFailuresAssumption == MaxFailures \in Nat
ASSUME NamesAssumption ==
    /\ None \notin Versions /\ Empty \notin Versions \cup {None}
    /\ None \notin {"active", "suspended", "foreign", "ours", "transient", "recovery"}

Older(v, w) == \E m, n \in DOMAIN Releases : m < n /\ Releases[m] = v /\ Releases[n] = w

VARIABLES
    marker,     \* installation.json: the version installed
    pending,    \* the transaction of a first installation exists
    state,      \* the state root: None, "foreign", "ours"
    user,       \* the friend account: None, "foreign", "ours"
    residue,    \* the log, the workspaces, the sharing group: likewise
    db,         \* the database: None, "active", "suspended"
    conf,       \* the configuration root: None, Empty, or of which version
    runtime,    \* the install root: None or its version
    old,        \* the rollback root: None or its version
    unit,       \* unit, entry point, helpers: None or their version
    recovery,   \* the snapshot for rollback: None, Empty or a snapshot
    transient,  \* the snapshot of an operation that keeps the version: likewise
    enabled,    \* the service starts with the host
    proc,       \* the service: None or the version it was started from
    op,         \* the operation that holds the lock
    failures,
    broken      \* observation: an operation was killed, or failed and could
                \* not be undone, and nothing was installed since

records   == <<marker, pending, state>>
host      == <<user, residue>>
trees     == <<runtime, old>>
snapshots == <<recovery, transient>>
service   == <<enabled, proc>>
seen      == <<failures, broken>>
vars == <<records, host, db, conf, trees, unit, snapshots, service, op, seen>>

-------------------------------------------------------------------------------
(* State.                                                                  *)

Converges  == {"install", "repair", "update"}
Uninstalls == {"retain", "purge"}
Kinds == Converges \cup Uninstalls \cup {"rollback", "suspend", "resume"}

Idle == [kind |-> "none"]

Settings == {None, "active", "suspended"}
Configurations == Versions \cup {None, Empty}

Snapshots ==
    [marker : Versions \cup {None}, db : Settings, conf : Configurations, sound : BOOLEAN]

ASSUME RecordsAssumption == None \notin Snapshots /\ Empty \notin Snapshots

\* Manager._snapshot_state
Snapshot == [marker |-> marker, db |-> db, conf |-> conf,
             sound |-> ~broken]       \* observation

Whole(s) == s \notin {None, Empty}

\* What a failing operation has to leave behind it: observation.
Installed == [marker |-> marker, conf |-> conf, runtime |-> runtime,
              unit |-> unit, old |-> old, recovery |-> recovery]

Init ==
    /\ marker = None /\ pending = FALSE
    /\ db = None /\ conf = None /\ runtime = None /\ old = None /\ unit = None
    /\ recovery = None /\ transient = None
    /\ enabled = FALSE /\ proc = None
    /\ op = Idle /\ failures = 0 /\ broken = FALSE
    /\ \E there \in {None, "state", "user", "residue"} :
          /\ state   = IF there = "state" THEN "foreign" ELSE None
          /\ user    = IF there = "user" THEN "foreign" ELSE None
          /\ residue = IF there = "residue" THEN "foreign" ELSE None

-------------------------------------------------------------------------------
(* Starting, in the lock: Manager.run, from whatever tree is at hand.      *)

Start(k) ==
    /\ op = Idle
    /\ \E v \in Versions :
          /\ k \notin Converges => v = Releases[1]         \* no matter which
          /\ op' = [kind |-> k, pc |-> "preflight", half |-> FALSE, rev |-> v,
                    target |-> None,       \* where the snapshot went
                    kept |-> None,         \* the snapshot a rollback takes
                    aside |-> None,        \* a tree under a name of its own
                    switched |-> FALSE, rolled |-> FALSE, fresh |-> FALSE,
                    paused |-> FALSE,      \* suspended, when it was looked up
                    before |-> Installed,
                    asked |-> db]          \* observation
    /\ UNCHANGED <<records, host, db, conf, trees, unit, snapshots, service, seen>>

In(kinds, p) == op.kind \in kinds /\ op.pc = p /\ ~op.half
Halfway(kinds, p) == op.kind \in kinds /\ op.pc = p /\ op.half
Goto(p) == op' = [op EXCEPT !.pc = p, !.half = FALSE]
GoHalfway == op' = [op EXCEPT !.half = TRUE]

-------------------------------------------------------------------------------
(* install, repair and update: Manager._execute_install and _execute_repair*)

Owned == marker # None \/ pending

\* _collision_preflight: without a record nothing may be there, not even what an
\* uninstall leaves behind.
NoCollision ==
    Owned \/ (/\ state = None /\ user = None /\ residue = None
              /\ conf = None /\ runtime = None /\ old = None /\ unit = None)

Accepted ==
    CASE op.kind = "install" -> NoCollision /\ marker \in {None, op.rev}
      [] op.kind = "repair"  -> marker = op.rev
      [] op.kind = "update"  -> marker # None /\ ~Older(op.rev, marker)

Preflight ==
    /\ In(Converges, "preflight")
    /\ Accepted
    /\ op' = IF op.kind = "update" /\ op.rev = marker THEN Idle
             ELSE [op EXCEPT !.pc = IF marker = None THEN "transaction" ELSE "snapshot",
                             !.fresh = (marker = None),
                             !.target = CASE marker = None   -> None
                                          [] marker = op.rev -> "transient"
                                          [] OTHER           -> "recovery"]
    /\ UNCHANGED <<records, host, db, conf, trees, unit, snapshots, service, seen>>

Put(target, s) ==
    /\ recovery'  = IF target = "recovery" THEN s ELSE recovery
    /\ transient' = IF target = "transient" THEN s ELSE transient

\* An earlier snapshot is emptied before the new one is written, part by part in
\* any order: what is left of it counts while its snapshot.json is there.
Cleared(s) ==
    {Empty} \cup
    IF Whole(s) THEN [marker : {s.marker, None}, db : {s.db, None},
                      conf : {s.conf, None}, sound : {FALSE}]
    ELSE {}

Earlier == IF op.target = "recovery" THEN recovery ELSE transient

ClearSnapshot ==
    /\ In(Converges, "snapshot")
    /\ \E left \in Cleared(Earlier) : Put(op.target, left)
    /\ GoHalfway
    /\ UNCHANGED <<records, host, db, conf, trees, unit, service, seen>>

TakeSnapshot ==
    /\ Halfway(Converges, "snapshot")
    /\ Put(op.target, Snapshot)
    /\ Goto("accounts")
    /\ UNCHANGED <<records, host, db, conf, trees, unit, service, seen>>

Journalled == pending' = TRUE

\* _ensure_transaction: the state root, then the record in it.
EnsureTransaction ==
    /\ In(Converges, "transaction") \/ Halfway(Converges, "transaction")
    /\ IF ~pending /\ ~op.half
       THEN state = None /\ state' = "ours" /\ GoHalfway /\ UNCHANGED pending
       ELSE Journalled /\ Goto("accounts") /\ UNCHANGED state
    /\ UNCHANGED <<marker, host, db, conf, trees, unit, snapshots, service, seen>>

\* _ensure_accounts; an account that is not as it should be is refused.
EnsureAccounts ==
    /\ In(Converges, "accounts")
    /\ user # "foreign"
    /\ user' = "ours"
    /\ Goto("paths")
    /\ UNCHANGED <<records, residue, db, conf, trees, unit, snapshots, service, seen>>

EnsurePaths ==
    /\ In(Converges, "paths")
    /\ residue' = "ours"
    /\ conf' = IF conf = None THEN Empty ELSE conf
    /\ recovery' = IF recovery = None THEN Empty ELSE recovery
    /\ Goto("runtime")
    /\ UNCHANGED <<records, user, db, trees, unit, transient, service, seen>>

\* _switch_staged_runtime: what is installed is moved aside; to the rollback root
\* only when the version changes.
MoveAside ==
    /\ In(Converges, "runtime") /\ runtime # None
    /\ runtime' = None
    /\ IF op.target = "transient"
       THEN /\ op' = [op EXCEPT !.half = TRUE, !.aside = runtime]
            /\ UNCHANGED old
       ELSE /\ op' = [op EXCEPT !.half = TRUE, !.rolled = TRUE]
            /\ old' = runtime
    /\ UNCHANGED <<records, host, db, conf, unit, snapshots, service, seen>>

PutInPlace ==
    /\ Halfway(Converges, "runtime") \/ (In(Converges, "runtime") /\ runtime = None)
    /\ runtime' = op.rev
    /\ op' = [op EXCEPT !.pc = "configuration", !.half = FALSE, !.switched = TRUE]
    /\ UNCHANGED <<records, host, db, conf, old, unit, snapshots, service, seen>>

DeployConfiguration ==
    /\ In(Converges, "configuration")
    /\ conf' = op.rev
    /\ Goto("database")
    /\ UNCHANGED <<records, host, db, trees, unit, snapshots, service, seen>>

Initialized_anew == "active"        \* mutant: the settings are written anew
Initialized == IF db = None THEN "active" ELSE db

\* _initialize_database; install looks the suspension up right after it.
InitializeDatabase ==
    /\ In(Converges, "database")
    /\ db' = Initialized
    /\ op' = [op EXCEPT !.pc = "unit", !.paused = (db' = "suspended")]
    /\ UNCHANGED <<records, host, conf, trees, unit, snapshots, service, seen>>

DeployUnit ==
    /\ In(Converges \cup {"rollback"}, "unit")
    /\ unit' = runtime
    /\ Goto("service")
    /\ UNCHANGED <<records, host, db, conf, trees, snapshots, service, seen>>

\* `systemctl enable --now': one that runs is not started again.
Started ==
    /\ enabled' = TRUE
    /\ proc' = IF proc = None THEN runtime ELSE proc

SettleService ==
    /\ In(Converges \cup {"rollback"}, "service")
    /\ IF (IF op.kind \in {"install", "update"} THEN op.paused ELSE db = "suspended")
       THEN /\ proc' = IF op.kind \in {"install", "update"} THEN None ELSE proc
            /\ UNCHANGED enabled
       ELSE Started
    /\ Goto("verify")
    /\ UNCHANGED <<records, host, db, conf, trees, unit, snapshots, seen>>

\* The parts of verify_checks.  _runtime_is_root_controlled compares the tree with
\* the marker that is there, which an update has not replaced yet.
ResourcesAreOurs ==
    user = "ours" /\ residue = "ours" /\ db # None /\ conf = op.rev

RuntimeIsOfMarker == runtime = IF marker = None THEN op.rev ELSE marker

ServiceFits == (db = "suspended") = (proc = None)

Verified == ResourcesAreOurs /\ RuntimeIsOfMarker /\ ServiceFits

WriteMarker ==
    /\ In({"install", "update"}, "verify")
    /\ Verified
    /\ marker' = op.rev
    /\ Goto("forget")
    /\ UNCHANGED <<pending, state, host, db, conf, trees, unit, snapshots, service, seen>>

ForgetTransaction ==
    /\ In(Converges, "forget")
    /\ pending' = FALSE
    /\ Goto("commit")
    /\ UNCHANGED <<marker, state, host, db, conf, trees, unit, snapshots, service, seen>>

\* _commit_runtime_switch; the snapshot of the operation itself goes with it.
Commit ==
    /\ In(Converges, "commit") \/ (In({"repair"}, "verify") /\ Verified)
    /\ transient' = IF op.target = "transient" THEN None ELSE transient
    /\ op' = Idle
    /\ broken' = FALSE
    /\ UNCHANGED <<records, host, db, conf, trees, unit, recovery, service, failures>>

Converge ==
    \/ Preflight \/ ClearSnapshot \/ TakeSnapshot \/ EnsureTransaction
    \/ EnsureAccounts \/ EnsurePaths \/ MoveAside \/ PutInPlace
    \/ DeployConfiguration \/ InitializeDatabase \/ DeployUnit \/ SettleService
    \/ WriteMarker \/ ForgetTransaction \/ Commit

-------------------------------------------------------------------------------
(* rollback: Manager._execute_rollback.                                    *)

RollbackPreflight ==
    /\ In({"rollback"}, "preflight")
    /\ marker # None /\ old # None
    /\ Goto("keep")
    /\ UNCHANGED <<records, host, db, conf, trees, unit, snapshots, service, seen>>

\* What is current is kept, while the service goes on.
KeepCurrent ==
    /\ In({"rollback"}, "keep")
    /\ op' = [op EXCEPT !.kept = Snapshot, !.pc = "stop"]
    /\ UNCHANGED <<records, host, db, conf, trees, unit, snapshots, service, seen>>

StopService ==
    /\ In({"rollback"}, "stop")
    /\ proc' = None
    /\ Goto("swap")
    /\ UNCHANGED <<records, host, db, conf, trees, unit, snapshots, enabled, seen>>

\* _swap_runtime_trees: three renames, there and, when undone, back.
Swapping == op.kind = "rollback" /\ op.pc \in {"swap", "undo trees"}

SwapOut ==
    /\ Swapping /\ op.aside = None
    /\ op.pc = "undo trees" => op.switched
    /\ runtime # None /\ old # None
    /\ op' = [op EXCEPT !.aside = runtime]
    /\ runtime' = None
    /\ UNCHANGED <<records, host, db, conf, old, unit, snapshots, service, seen>>

SwapIn ==
    /\ Swapping /\ op.aside # None /\ runtime = None
    /\ runtime' = old /\ old' = None
    /\ UNCHANGED <<records, host, db, conf, unit, snapshots, service, op, seen>>

SwapBack ==
    /\ Swapping /\ op.aside # None /\ runtime # None
    /\ old' = op.aside
    /\ op' = [op EXCEPT !.aside = None, !.switched = (op.pc = "swap"),
                        !.pc = IF op.pc = "swap" THEN "restore" ELSE "undo restore"]
    /\ UNCHANGED <<records, host, db, conf, runtime, unit, snapshots, service, seen>>

\* _restore_state: database and configuration first, the marker last, each only
\* if the snapshot has it.
Restorable(s) == Whole(s) /\ user = "ours"

RestoreContents_db(s) ==                     \* mutant: the configuration is left
    /\ db'   = IF s.db = None THEN db ELSE s.db
    /\ UNCHANGED conf
RestoreContents(s) ==
    /\ db'   = IF s.db = None THEN db ELSE s.db
    /\ conf' = IF s.conf = None THEN conf ELSE s.conf

RestoreMarker(s) == marker' = IF s.marker = None THEN marker ELSE s.marker

Restore ==
    /\ op.kind = "rollback" /\ op.pc = "restore"
    /\ Restorable(recovery)
    /\ IF ~op.half
       THEN RestoreContents(recovery) /\ GoHalfway /\ UNCHANGED marker
       ELSE RestoreMarker(recovery) /\ Goto("unit") /\ UNCHANGED <<db, conf>>
    /\ UNCHANGED <<pending, state, host, trees, unit, snapshots, service, seen>>

\* The end: _rotate_recovery_snapshot, once the marker is that of the runtime.
Rotate ==
    /\ In({"rollback"}, "verify")
    /\ marker = runtime
    /\ recovery' = op.kept
    /\ broken' = (broken \/ ~recovery.sound)
    /\ op' = Idle
    /\ UNCHANGED <<records, host, db, conf, trees, unit, transient, service, failures>>

Rollback ==
    \/ RollbackPreflight \/ KeepCurrent \/ StopService \/ SwapOut \/ SwapIn
    \/ SwapBack \/ Restore \/ Rotate

-------------------------------------------------------------------------------
(* Undoing: Manager._restore_failed_switch, and the end of a rollback.     *)

Undoes(p) == In(Converges \cup {"rollback"}, p)

UndoStop ==
    /\ Undoes("undo stop")
    /\ proc' = None
    /\ Goto("undo trees")
    /\ UNCHANGED <<records, host, db, conf, trees, unit, snapshots, enabled, seen>>

PutBack_not == <<runtime, old>>              \* mutant: the new runtime stays
PutBack ==
    IF ~op.switched \/ op.kind = "rollback" THEN <<runtime, old>>
    ELSE IF op.aside # None   THEN <<op.aside, old>>
    ELSE IF op.rolled         THEN <<old, None>>
    ELSE <<runtime, old>>

UndoTrees ==
    /\ Undoes("undo trees")
    /\ op.kind = "rollback" => ~op.switched /\ op.aside = None
    /\ runtime' = PutBack[1] /\ old' = PutBack[2]
    /\ Goto("undo restore")
    /\ UNCHANGED <<records, host, db, conf, unit, snapshots, service, seen>>

UndoSource ==
    CASE op.kind = "rollback"    -> op.kept
      [] op.target = "transient" -> transient
      [] OTHER                   -> recovery

UndoRestore ==
    /\ op.kind \in Converges \cup {"rollback"} /\ op.pc = "undo restore"
    /\ IF ~Whole(UndoSource)
       THEN Goto("undo unit") /\ UNCHANGED <<marker, db, conf>>
       ELSE IF ~op.half
       THEN /\ Restorable(UndoSource)
            /\ RestoreContents(UndoSource) /\ GoHalfway /\ UNCHANGED marker
       ELSE RestoreMarker(UndoSource) /\ Goto("undo unit") /\ UNCHANGED <<db, conf>>
    /\ UNCHANGED <<pending, state, host, trees, unit, snapshots, service, seen>>

\* Converging operations start again only what is all there.
CanServe == runtime # None /\ db # None /\ conf # None

UndoUnit ==
    /\ Undoes("undo unit")
    /\ CanServe \/ op.kind # "rollback"
    /\ unit' = IF CanServe THEN runtime ELSE unit
    /\ Goto("undo service")
    /\ UNCHANGED <<records, host, db, conf, trees, snapshots, service, seen>>

StartedAgain_never == UNCHANGED service      \* mutant: it stays stopped
StartedAgain == IF CanServe /\ db = "active" THEN Started ELSE UNCHANGED service

UndoService ==
    /\ Undoes("undo service")
    /\ StartedAgain
    /\ Goto("undo end")
    /\ UNCHANGED <<records, host, db, conf, trees, unit, snapshots, seen>>

\* Where nothing was installed there is nothing to go back to.
UndoEnd ==
    /\ Undoes("undo end")
    /\ transient' = IF op.target = "transient" THEN None ELSE transient
    /\ marker' = IF op.fresh THEN None ELSE marker
    /\ broken' = (broken \/ op.before.runtime = None)
    /\ op' = Idle
    /\ UNCHANGED <<pending, state, host, db, conf, trees, unit, recovery, service,
                   failures>>

Undo == UndoStop \/ UndoTrees \/ UndoRestore \/ UndoUnit \/ UndoService \/ UndoEnd

-------------------------------------------------------------------------------
(* suspend, resume and uninstall.                                          *)

Flags == Uninstalls \cup {"suspend", "resume"}

ResumeAccepted ==
    user = "ours" /\ runtime # None /\ unit # None /\ conf \notin {None, Empty}

FlagPreflight ==
    /\ In(Flags, "preflight")
    /\ marker # None
    /\ op.kind \in {"suspend", "resume"} => db # None
    /\ op.kind = "resume" => ResumeAccepted
    /\ Goto("flag")
    /\ UNCHANGED <<records, host, db, conf, trees, unit, snapshots, service, seen>>

Flag ==
    /\ In(Flags, "flag")
    /\ db' = IF db = None THEN None
             ELSE IF op.kind = "resume" THEN "active" ELSE "suspended"
    /\ Goto(IF op.kind = "resume" THEN "start" ELSE "stop")
    /\ UNCHANGED <<records, host, conf, trees, unit, snapshots, service, seen>>

\* _execute_suspend stops the service, an uninstall disables it too.
Stop ==
    /\ In(Flags, "stop")
    /\ proc' = None
    /\ IF op.kind = "suspend"
       THEN op' = Idle /\ UNCHANGED enabled
       ELSE Goto("host") /\ enabled' = FALSE
    /\ UNCHANGED <<records, host, db, conf, trees, unit, snapshots, seen>>

Resume ==
    /\ In({"resume"}, "start")
    /\ Started
    /\ op' = Idle
    /\ UNCHANGED <<records, host, db, conf, trees, unit, snapshots, seen>>

RemoveHost ==
    /\ In(Uninstalls, "host")
    /\ unit' = None
    /\ Goto("runtime")
    /\ UNCHANGED <<records, host, db, conf, trees, snapshots, service, seen>>

RemoveTrees ==
    /\ In(Uninstalls, "runtime")
    /\ runtime' = None
    /\ old' = IF runtime = None THEN None ELSE old
    /\ Goto(IF runtime = None THEN "configuration" ELSE "runtime")
    /\ UNCHANGED <<records, host, db, conf, unit, snapshots, service, seen>>

RemoveConfiguration ==
    /\ In(Uninstalls, "configuration")
    /\ conf' = None
    /\ Goto("user")
    /\ UNCHANGED <<records, host, db, trees, unit, snapshots, service, seen>>

RemoveAccount ==
    /\ In(Uninstalls, "user")
    /\ user' = None
    /\ Goto("state")
    /\ UNCHANGED <<records, residue, db, conf, trees, unit, snapshots, service, seen>>

Retain ==
    /\ In({"retain"}, "state")
    /\ op' = Idle
    /\ broken' = FALSE
    /\ UNCHANGED <<records, host, db, conf, trees, unit, snapshots, service, failures>>

\* The marker and the snapshots go with the state root.
Purge ==
    /\ In({"purge"}, "state")
    /\ marker' = None /\ pending' = FALSE /\ state' = None
    /\ db' = None /\ recovery' = None /\ transient' = None
    /\ op' = Idle
    /\ broken' = FALSE
    /\ UNCHANGED <<host, conf, trees, unit, service, failures>>

Small ==
    \/ FlagPreflight \/ Flag \/ Stop \/ Resume \/ RemoveHost \/ RemoveTrees
    \/ RemoveConfiguration \/ RemoveAccount \/ Retain \/ Purge

-------------------------------------------------------------------------------
(* Failures.                                                               *)

Declined ==
    /\ op # Idle /\ op.pc = "preflight"
    /\ CASE op.kind \in Converges -> ~Accepted
         [] op.kind = "rollback"  -> marker = None \/ old = None
         [] OTHER -> \/ marker = None
                     \/ op.kind \in {"suspend", "resume"} /\ db = None
                     \/ op.kind = "resume" /\ ~ResumeAccepted
    /\ op' = Idle
    /\ UNCHANGED <<records, host, db, conf, trees, unit, snapshots, service, seen>>

\* A step that cannot succeed, however often it is repeated.
Blocked ==
    \/ In(Converges, "transaction") /\ ~pending /\ state # None
    \/ In(Converges, "accounts") /\ user = "foreign"
    \/ In(Converges, "verify") /\ ~Verified
    \/ Swapping /\ op.aside = None /\ (runtime = None \/ old = None)
          /\ (op.pc = "undo trees" => op.switched)
    \/ op.kind = "rollback" /\ op.pc = "restore" /\ ~Restorable(recovery)
    \/ op.kind = "rollback" /\ op.pc = "verify" /\ marker # runtime
    \/ op.pc = "undo restore" /\ Whole(UndoSource) /\ ~Restorable(UndoSource)
    \/ In({"rollback"}, "undo unit") /\ ~CanServe

Undoing == {"undo stop", "undo trees", "undo restore", "undo unit", "undo service",
            "undo end"}

\* A rename that fails is undone on the spot.
Renamed ==
    IF op.pc = "runtime" /\ op.half
    THEN <<IF op.rolled THEN old ELSE op.aside, IF op.rolled THEN None ELSE old>>
    ELSE IF Swapping /\ op.aside # None
    THEN <<op.aside, IF runtime = None THEN old ELSE runtime>>
    ELSE <<runtime, old>>

May ==
    \/ Blocked /\ UNCHANGED failures
    \/ failures < MaxFailures /\ failures' = failures + 1

StepIsUndone ==
    /\ op # Idle /\ op.kind \in Converges \cup {"rollback"}
    /\ op.pc \notin Undoing \cup {"preflight", "snapshot", "keep"}
    /\ op.pc = "commit" => op.aside # None
    /\ May
    /\ runtime' = Renamed[1] /\ old' = Renamed[2]
    /\ op' = [op EXCEPT !.pc = "undo stop", !.half = FALSE,
                        !.aside = IF op.kind # "rollback" /\ op.switched THEN @ ELSE None,
                        !.rolled = op.rolled /\ op.switched]
    /\ UNCHANGED <<records, host, db, conf, unit, snapshots, service, broken>>

\* What fails elsewhere is left as it is; but the marker of a first installation goes
\* all the same, unless it was the service that did not stop.
StepFails ==
    /\ op # Idle
    /\ op.pc \in Undoing \cup {"snapshot", "keep"} \/ op.kind \in Flags
    /\ op.pc \notin {"preflight", "undo end"} /\ <<op.kind, op.pc>> # <<"resume", "start">>
    /\ May
    /\ broken' = (broken \/ op.pc \notin {"snapshot", "keep", "flag"})
    /\ runtime' = Renamed[1] /\ old' = Renamed[2]
    /\ marker' = IF op.fresh /\ op.pc \in Undoing \ {"undo stop"} THEN None ELSE marker
    /\ op' = Idle
    /\ UNCHANGED <<pending, state, host, db, conf, unit, snapshots, service>>

\* When the service does not get ready in time _start_service has failed already,
\* and the suspension is not put back; it is when the last look at it fails.
ResumeFails ==
    /\ In({"resume"}, "start")
    /\ May
    /\ \/ Started /\ UNCHANGED db
       \/ UNCHANGED <<db, service>>
       \/ enabled' = TRUE /\ proc' = None /\ db' = "suspended"
    /\ broken' = TRUE
    /\ op' = Idle
    /\ UNCHANGED <<records, host, conf, trees, unit, snapshots>>

\* The process is killed: nothing is undone.
Killed ==
    /\ op # Idle /\ op.pc # "preflight"
    /\ failures < MaxFailures /\ failures' = failures + 1
    /\ broken' = TRUE
    /\ op' = Idle
    /\ UNCHANGED <<records, host, db, conf, trees, unit, snapshots, service>>

\* The host starts again; the unit wants its configuration to be there.
Reboot ==
    /\ op = Idle
    /\ failures < MaxFailures /\ failures' = failures + 1
    /\ proc' = IF enabled /\ unit # None /\ conf \notin {None, Empty} THEN runtime ELSE None
    /\ UNCHANGED <<records, host, db, conf, trees, unit, snapshots, enabled, op, broken>>

\* POST /api/suspend of the chat service: at any time, in the middle of anything.
OwnerSuspends ==
    /\ proc # None /\ db = "active"
    /\ db' = "suspended"
    /\ UNCHANGED <<records, host, conf, trees, unit, snapshots, service, op, seen>>

Next ==
    \/ \E k \in Kinds : Start(k)
    \/ Converge \/ Rollback \/ Undo \/ Small
    \/ Declined \/ StepIsUndone \/ StepFails \/ ResumeFails \/ Killed
    \/ Reboot \/ OwnerSuspends

\* No fairness: an operation may be abandoned at any step.
Spec == Init /\ [][Next]_vars

-------------------------------------------------------------------------------
(* Correctness.                                                            *)

\* Between operations marker, runtime, configuration and unit are of one version, or
\* all but the marker is gone, however often an operation has failed and been undone.
VersionsAgree ==
    op = Idle /\ ~broken /\ marker # None =>
        \/ {runtime, conf, unit} = {marker}
        \/ {runtime, conf, unit} = {None}

\* One that is not suspended is up, and comes up with the host.
ActiveIsServed ==
    op = Idle /\ ~broken /\ marker # None /\ db = "active" => enabled /\ proc # None

\* An operation that fails and is undone leaves behind it what it found; one that
\* keeps the version, and a rollback, also what a rollback needs.
FailureIsUndone ==
    [][op # Idle /\ op.pc = "undo end" /\ op' = Idle /\ ~broken' /\ ~op.fresh =>
        /\ marker' = op.before.marker /\ conf' = op.before.conf
        /\ runtime' = op.before.runtime /\ unit' = op.before.unit
        /\ op.target # "recovery" =>
              /\ old' = op.before.old
              /\ Whole(op.before.recovery) => recovery' = op.before.recovery]_vars

\* However an install, a repair, an update or a suspend ends, also when it is undone
\* or killed, a Friend that was suspended before still is.
SuspensionIsKept ==
    [][op # Idle /\ op' = Idle /\ op.asked = "suspended"
            /\ op.kind \in Converges \cup {"suspend"} => db' = "suspended"]_vars

\* An update in which nothing fails has put the newer version in place ("performs
\* the health and boundary gates before writing the new marker",
\* products/imaginary-friend/docs/UPGRADING.md).
UpdateInstalls ==
    [][op # Idle /\ op' = Idle /\ op.kind = "update" /\ op.pc # "preflight"
            /\ failures' = 0 => marker' = op.rev]_vars

\* A rollback "preserves suspension" (the same document).
RollbackKeepsSuspension ==
    [][op # Idle /\ op' = Idle /\ op.kind = "rollback" /\ op.asked = "suspended"
            => db' = "suspended"]_vars
=============================================================================
