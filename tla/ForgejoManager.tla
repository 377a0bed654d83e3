---------------------------- MODULE ForgejoManager -----------------------------
(***************************************************************************)
(* The host manager of Forgejo (products/forgejo/payload/agent/forgejo/    *)
(* management.py).  Two services depend on each other here, the server and *)
(* a runner that another component installs, and the state is more than    *)
(* files: a PostgreSQL database that users write to while the server runs. *)
(*                                                                         *)
(* Left out: which instance it is (a snapshot never outlives the install   *)
(* root it lies in), the release of Forgejo, the adoption of installations *)
(* older than the marker, packages, the administrator, receipts.  A tree   *)
(* is copied or removed in one step, and recovery commands work once.      *)
(* Confirming a plan is no step of its own: the digest is computed again   *)
(* in the lock, so a late confirmation is refused or is one given then;    *)
(* only its boot preference may be old, and any preference may be chosen.  *)
(***************************************************************************)
EXTENDS Naturals, FiniteSets, Sequences

CONSTANTS
    Releases,     \* the versions of the product, the oldest first
    Preferences,  \* what may be chosen: enabled at boot or not
    MaxFailures,  \* bound on steps that fail and on kills
    None

Versions == {Releases[n] : n \in DOMAIN Releases}

ASSUME BoundsAssumption == Preferences \subseteq BOOLEAN /\ MaxFailures \in Nat
ASSUME NamesAssumption == None \notin Versions

Older(v, w) == \E m, n \in DOMAIN Releases : m < n /\ Releases[m] = v /\ Releases[n] = w

VARIABLES
    marker,     \* installation.json: the version installed
    pending,    \* .product-installing.json exists
    retained,   \* .product-retained.json exists
    suspended,  \* .product-suspended.json: what resume has to restore
    disk,       \* what there is of the account, the roots and their contents
    db,         \* PostgreSQL: nothing, a role, an empty database, a full one
    snapshot,   \* rollback.json and the archive it names
    unit,       \* the two services: active, enabled, runner installed
    failures,
    op,         \* the operation that holds the lock
    cut         \* observation: an operation was killed, or a rollback failed, or
                \* it brought back a state of that kind, and nothing was
                \* suspended since

records == <<marker, pending, retained, suspended>>
vars == <<records, disk, db, snapshot, unit, failures, op, cut>>

-------------------------------------------------------------------------------
(* State.                                                                  *)

Roots    == {"opt", "etc", "state", "cache", "log", "backups"}
Contents == {"product", "host", "binary", "app", "route"}
Parts    == Roots \cup Contents \cup {"user"}

Present(p) == disk[p] # "none"

Converges  == {"install", "repair", "update"}
Uninstalls == {"retain", "purge"}
BacksUp    == {"update", "backup", "rollback"}
Kinds == Converges \cup Uninstalls \cup BacksUp \cup {"suspend", "resume"}

Idle == [kind |-> "none"]

Off(u) == [u EXCEPT !.server = FALSE, !.runner = FALSE,
                    !.boot = FALSE, !.runnerBoot = FALSE]

Init ==
    /\ marker = None /\ pending = FALSE /\ retained = FALSE /\ suspended = None
    /\ \E others \in SUBSET (Roots \cup {"host", "user"}) :
          /\ Cardinality(others) <= 1
          /\ disk = [p \in Parts |-> IF p \in others THEN "foreign" ELSE "none"]
    /\ db \in {"none", "role"}
    /\ snapshot = None
    /\ unit = [server |-> FALSE, runner |-> FALSE, boot |-> FALSE,
               runnerBoot |-> FALSE, installed |-> FALSE]
    /\ failures = 0
    /\ op = Idle /\ cut = FALSE

-------------------------------------------------------------------------------
(* Planning, and the lock.                                                 *)

\* Manager.configuration: the boot preference is asked for, or stays as it is.
Boots(k) == IF k \in Converges THEN Preferences ELSE {FALSE}

\* Manager.run, from whatever tree the operator has.
Start(k) ==
    /\ op = Idle
    /\ \E v \in Versions, b \in Boots(k) :
          /\ k \notin Converges => v = Releases[1]       \* no matter which
          /\ op' = [kind |-> k, pc |-> "preflight", half |-> FALSE,
                    rev |-> v, boot |-> b, safe |-> "no",
                    server |-> FALSE, runner |-> FALSE, taken |-> None]
    /\ UNCHANGED <<records, disk, db, snapshot, unit, failures, cut>>

In(kinds, p) == op.kind \in kinds /\ op.pc = p /\ ~op.half
Halfway(kinds, p) == op.kind \in kinds /\ op.pc = p /\ op.half
Goto(p) == op' = [op EXCEPT !.pc = p, !.half = FALSE]
GoHalfway == op' = [op EXCEPT !.half = TRUE]
Put(ps, c) == disk' = [p \in Parts |-> IF p \in ps THEN c ELSE disk[p]]

-------------------------------------------------------------------------------
(* Services.                                                               *)

FirstStopped_server == "server"    \* mutant: the runner loses its server
FirstStopped == "runner"

Stops == Converges \cup Uninstalls \cup {"rollback", "suspend"}

\* _stop_services: the first of the two, once it is known what runs.
BeginStop ==
    /\ In(BacksUp, "back up") \/ In(Stops, "stop")
    /\ op' = [op EXCEPT !.half = TRUE, !.server = unit.server, !.runner = unit.runner]
    /\ unit' = [unit EXCEPT ![FirstStopped] = FALSE]
    /\ UNCHANGED <<records, disk, db, snapshot, failures, cut>>

AfterStop ==
    IF op.pc = "back up" THEN "dump"
    ELSE CASE op.kind \in Converges -> "account"
           [] op.kind = "rollback"  -> "drop"
           [] OTHER                 -> "disable"

\* From there on, install, repair and update are one: _execute_install.
AfterAll == IF op.kind \in Converges /\ op.pc = "stop" THEN "install" ELSE op.kind

EndStop ==
    /\ Halfway(BacksUp, "back up") \/ Halfway(Stops, "stop")
    /\ unit' = [unit EXCEPT !.server = FALSE, !.runner = FALSE]
    /\ op' = [op EXCEPT !.pc = AfterStop, !.half = FALSE, !.kind = AfterAll]
    /\ UNCHANGED <<records, disk, db, snapshot, failures, cut>>

-------------------------------------------------------------------------------
(* backup, and the backup that comes before update and rollback:           *)
(* Manager._coordinated_backup.                                            *)

DatabaseExists == db \in {"empty", "full"}

BackupPossible == marker # None /\ Present("app") /\ DatabaseExists

Archive ==
    [rev |-> marker, full |-> (db = "full"), boot |-> unit.boot,
     suspended |-> suspended, retained |-> retained,
     whole |-> Present("product") /\ Present("binary"),
     sound |-> ~cut]                  \* observation

\* What of the database the operation has archived: an observation.
Dumped_never == "no"           \* mutant: the archive has no dump
Dumped == "all"

Dump ==
    /\ In(BacksUp, "dump")
    /\ BackupPossible
    /\ op' = [op EXCEPT !.taken = IF op.kind = "backup" THEN None ELSE Archive,
                        !.pc = "restart", !.safe = Dumped]
    /\ Put({"backups"}, "ours")
    /\ UNCHANGED <<records, db, snapshot, unit, failures, cut>>

Restarts == op.server /\ suspended = None

RestartServer ==
    /\ In(BacksUp, "restart")
    /\ unit' = [unit EXCEPT !.server = @ \/ Restarts]
    /\ GoHalfway
    /\ UNCHANGED <<records, disk, db, snapshot, failures, cut>>

\* _restore_runner, when the server and its route answer.
RestartRunner ==
    /\ Halfway(BacksUp, "restart")
    /\ unit' = [unit EXCEPT !.runner = Restarts /\ op.runner]
    /\ CASE op.kind = "update"   -> Goto("record")
         [] op.kind = "rollback" -> Goto("stop")
         [] OTHER                -> op' = Idle
    /\ UNCHANGED <<records, disk, db, snapshot, failures, cut>>

\* _snapshot_for_rollback, in update: what an earlier update left is replaced.
RecordSnapshot ==
    /\ In({"update"}, "record")
    /\ snapshot' = op.taken
    /\ disk' = [disk EXCEPT !["opt"] = IF @ = "none" THEN "ours" ELSE @]
    /\ op' = [op EXCEPT !.pc = "stop", !.taken = None]
    /\ UNCHANGED <<records, db, unit, failures, cut>>

BackUp == Dump \/ RestartServer \/ RestartRunner \/ RecordSnapshot

-------------------------------------------------------------------------------
(* install, repair and update: Manager._execute_install.                   *)

\* _collision_preflight: nothing is adopted without a record of it, not even the
\* log of an installation that was purged.
NoCollision ==
    marker = None /\ ~pending => \A p \in Parts : ~Present(p)

Accepted ==
    /\ NoCollision
    /\ op.kind \in {"repair", "update"} => marker # None
    /\ op.kind = "update" => ~Older(op.rev, marker)

BacksUpBeforeInstall == op.kind = "install" /\ marker \notin {None, op.rev}

Preflight ==
    /\ In(Converges, "preflight")
    /\ Accepted
    /\ Goto(IF op.kind = "update" THEN "back up"
            ELSE IF BacksUpBeforeInstall THEN "pre-install" ELSE "stop")
    /\ UNCHANGED <<records, disk, db, snapshot, unit, failures, cut>>

\* This archive is taken while the services run, and no snapshot names it.
PreInstallBackup ==
    /\ In(Converges, "pre-install")
    /\ BackupPossible
    /\ Put({"backups"}, "ours")
    /\ Goto("stop")
    /\ UNCHANGED <<records, db, snapshot, unit, failures, cut>>

\* An account that does not look as it should is refused.
EnsureAccount ==
    /\ In(Converges, "account")
    /\ disk["user"] # "foreign"
    /\ Put({"user"}, "ours")
    /\ Goto("layout")
    /\ UNCHANGED <<records, db, snapshot, unit, failures, cut>>

EnsureLayout ==
    /\ In(Converges, "layout")
    /\ Put(Roots, "ours")
    /\ Goto("transaction")
    /\ UNCHANGED <<records, db, snapshot, unit, failures, cut>>

Journalled == pending' = TRUE

\* _ensure_transaction
EnsureTransaction ==
    /\ In(Converges, "transaction")
    /\ Journalled
    /\ Goto("product")
    /\ UNCHANGED <<marker, retained, suspended, disk, db, snapshot, unit, failures,
                   cut>>

\* _deploy_product leaves a tree that matches; another one is moved away first.
ProductIsCurrent ==
    /\ In(Converges, "product") /\ Present("product")
    /\ Goto("host")
    /\ UNCHANGED <<records, disk, db, snapshot, unit, failures, cut>>

MoveProduct ==
    /\ In(Converges, "product") /\ Present("product")
    /\ Put({"product"}, "none")
    /\ GoHalfway
    /\ UNCHANGED <<records, db, snapshot, unit, failures, cut>>

PlaceProduct ==
    /\ Halfway(Converges, "product") \/ (In(Converges, "product") /\ ~Present("product"))
    /\ Put({"product"}, "ours")
    /\ Goto("host")
    /\ UNCHANGED <<records, db, snapshot, unit, failures, cut>>

InstallAssets ==
    /\ In(Converges, "host")
    /\ Put({"host"}, "ours")
    /\ Goto("binary")
    /\ UNCHANGED <<records, db, snapshot, unit, failures, cut>>

\* Downloaded and checked in the cache, then written in place.
InstallBinary ==
    /\ In(Converges, "binary")
    /\ Put({"binary"}, "ours")
    /\ Goto("database")
    /\ UNCHANGED <<records, db, snapshot, unit, failures, cut>>

\* _configure_database: what exists must be what app.ini has the password of.
DatabaseFits == db # "none" => Present("app")

ConfigureDatabase ==
    /\ In(Converges, "database")
    /\ DatabaseFits
    /\ db' = IF db \in {"none", "role"} THEN "empty" ELSE db
    /\ Goto("app")
    /\ UNCHANGED <<records, disk, snapshot, unit, failures, cut>>

WriteConfiguration ==
    /\ In(Converges, "app")
    /\ Put({"app"}, "ours")
    /\ Goto("route")
    /\ UNCHANGED <<records, db, snapshot, unit, failures, cut>>

ConfigureCaddy ==
    /\ In(Converges, "route")
    /\ Put({"route"}, "ours")
    /\ Goto("migrate")
    /\ UNCHANGED <<records, db, snapshot, unit, failures, cut>>

Migrate ==
    /\ In(Converges, "migrate")
    /\ db' = "full"
    /\ Goto("admin")
    /\ UNCHANGED <<records, disk, snapshot, unit, failures, cut>>

\* The administrator is one of the rows of the database.
EnsureAdmin ==
    /\ In(Converges, "admin")
    /\ Goto("activate")
    /\ UNCHANGED <<records, disk, db, snapshot, unit, failures, cut>>

\* _activate_service restarts the server even where it is suspended.
Activate ==
    /\ In(Converges, "activate")
    /\ unit' = [unit EXCEPT !.boot = op.boot, !.server = TRUE]
    /\ Goto("settle")
    /\ UNCHANGED <<records, disk, db, snapshot, failures, cut>>

\* _enforce_suspension
Enforced(u) == Off(u)

SettleServices ==
    /\ In(Converges, "settle")
    /\ unit' = IF suspended # None THEN Enforced(unit)
               ELSE [unit EXCEPT !.runner = op.runner]
    /\ Goto("retained")
    /\ UNCHANGED <<records, disk, db, snapshot, failures, cut>>

ForgetRetained ==
    /\ In(Converges, "retained")
    /\ retained' = FALSE
    /\ Goto("marker")
    /\ UNCHANGED <<marker, pending, suspended, disk, db, snapshot, unit, failures,
                   cut>>

WriteMarker ==
    /\ In(Converges, "marker")
    /\ marker' = op.rev
    /\ Goto("pending")
    /\ UNCHANGED <<pending, retained, suspended, disk, db, snapshot, unit, failures,
                   cut>>

ForgetPending ==
    /\ In(Converges, "pending")
    /\ pending' = FALSE
    /\ op' = Idle
    /\ UNCHANGED <<marker, retained, suspended, disk, db, snapshot, unit, failures,
                   cut>>

Converge ==
    \/ Preflight \/ PreInstallBackup
    \/ EnsureAccount \/ EnsureLayout \/ EnsureTransaction
    \/ ProductIsCurrent \/ MoveProduct \/ PlaceProduct
    \/ InstallAssets \/ InstallBinary \/ ConfigureDatabase
    \/ WriteConfiguration \/ ConfigureCaddy \/ Migrate \/ EnsureAdmin
    \/ Activate \/ SettleServices
    \/ ForgetRetained \/ WriteMarker \/ ForgetPending

-------------------------------------------------------------------------------
(* rollback: Manager._execute_rollback.                                    *)

RollbackAccepted == marker # None /\ snapshot # None

RollbackPreflight ==
    /\ In({"rollback"}, "preflight")
    /\ RollbackAccepted
    /\ Goto("back up")
    /\ UNCHANGED <<records, disk, db, snapshot, unit, failures, cut>>

\* _restore_database: dropped and created, then filled.
DropDatabase ==
    /\ In({"rollback"}, "drop")
    /\ snapshot.whole
    /\ db' = "empty"
    /\ Goto("load")
    /\ UNCHANGED <<records, disk, snapshot, unit, failures, cut>>

LoadDatabase ==
    /\ In({"rollback"}, "load")
    /\ db' = IF snapshot.full THEN "full" ELSE "empty"
    /\ Goto("remove etc")
    /\ UNCHANGED <<records, disk, snapshot, unit, failures, cut>>

RemoveConfiguration ==
    /\ In({"rollback"}, "remove etc")
    /\ Put({"etc", "app"}, "none")
    /\ Goto("remove state")
    /\ UNCHANGED <<records, db, snapshot, unit, failures, cut>>

\* The state root, the records in it, and the product.
RemoveRecords ==
    /\ In({"rollback"}, "remove state")
    /\ marker' = None /\ pending' = FALSE /\ retained' = FALSE /\ suspended' = None
    /\ Put({"state", "product"}, "none")
    /\ Goto("copy etc")
    /\ UNCHANGED <<db, snapshot, unit, failures, cut>>

CopyConfiguration ==
    /\ In({"rollback"}, "copy etc")
    /\ Put({"etc", "app"}, "ours")
    /\ Goto("copy state")
    /\ UNCHANGED <<records, db, snapshot, unit, failures, cut>>

CopyRecords ==
    /\ In({"rollback"}, "copy state")
    /\ marker' = snapshot.rev
    /\ suspended' = snapshot.suspended /\ retained' = snapshot.retained
    /\ Put({"state", "product"}, "ours")
    /\ Goto("runtime")
    /\ UNCHANGED <<pending, db, snapshot, unit, failures, cut>>

RestoreRuntime ==
    /\ In({"rollback"}, "runtime")
    /\ Put({"binary", "host", "route"}, "ours")
    /\ Goto("start")
    /\ UNCHANGED <<records, db, snapshot, unit, failures, cut>>

StartedAfter(u) ==
    [u EXCEPT !.server = snapshot.suspended = None, !.boot = snapshot.boot]

StartServer ==
    /\ In({"rollback"}, "start")
    /\ unit' = StartedAfter(unit)
    /\ GoHalfway
    /\ UNCHANGED <<records, disk, db, snapshot, failures, cut>>

StartRunner ==
    /\ Halfway({"rollback"}, "start")
    /\ unit' = [unit EXCEPT !.runner = op.runner /\ snapshot.suspended = None]
    /\ Goto("record")
    /\ UNCHANGED <<records, disk, db, snapshot, failures, cut>>

\* The state that was left can be returned to.
RecordReverse ==
    /\ In({"rollback"}, "record")
    /\ snapshot' = op.taken
    /\ op' = Idle
    /\ cut' = ~snapshot.sound
    /\ UNCHANGED <<records, disk, db, unit, failures>>

Rollback ==
    \/ RollbackPreflight \/ DropDatabase \/ LoadDatabase
    \/ RemoveConfiguration \/ RemoveRecords \/ CopyConfiguration \/ CopyRecords
    \/ RestoreRuntime \/ StartServer \/ StartRunner \/ RecordReverse

-------------------------------------------------------------------------------
(* suspend and resume; backup itself.                                      *)

BackupPreflight ==
    /\ In({"backup"}, "preflight")
    /\ marker # None
    /\ Goto("back up")
    /\ UNCHANGED <<records, disk, db, snapshot, unit, failures, cut>>

SuspendAccepted == marker # None /\ ~retained /\ (unit.runner => unit.server)

AlreadySuspended == suspended # None

SuspendAgain ==
    /\ In({"suspend"}, "preflight")
    /\ marker # None /\ ~retained
    /\ AlreadySuspended
    /\ unit' = Off(unit)
    /\ op' = Idle /\ cut' = FALSE
    /\ UNCHANGED <<records, disk, db, snapshot, failures>>

RecordIntents ==
    /\ In({"suspend"}, "preflight")
    /\ SuspendAccepted /\ ~AlreadySuspended
    /\ op' = [op EXCEPT !.pc = "stop",
                        !.taken = [server |-> unit.server, runner |-> unit.runner,
                                   boot |-> unit.boot, runnerBoot |-> unit.runnerBoot]]
    /\ UNCHANGED <<records, disk, db, snapshot, unit, failures, cut>>

Disable ==
    /\ In(Uninstalls \cup {"suspend"}, "disable")
    /\ unit' = IF op.kind = "suspend" THEN Off(unit) ELSE [unit EXCEPT !.boot = FALSE]
    /\ Goto(CASE op.kind = "suspend" -> "suspended"
              [] op.kind = "retain"  -> "route"
              [] OTHER               -> "drop")
    /\ UNCHANGED <<records, disk, db, snapshot, failures, cut>>

Suspend ==
    /\ In({"suspend"}, "suspended")
    /\ suspended' = op.taken
    /\ op' = Idle /\ cut' = FALSE
    /\ UNCHANGED <<marker, pending, retained, disk, db, snapshot, unit, failures>>

\* The parts of verify_checks; of a retained installation nothing is checked.
HostFilesValid == Present("host") /\ Present("binary") /\ disk["user"] = "ours"

ConfigurationValid == Present("app")

RouteValid == Present("route")

StaysSuspended == unit = Off(unit)

Verified ==
    /\ HostFilesValid /\ ConfigurationValid /\ DatabaseExists /\ RouteValid
    /\ StaysSuspended

ResumeAccepted ==
    /\ marker # None
    /\ suspended # None /\ ~retained => Verified
    /\ suspended # None => (suspended.runner => unit.installed)

ResumePreflight ==
    /\ In({"resume"}, "preflight")
    /\ ResumeAccepted
    /\ IF suspended = None THEN op' = Idle ELSE Goto("start")
    /\ UNCHANGED <<records, disk, db, snapshot, unit, failures, cut>>

\* The unit is gone while the state is retained.
Startable == ~retained \/ ~(suspended.boot \/ suspended.server)

ResumeServer ==
    /\ In({"resume"}, "start")
    /\ Startable
    /\ unit' = [unit EXCEPT !.boot = suspended.boot, !.server = @ \/ suspended.server,
                            !.runnerBoot = unit.installed /\ suspended.runnerBoot]
    /\ GoHalfway
    /\ UNCHANGED <<records, disk, db, snapshot, failures, cut>>

ResumeRunner ==
    /\ Halfway({"resume"}, "start")
    /\ unit' = [unit EXCEPT !.runner = @ \/ suspended.runner]
    /\ Goto("forget")
    /\ UNCHANGED <<records, disk, db, snapshot, failures, cut>>

Resume ==
    /\ In({"resume"}, "forget")
    /\ suspended' = None
    /\ op' = Idle
    /\ UNCHANGED <<marker, pending, retained, disk, db, snapshot, unit, failures,
                   cut>>

Small ==
    \/ BackupPreflight \/ SuspendAgain \/ RecordIntents \/ Disable \/ Suspend
    \/ ResumePreflight \/ ResumeServer \/ ResumeRunner \/ Resume

-------------------------------------------------------------------------------
(* uninstall: Manager._execute_uninstall.                                  *)

UninstallAccepted == marker # None /\ ~unit.installed

UninstallPreflight ==
    /\ In(Uninstalls, "preflight")
    /\ UninstallAccepted
    /\ Goto("stop")
    /\ UNCHANGED <<records, disk, db, snapshot, unit, failures, cut>>

\* _drop_database reads the names in app.ini.
DropData ==
    /\ In({"purge"}, "drop")
    /\ Present("app")
    /\ db' = IF db \in {"none", "role"} THEN "none" ELSE "role"
    /\ IF db' = "none" THEN Goto("route") ELSE UNCHANGED op
    /\ UNCHANGED <<records, disk, snapshot, unit, failures, cut>>

RemoveHost ==
    /\ In(Uninstalls, "route")
    /\ \E ps \in {{"route"}, {"route", "host", "binary"}} :
          /\ Put(ps, "none")
          /\ Goto(IF "host" \in ps THEN "opt" ELSE "route")
    /\ UNCHANGED <<records, db, snapshot, unit, failures, cut>>

RemoveInstallRoot ==
    /\ In(Uninstalls, "opt")
    /\ Put({"opt", "product", "cache"}, "none")
    /\ snapshot' = None
    /\ Goto(IF op.kind = "retain" THEN "retain" ELSE "etc")
    /\ UNCHANGED <<records, db, unit, failures, cut>>

Retain ==
    /\ In({"retain"}, "retain")
    /\ retained' = TRUE
    /\ op' = Idle
    /\ UNCHANGED <<marker, pending, suspended, disk, db, snapshot, unit, failures,
                   cut>>

PurgeConfiguration ==
    /\ In({"purge"}, "etc")
    /\ Put({"etc", "app"}, "none")
    /\ Goto("state")
    /\ UNCHANGED <<records, db, snapshot, unit, failures, cut>>

PurgeState ==
    /\ In({"purge"}, "state")
    /\ marker' = None /\ pending' = FALSE /\ retained' = FALSE /\ suspended' = None
    /\ Put({"state"}, "none")
    /\ Goto("backups")
    /\ UNCHANGED <<db, snapshot, unit, failures, cut>>

PurgeBackups ==
    /\ In({"purge"}, "backups")
    /\ Put({"backups"}, "none")
    /\ Goto("user")
    /\ UNCHANGED <<records, db, snapshot, unit, failures, cut>>

RemoveAccount ==
    /\ In({"purge"}, "user")
    /\ Put({"user"}, "none")
    /\ op' = Idle
    /\ UNCHANGED <<records, db, snapshot, unit, failures, cut>>

Uninstall ==
    \/ UninstallPreflight \/ DropData \/ RemoveHost \/ RemoveInstallRoot
    \/ Retain \/ PurgeConfiguration \/ PurgeState \/ PurgeBackups \/ RemoveAccount

-------------------------------------------------------------------------------
(* Failures.                                                               *)

\* A check of the operation itself fails: nothing has been changed yet.
Declined ==
    /\ op # Idle /\ op.pc = "preflight"
    /\ CASE op.kind \in Converges  -> ~Accepted
         [] op.kind = "rollback"   -> ~RollbackAccepted
         [] op.kind = "suspend"    -> ~SuspendAccepted /\ ~(AlreadySuspended /\ ~retained)
         [] op.kind = "resume"     -> ~ResumeAccepted
         [] op.kind = "backup"     -> marker = None
         [] OTHER                  -> ~UninstallAccepted
    /\ op' = Idle
    /\ UNCHANGED <<records, disk, db, snapshot, unit, failures, cut>>

\* A step that cannot succeed, however often it is repeated.
Blocked ==
    \/ In(BacksUp, "dump") /\ ~BackupPossible
    \/ In(Converges, "pre-install") /\ ~BackupPossible
    \/ In(Converges, "account") /\ disk["user"] = "foreign"
    \/ In(Converges, "database") /\ ~DatabaseFits
    \/ In({"rollback"}, "drop") /\ ~snapshot.whole
    \/ In({"resume"}, "start") /\ ~Startable
    \/ In({"purge"}, "drop") /\ ~Present("app")

\* The server, and the runner if the server answers, are started again.
Again(u) ==
    {[u EXCEPT !.server = FALSE, !.runner = FALSE],
     [u EXCEPT !.server = TRUE, !.runner = FALSE],
     [u EXCEPT !.server = TRUE, !.runner = op.runner]}

\* A server that does not answer on the loopback is stopped and disabled.
Unanswered(u) == {u, [u EXCEPT !.server = FALSE, !.boot = FALSE]}

RecoveredSuspension_not(u) == u      \* mutant: a failure forgets the suspension
RecoveredSuspension(u) == Enforced(u)

\* _restore_after_failed_mutation, in the converging operations.
Recovered(u) ==
    IF suspended # None THEN {RecoveredSuspension(u)}
    ELSE IF op.server /\ Present("host")
    THEN UNION {Again(w) : w \in IF op.pc = "settle" THEN Unanswered(u) ELSE {u}}
    ELSE IF op.pc = "settle" THEN Unanswered(u) ELSE {u}

PcOfBackup == {"preflight", "back up", "dump", "restart", "record", "pre-install", "stop"}

StepFails ==
    /\ op # Idle /\ op.pc # "preflight"
    /\ \/ Blocked /\ UNCHANGED failures
       \/ failures < MaxFailures /\ failures' = failures + 1
    /\ unit' \in
         IF op.kind = "resume" THEN {Off(unit)}
         ELSE IF op.kind \in Converges /\ op.pc \notin PcOfBackup THEN Recovered(unit)
         ELSE IF op.pc = "dump" /\ Restarts THEN Again(unit)
         ELSE IF op.half /\ op.pc \in {"restart", "start"} THEN Unanswered(unit)
         ELSE {unit}
    /\ cut' = (cut \/ (op.kind = "rollback" /\ (IF op.pc = "record" THEN ~snapshot.sound
                                                ELSE op.pc \notin PcOfBackup)))
    /\ op' = Idle
    /\ UNCHANGED <<records, disk, db, snapshot>>

\* The process is killed: nothing is recovered.
Killed ==
    /\ op # Idle /\ op.pc # "preflight"
    /\ failures < MaxFailures /\ failures' = failures + 1
    /\ cut' = TRUE
    /\ op' = Idle
    /\ UNCHANGED <<records, disk, db, snapshot, unit>>

\* The installer of the core repository adds the runner to a server that runs,
\* or removes it.
RunnerChanges ==
    /\ op = Idle
    /\ unit' = IF unit.installed
               THEN [unit EXCEPT !.installed = FALSE, !.runner = FALSE, !.runnerBoot = FALSE]
               ELSE [unit EXCEPT !.installed = TRUE, !.runner = TRUE, !.runnerBoot = TRUE]
    /\ unit.installed \/ unit.server
    /\ UNCHANGED <<records, disk, db, snapshot, failures, op, cut>>

\* A user pushes, or opens an issue, whenever the server runs: here, when that is
\* not in the archive any more.
UserWrites ==
    /\ unit.server /\ db = "full"
    /\ op # Idle /\ op.safe = "all"
    /\ op' = [op EXCEPT !.safe = "some"]
    /\ UNCHANGED <<records, disk, db, snapshot, unit, failures, cut>>

Next ==
    \/ \E k \in Kinds : Start(k)
    \/ BeginStop \/ EndStop \/ BackUp
    \/ Converge \/ Rollback \/ Small \/ Uninstall
    \/ Declined \/ StepFails \/ Killed \/ RunnerChanges \/ UserWrites

\* No fairness: an operation may be abandoned at any step.
Spec == Init /\ [][Next]_vars

-------------------------------------------------------------------------------
(* Correctness.                                                            *)

\* Between operations, nothing of a suspended installation runs and its server is
\* not enabled, whatever was attempted since and however it failed; only a kill
\* and a failed rollback are excepted.
SuspensionHolds ==
    op = Idle /\ suspended # None /\ ~cut =>
        ~unit.server /\ ~unit.runner /\ ~unit.boot

\* The runner never runs without its server: not in the middle of an operation,
\* nor after any failure or kill.
RunnerNeedsServer == unit.runner => unit.server

\* A database is replaced, or removed by anything but a purge, only when the same
\* operation has archived what it held.
DataIsArchived ==
    [][db = "full" /\ db' # "full" /\ op.kind # "purge" => op.safe # "no"]_vars

\* "so the transition can be reversed" (products/forgejo/docs/RECOVERY.md): and
\* when it has everything that it held.
DataIsNotLost ==
    [][db = "full" /\ db' # "full" /\ op.kind # "purge" => op.safe = "all"]_vars

\* Suspension "disables both units so a reboot cannot bypass" it
\* (products/forgejo/docs/OPERATIONS.md), also when a rollback brings it back.
RebootKeepsSuspension ==
    op = Idle /\ suspended # None /\ ~cut => ~unit.boot /\ ~unit.runnerBoot
=============================================================================
