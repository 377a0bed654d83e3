----------------------------- MODULE LlamaManager ------------------------------
(***************************************************************************)
(* The host manager of Llama (products/llama/payload/agent/llama/          *)
(* management.py).  Unlike Beep's, it undoes nothing: an operation that    *)
(* fails or is killed leaves what it has done, and the next one goes on    *)
(* from there.  What makes that safe is the order of its steps, and the    *)
(* snapshot that an update takes before it writes.                         *)
(*                                                                         *)
(* A version of the product stands for its catalogues and its runtime as   *)
(* well.  The source tree may change while a caller waits, and does not    *)
(* change while an operation reads it.                                     *)
(* Left out: the adoption of installations older than the marker, the      *)
(* archive of a backup, the size and speed settings, receipts.             *)
(***************************************************************************)
EXTENDS Naturals, FiniteSets, Sequences

CONSTANTS
    Ids,          \* instance identities (a bound: each is generated once)
    Releases,     \* the versions of the product, the oldest first
    Waiting,      \* operations whose caller may sit at the confirmation
    MaxFailures,  \* bound on steps that fail, kills and restarts of the host
    None

Versions == {Releases[n] : n \in DOMAIN Releases}

ASSUME BoundsAssumption == MaxFailures \in Nat
ASSUME NamesAssumption ==
    None \notin Ids /\ Versions \cap {"none", "ours", "mixed", "foreign"} = {}

Older(v, w) == \E m, n \in DOMAIN Releases : m < n /\ Releases[m] = v /\ Releases[n] = w

VARIABLES
    marker,     \* installation.json: the identity and the version installed
    pending,    \* .installing.json: the identity of a first installation
    retained,   \* retained.json exists
    kept,       \* retained-config.json exists
    suspended,  \* suspended.json exists
    disk,       \* what there is of the account, the roots and their contents
    snapshot,   \* the rollback directory in the install root
    service,    \* the unit is active
    boot,       \* the unit is enabled
    source,     \* version of the tree the operator runs the manager from
    used, failures,
    asked,      \* a caller that was shown a plan and has not confirmed it yet
    op,         \* the operation that holds the lock
    cut         \* observation: an operation that rewrites the installed version
                \* was cut short, or one copied a tree of another version, and
                \* no whole installation was completed since

records == <<marker, pending, retained, kept, suspended>>
unit    == <<service, boot>>
world   == <<source, used, failures>>
vars == <<records, disk, snapshot, unit, world, asked, op, cut>>

-------------------------------------------------------------------------------
(* State.                                                                  *)

Roots    == {"opt", "etc", "state", "cache", "log"}
Contents == {"product", "runtime", "config", "host", "model"}
Parts    == Roots \cup Contents \cup {"user"}

Present(p) == disk[p] # "none"

States == Versions \cup {"none", "ours", "mixed", "foreign"}

Copied == {"product", "runtime", "config", "host"}

Markers == [id : Ids, rev : Versions]

Snapshots ==
    [rev : Versions, marker : Markers, boot : BOOLEAN, suspended : BOOLEAN,
     sound : BOOLEAN, parts : [Copied -> States]]

ASSUME RecordsAssumption == None \notin Markers \cup Snapshots

Converges  == {"install", "repair", "update"}
Uninstalls == {"retain", "purge"}
Kinds == Converges \cup Uninstalls \cup {"backup", "rollback", "suspend", "resume"}

ASSUME WaitingAssumption == Waiting \subseteq Kinds

Idle == [kind |-> "none"]

Init ==
    /\ marker = None /\ pending = None
    /\ retained = FALSE /\ kept = FALSE /\ suspended = FALSE
    /\ \E others \in SUBSET (Roots \cup {"host"}) :
          /\ Cardinality(others) <= 1
          /\ disk = [p \in Parts |-> IF p \in others THEN "foreign" ELSE "none"]
    /\ snapshot = None /\ service = FALSE /\ boot = FALSE
    /\ source \in Versions /\ used = {} /\ failures = 0
    /\ asked = Idle /\ op = Idle /\ cut = FALSE

-------------------------------------------------------------------------------
(* Planning, outside the lock, and the lock.                               *)

InstanceId == IF marker # None THEN marker.id ELSE None

\* Manager.configuration: whether the server is started at boot is asked for, or
\* stays as it is.
Boots(k) == IF k \in Converges THEN BOOLEAN ELSE {FALSE}

Plan(k) == [kind |-> k, rev |-> source, id |-> InstanceId]

\* The digest that is computed again in the lock takes the settings of the first
\* one, and the version and the catalogues that were read when the manager was
\* started: only the identity can differ.
Current(plan) == plan.id = InstanceId

Ask(k) ==
    /\ asked = Idle
    /\ asked' = Plan(k)
    /\ UNCHANGED <<records, disk, snapshot, unit, world, op, cut>>

Start(plan) ==
    /\ op = Idle /\ Current(plan)
    /\ \E b \in Boots(plan.kind) :
          op' = [kind |-> plan.kind, pc |-> "preflight", half |-> FALSE,
                 rev |-> plan.rev, id |-> None, boot |-> b,
                 changed |-> FALSE, kept |-> FALSE]
    /\ UNCHANGED <<records, disk, snapshot, unit, world, cut>>

Call(k) == Start(Plan(k)) /\ UNCHANGED asked

Confirmed == asked # Idle /\ Start(asked) /\ asked' = Idle

Refused ==
    /\ asked # Idle
    /\ op # Idle \/ ~Current(asked)
    /\ asked' = Idle
    /\ UNCHANGED <<records, disk, snapshot, unit, world, op, cut>>

In(kinds, p) == op.kind \in kinds /\ op.pc = p /\ ~op.half
Halfway(kinds, p) == op.kind \in kinds /\ op.pc = p /\ op.half
Goto(p) == op' = [op EXCEPT !.pc = p, !.half = FALSE]
GoHalfway == op' = [op EXCEPT !.half = TRUE]
Put(p, c) == disk' = [disk EXCEPT ![p] = c]

-------------------------------------------------------------------------------
(* install, repair and update: Manager._execute_install.                   *)

\* _collision_preflight: nothing is adopted without a record of it, but a log
\* that carries the product's mark.
NoCollision ==
    marker = None /\ pending = None =>
        \A p \in Roots \cup {"host", "user"} :
            Present(p) => p = "log" /\ disk[p] = "ours"

Accepted ==
    /\ NoCollision
    /\ op.kind = "repair" => marker # None /\ marker.rev = op.rev
    /\ op.kind = "update" => marker # None /\ ~Older(op.rev, marker.rev)

Identities ==
    IF marker # None THEN {marker.id}
    ELSE IF pending # None THEN {pending} ELSE Ids \ used

TakesSnapshot ==
    \/ op.kind = "update"
    \/ op.kind = "install" /\ marker # None /\ marker.rev # op.rev

Preflight ==
    /\ In(Converges, "preflight")
    /\ Accepted
    /\ \E i \in Identities :
          /\ op' = [op EXCEPT !.id = i,
                              !.pc = IF TakesSnapshot THEN "snapshot" ELSE "roots"]
          /\ used' = used \cup {i}
    /\ UNCHANGED <<records, disk, snapshot, unit, source, failures, asked, cut>>

Saved ==
    [rev |-> marker.rev, marker |-> marker, boot |-> boot, suspended |-> suspended,
     sound |-> ~cut,           \* observation: taken of a whole installation
     parts |-> [p \in Copied |-> disk[p]]]

SnapshotKept_never == FALSE        \* mutant: every attempt saves what it finds
\* An earlier attempt to leave this version has saved it.
SnapshotKept == snapshot # None /\ snapshot.rev = marker.rev

\* _snapshot_for_rollback: the directory is made in the install root.
TakeSnapshot ==
    /\ In(Converges, "snapshot")
    /\ SnapshotKept \/ Present("opt")
    /\ snapshot' = IF SnapshotKept THEN snapshot ELSE Saved
    /\ Goto("roots")
    /\ UNCHANGED <<records, disk, unit, world, asked, cut>>

EnsureRoots ==
    /\ In(Converges, "roots")
    /\ disk' = [p \in Parts |->
                  IF p \in Roots \ {"log"} /\ ~Present(p) THEN "ours" ELSE disk[p]]
    /\ Goto("transaction")
    /\ UNCHANGED <<records, snapshot, unit, world, asked, cut>>

Journalled_never == UNCHANGED pending      \* mutant: nothing is recorded
Journalled == pending' = IF marker = None THEN op.id ELSE pending

\* _ensure_transaction
EnsureTransaction ==
    /\ In(Converges, "transaction")
    /\ Journalled
    /\ Goto("account")
    /\ UNCHANGED <<marker, retained, kept, suspended, disk, snapshot, unit, world,
                   asked, cut>>

EnsureAccount ==
    /\ In(Converges, "account")
    /\ disk["user"] # "foreign"
    /\ disk' = [disk EXCEPT !["user"] = "ours", !["log"] = "ours"]
    /\ Goto("product")
    /\ UNCHANGED <<records, snapshot, unit, world, asked, cut>>

\* The files are those of the tree now; the release, the model and the version in
\* the marker are those that were read when the manager was started.
Unchanged == op.rev = source

\* _deploy_product: the old tree is moved aside, then the new one into place.
MoveProduct ==
    /\ In(Converges, "product")
    /\ IF Unchanged /\ disk["product"] = source
         THEN Goto("runtime") /\ UNCHANGED disk
         ELSE GoHalfway /\ Put("product", "none")
    /\ UNCHANGED <<records, snapshot, unit, world, asked, cut>>

DeployProduct ==
    /\ Halfway(Converges, "product")
    /\ Put("product", source)
    /\ Goto("runtime")
    /\ UNCHANGED <<records, snapshot, unit, world, asked, cut>>

\* _install_runtime and _install_model: what is downloaded is verified before
\* it gets its name, and the link to the runtime is replaced at once.
InstallRuntime ==
    /\ In(Converges, "runtime")
    /\ disk' = [disk EXCEPT !["runtime"] = op.rev]
    /\ Goto("model")
    /\ UNCHANGED <<records, snapshot, unit, world, asked, cut>>

InstallModel ==
    /\ In(Converges, "model")
    /\ Put("model", "ours")
    /\ Goto("config")
    /\ UNCHANGED <<records, snapshot, unit, world, asked, cut>>

\* _deploy_configuration writes those files that differ, in both places: the
\* settings beside the descriptor and the catalogues, and the files of the host.
Settings == IF Unchanged THEN op.rev ELSE "mixed"

Deployed == Unchanged /\ disk["config"] = op.rev /\ disk["host"] = op.rev

BeginConfiguration ==
    /\ In(Converges, "config")
    /\ IF Deployed
         THEN UNCHANGED disk /\ Goto("service")
         ELSE /\ disk' = [disk EXCEPT !["config"] = "mixed", !["host"] = "mixed"]
              /\ op' = [op EXCEPT !.half = TRUE, !.changed = TRUE]
    /\ UNCHANGED <<records, snapshot, unit, world, asked, cut>>

EndConfiguration ==
    /\ Halfway(Converges, "config")
    /\ disk' = [disk EXCEPT !["config"] = Settings, !["host"] = source]
    /\ Goto("service")
    /\ UNCHANGED <<records, snapshot, unit, world, asked, cut>>

Wanted(b) == b /\ ~suspended

\* _apply_service_state: a suspended server is stopped and stays enabled.
ApplyService(b) ==
    /\ service' = Wanted(b)
    /\ boot' = IF suspended THEN boot ELSE b

StartService ==
    /\ In(Converges, "service")
    /\ ApplyService(op.boot)
    /\ op' = [op EXCEPT !.pc = "check",
                        !.changed = @ \/ service' # service \/ boot' # boot]
    /\ UNCHANGED <<records, disk, snapshot, world, asked, cut>>

\* Where nothing was changed, the server is expected to answer.
Answers == op.changed \/ ~op.boot \/ service

WriteMarker ==
    /\ In(Converges, "check")
    /\ Answers
    /\ marker' = [id |-> op.id, rev |-> op.rev]
    /\ Goto("forget pending")
    /\ UNCHANGED <<pending, retained, kept, suspended, disk, snapshot, unit, world,
                   asked, cut>>

ForgetPending ==
    /\ In(Converges, "forget pending")
    /\ pending' = None
    /\ Goto("forget retained")
    /\ UNCHANGED <<marker, retained, kept, suspended, disk, snapshot, unit, world,
                   asked, cut>>

ForgetRetained ==
    /\ In(Converges, "forget retained")
    /\ retained' = FALSE /\ kept' = FALSE
    /\ op' = Idle /\ cut' = ~Unchanged
    /\ UNCHANGED <<marker, pending, suspended, disk, snapshot, unit, world, asked>>

Converge ==
    \/ Preflight \/ TakeSnapshot \/ EnsureRoots \/ EnsureTransaction \/ EnsureAccount
    \/ MoveProduct \/ DeployProduct \/ InstallRuntime \/ InstallModel
    \/ BeginConfiguration \/ EndConfiguration \/ StartService
    \/ WriteMarker \/ ForgetPending \/ ForgetRetained

-------------------------------------------------------------------------------
(* rollback: Manager._execute_rollback.                                    *)

RollbackAccepted ==
    /\ marker # None /\ snapshot # None
    /\ \A p \in {"product", "config"} : snapshot.parts[p] # "none"
    /\ snapshot.parts["runtime"] # "none"

StopForRollback ==
    /\ In({"rollback"}, "preflight")
    /\ RollbackAccepted
    /\ service' = FALSE /\ boot' = FALSE
    /\ Goto("product")
    /\ UNCHANGED <<records, disk, snapshot, world, asked, cut>>

Restored == [product |-> "config", config |-> "host"]

\* The product is moved away, the configuration removed; then each is copied.
BeginRestore ==
    /\ \E p \in DOMAIN Restored : In({"rollback"}, p)
    /\ op.pc = "product" => Present("product")
    /\ \E left \in {"none", "mixed"} : Put(op.pc, left)
    /\ GoHalfway
    /\ UNCHANGED <<records, snapshot, unit, world, asked, cut>>

EndRestore(p) ==
    /\ Halfway({"rollback"}, p)
    /\ Put(p, snapshot.parts[p])
    /\ Goto(Restored[p])
    /\ UNCHANGED <<records, snapshot, unit, world, asked, cut>>

BeginRestoreHost ==
    /\ In({"rollback"}, "host")
    /\ Put("host", "mixed")
    /\ GoHalfway
    /\ UNCHANGED <<records, snapshot, unit, world, asked, cut>>

\* The marker is the last of the files.
EndRestoreHost ==
    /\ Halfway({"rollback"}, "host")
    /\ Put("host", snapshot.parts["host"])
    /\ marker' = snapshot.marker
    /\ Goto("runtime")
    /\ UNCHANGED <<pending, retained, kept, suspended, snapshot, unit, world, asked, cut>>

RestoreRuntime ==
    /\ In({"rollback"}, "runtime")
    /\ Put("runtime", snapshot.parts["runtime"])
    /\ Goto("suspension")
    /\ UNCHANGED <<records, snapshot, unit, world, asked, cut>>

RestoreSuspension ==
    /\ In({"rollback"}, "suspension")
    /\ suspended' = snapshot.suspended
    /\ Goto("service")
    /\ UNCHANGED <<marker, pending, retained, kept, disk, snapshot, unit, world,
                   asked, cut>>

RestoreService ==
    /\ In({"rollback"}, "service")
    /\ ApplyService(snapshot.boot)
    /\ Goto("forget")
    /\ UNCHANGED <<records, disk, snapshot, world, asked, cut>>

ForgetSnapshot ==
    /\ In({"rollback"}, "forget")
    /\ snapshot' = None
    /\ op' = Idle
    /\ cut' = (cut \/ ~snapshot.sound)
    /\ UNCHANGED <<records, disk, unit, world, asked>>

Rollback ==
    \/ StopForRollback \/ BeginRestore \/ \E p \in DOMAIN Restored : EndRestore(p)
    \/ BeginRestoreHost \/ EndRestoreHost
    \/ RestoreRuntime \/ RestoreSuspension \/ RestoreService \/ ForgetSnapshot

-------------------------------------------------------------------------------
(* backup, suspend and resume.                                             *)

\* The archive lies outside the resources modelled here.
Backup ==
    /\ In({"backup"}, "preflight")
    /\ marker # None
    /\ op' = Idle
    /\ UNCHANGED <<records, disk, snapshot, unit, world, asked, cut>>

StopForSuspend ==
    /\ In({"suspend"}, "preflight")
    /\ marker # None
    /\ service' = FALSE
    /\ Goto("record")
    /\ UNCHANGED <<records, disk, snapshot, boot, world, asked, cut>>

Suspend ==
    /\ In({"suspend"}, "record")
    /\ suspended' = TRUE
    /\ op' = Idle
    /\ UNCHANGED <<marker, pending, retained, kept, disk, snapshot, unit, world,
                   asked, cut>>

\* The parts of verify_checks.
AccountValid == disk["user"] = "ours"

\* The owner and the mode of each file: its content is not compared.
HostFilesValid == Present("host") /\ disk["log"] = "ours"

\* The paths, the release and the model in the settings are those of the tree
\* that is run.  The files beside them are not compared.
ConfigurationPathsValid == disk["config"] \in {op.rev, "mixed"}

RuntimeValid == Present("runtime")

\* A server that would start with the host is up.
ServiceFits == suspended \/ ~boot \/ service

ResumeAccepted ==
    /\ marker # None /\ ~retained
    /\ HostFilesValid /\ AccountValid
    /\ ConfigurationPathsValid /\ RuntimeValid /\ Present("model")
    /\ ServiceFits

\* Files that were being replaced may be those or others, all there or not.
ResumeUnclear == disk["host"] = "mixed" \/ disk["config"] = "mixed"

ForgetSuspension ==
    /\ In({"resume"}, "preflight")
    /\ ResumeAccepted
    /\ suspended' = FALSE
    /\ Goto("start")
    /\ UNCHANGED <<marker, pending, retained, kept, disk, snapshot, unit, world,
                   asked, cut>>

Resume ==
    /\ In({"resume"}, "start")
    /\ service' = TRUE
    /\ op' = Idle
    /\ UNCHANGED <<records, disk, snapshot, boot, world, asked, cut>>

Small == Backup \/ StopForSuspend \/ Suspend \/ ForgetSuspension \/ Resume

-------------------------------------------------------------------------------
(* uninstall: Manager._execute_uninstall.                                  *)

UninstallPreflight ==
    /\ In(Uninstalls, "preflight")
    /\ marker # None
    /\ Put("log", "ours")
    /\ op' = [op EXCEPT !.pc = "stop", !.kept = Present("config")]
    /\ UNCHANGED <<records, snapshot, unit, world, asked, cut>>

Stopped_enabled == service' = FALSE /\ UNCHANGED boot   \* mutant: still enabled
Stopped == service' = FALSE /\ boot' = FALSE

StopForUninstall ==
    /\ In(Uninstalls, "stop")
    /\ Stopped
    /\ Goto("host")
    /\ UNCHANGED <<records, disk, snapshot, world, asked, cut>>

\* Files go one by one.
RemoveSome(p) ==
    /\ In(Uninstalls, p)
    /\ Put(p, IF Present(p) THEN "mixed" ELSE "none")
    /\ GoHalfway
    /\ UNCHANGED <<records, snapshot, unit, world, asked, cut>>

RemoveHost ==
    /\ Halfway(Uninstalls, "host")
    /\ Put("host", "none")
    /\ Goto("config")
    /\ UNCHANGED <<records, snapshot, unit, world, asked, cut>>

RemoveConfiguration ==
    /\ Halfway(Uninstalls, "config")
    /\ disk' = [disk EXCEPT !["config"] = "none", !["etc"] = "none"]
    /\ Goto("product")
    /\ UNCHANGED <<records, snapshot, unit, world, asked, cut>>

\* The install root, with the runtimes and the snapshot in it, and the cache.
RemoveInstallRoot ==
    /\ Halfway(Uninstalls, "product")
    /\ disk' = [p \in Parts |->
                  IF p \in {"product", "runtime", "opt", "cache"} THEN "none"
                  ELSE disk[p]]
    /\ snapshot' = None
    /\ Goto(IF op.kind = "retain" THEN "keep" ELSE "state")
    /\ UNCHANGED <<records, unit, world, asked, cut>>

KeepConfiguration ==
    /\ In({"retain"}, "keep")
    /\ kept' = (op.kept \/ kept)
    /\ Goto("retain")
    /\ UNCHANGED <<marker, pending, retained, suspended, disk, snapshot, unit, world,
                   asked, cut>>

\* The marker stays.
Retain ==
    /\ In({"retain"}, "retain")
    /\ retained' = TRUE
    /\ op' = Idle
    /\ UNCHANGED <<marker, pending, kept, suspended, disk, snapshot, unit, world,
                   asked, cut>>

\* rmtree: the entries of the state root go in any order, the models among the
\* records.
RemoveFromState ==
    /\ In({"purge"}, "state")
    /\ marker' \in {marker, None} /\ pending' \in {pending, None}
    /\ retained' \in {retained, FALSE} /\ kept' \in {kept, FALSE}
    /\ suspended' \in {suspended, FALSE}
    /\ \E left \in {disk["model"], "none"} : Put("model", left)
    /\ GoHalfway
    /\ UNCHANGED <<snapshot, unit, world, asked, cut>>

RemoveState ==
    /\ Halfway({"purge"}, "state")
    /\ marker' = None /\ pending' = None
    /\ retained' = FALSE /\ kept' = FALSE /\ suspended' = FALSE
    /\ disk' = [disk EXCEPT !["state"] = "none", !["model"] = "none"]
    /\ Goto("user")
    /\ UNCHANGED <<snapshot, unit, world, asked, cut>>

RemoveAccount ==
    /\ In({"purge"}, "user")
    /\ Put("user", "none")
    /\ op' = Idle
    /\ UNCHANGED <<records, snapshot, unit, world, asked, cut>>

Uninstall ==
    \/ UninstallPreflight \/ StopForUninstall
    \/ \E p \in {"host", "config", "product"} : RemoveSome(p)
    \/ RemoveHost \/ RemoveConfiguration \/ RemoveInstallRoot
    \/ KeepConfiguration \/ Retain
    \/ RemoveFromState \/ RemoveState \/ RemoveAccount

-------------------------------------------------------------------------------
(* Failures and the world.                                                 *)

\* A check of the operation itself fails: nothing has been changed yet.
Declined ==
    /\ op # Idle /\ op.pc = "preflight"
    /\ CASE op.kind \in Converges  -> ~Accepted
         [] op.kind = "rollback"   -> ~RollbackAccepted
         [] op.kind = "resume"     -> ~ResumeAccepted \/ ResumeUnclear
         [] OTHER -> marker = None
    /\ op' = Idle
    /\ UNCHANGED <<records, disk, snapshot, unit, world, asked, cut>>

\* A step that cannot succeed, however often it is repeated.
Blocked ==
    \/ In(Converges, "snapshot") /\ ~SnapshotKept /\ ~Present("opt")
    \/ In(Converges, "account") /\ disk["user"] = "foreign"
    \/ In(Converges, "check") /\ ~Answers
    \/ In({"rollback"}, "product") /\ ~Present("product")

\* Whatever rewrites the version that is installed may lose it.
Rewrites ==
    \/ op.kind \in Uninstalls \cup {"rollback"}
    \/ op.kind \in Converges /\ marker # None /\ marker.rev = op.rev

\* A step fails, or the process is killed.  Nothing is undone, but a server that
\* does not answer after resume is stopped.
StepFails ==
    /\ op # Idle
    /\ \/ Blocked /\ UNCHANGED failures
       \/ failures < MaxFailures /\ failures' = failures + 1
    /\ IF In({"resume"}, "start") THEN service' \in {service, FALSE}
       ELSE UNCHANGED service
    /\ cut' = (cut \/ (op.pc # "preflight" /\ Rewrites))
    /\ op' = Idle
    /\ UNCHANGED <<records, disk, snapshot, boot, source, used, asked>>

\* The host is restarted, between two operations: systemd starts what is enabled.
Reboot ==
    /\ op = Idle
    /\ failures < MaxFailures /\ failures' = failures + 1
    /\ service' = boot
    /\ asked' = Idle
    /\ UNCHANGED <<records, disk, snapshot, boot, source, used, op, cut>>

SourceChanges ==
    /\ op = Idle
    /\ source' \in Versions \ {source}
    /\ UNCHANGED <<records, disk, snapshot, unit, used, failures, asked, op, cut>>

\* Somebody else creates an account of that name.
AccountAppears ==
    /\ op = Idle /\ disk["user"] = "none"
    /\ failures < MaxFailures /\ failures' = failures + 1
    /\ Put("user", "foreign")
    /\ UNCHANGED <<records, snapshot, unit, source, used, asked, op, cut>>

Next ==
    \/ \E k \in Waiting : Ask(k)
    \/ \E k \in Kinds : Call(k)
    \/ Confirmed \/ Refused
    \/ Converge \/ Rollback \/ Small \/ Uninstall
    \/ Declined \/ StepFails \/ Reboot \/ SourceChanges \/ AccountAppears

\* No fairness: an operation may be abandoned at any step.
Spec == Init /\ [][Next]_vars

-------------------------------------------------------------------------------
(* Correctness.                                                            *)

\* What has been put into the roots and on the host is covered by a record at
\* every step and after every failure, so that a later operation takes it over.
\* The empty roots themselves and the account are not, nor are the models that a
\* purge had left when it was cut short and its marker was gone already.
NothingIsOrphaned ==
    marker = None /\ pending = None =>
        \A p \in Contents :
            \/ disk[p] \in {"none", "foreign"}
            \/ p = "model" /\ (cut \/ Halfway({"purge"}, "state"))

\* However often an update is cut short and repeated, the snapshot holds the
\* version that the marker names, whole.  (Where a rollback, a removal or the
\* installation of the same version was cut short before, it cannot.)
RollbackGoesBack ==
    snapshot # None /\ snapshot.sound =>
        \A p \in DOMAIN snapshot.parts : snapshot.parts[p] = snapshot.rev

\* The server runs, or would be started by a restart of the host, only where
\* its unit, its runtime, its settings, its model and its account are.
ServiceHasItsFiles ==
    service \/ boot =>
        /\ \A p \in Contents \ {"product"} : Present(p)
        /\ disk["user"] = "ours"

\* "Running install restores the runtime around that state"
\* (products/llama/docs/RECOVERY.md:24), whatever version it is run from.
RetainedCanBeInstalled ==
    retained /\ In({"install"}, "snapshot") /\ disk["user"] = "ours" => ~Blocked

\* "Execution recomputes it while holding the product lock and fails if ownership,
\* inputs, version, or ordered steps changed" (products/llama/docs/UPGRADING.md:13):
\* so an installation that completes has copied the version that its marker names.
MarkedIsInstalled ==
    In(Converges, "forget pending") => disk["product"] = marker.rev
=============================================================================
