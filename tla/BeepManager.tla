------------------------------ MODULE BeepManager ------------------------------
(***************************************************************************)
(* The host manager of Beep (products/beep/payload/agent/beep/             *)
(* management.py): what its mutating operations do to the host when they   *)
(* are interleaved with each other's planning, fail at any step, or are    *)
(* killed and repeated.                                                    *)
(*                                                                         *)
(* An operation is planned and confirmed without the lock, and executed    *)
(* under it step by step.  A step is one write of a record, one tree or    *)
(* group of host files that begins or ends to be written or removed, or    *)
(* one change of the services.  The swaps of a rollback are one step here, *)
(* with the outcomes that module Rollback shows them to have.              *)
(*                                                                         *)
(* Left out: the markerless state of installers without a record of their  *)
(* own (_legacy_partial_install), system packages, credentials, and the    *)
(* wording of plans and receipts.                                          *)
(***************************************************************************)
EXTENDS Naturals, FiniteSets

CONSTANTS
    Ids,          \* instance identities (a bound: each is generated once)
    Revs,         \* revisions of the source, each a version of its own
    Waiting,      \* operations whose caller may sit at the confirmation
    MaxFailures,  \* bound on steps that fail and processes that are killed
    MaxForeign,   \* bound on resources that somebody else creates
    None

ASSUME BoundsAssumption == MaxFailures \in Nat /\ MaxForeign \in Nat
ASSUME NamesAssumption ==
    /\ None \notin Ids /\ Revs \cap {"none", "ours", "bare", "mixed", "rooted", "foreign"} = {}
    /\ \A i \in Ids, v \in Revs : [id |-> i, rev |-> v] # None

VARIABLES
    \* records of the manager
    marker,     \* installation.json in the state root
    pending,    \* beep.installing.json beside it
    retained,   \* retained.json in the state root
    purging,    \* beep.purging.json beside it
    \* resources
    disk,       \* what there is of the account, the trees and the host files
    life,       \* runtime/lifecycle.json
    suspended,  \* suspended.json exists
    snapshot,   \* what recovery/latest names
    services,   \* the units: active and enabled, or neither
    \* the world
    source,     \* revision of the tree the operator runs the manager from
    used,       \* identities generated so far
    failures, foreigners,
    \* processes
    asked,      \* a caller that confirmed a plan and has not got the lock yet
    op,         \* the operation that holds the lock
    \* observations no step depends on, except that nothing is modelled after
    torn,       \* a rollback was cut short between two renames
    late        \* an operation other than a purge began during a purge

records   == <<marker, pending, retained, purging>>
resources == <<disk, life, suspended, snapshot>>
world     == <<source, used, failures, foreigners>>
seen      == <<torn, late>>
vars == <<records, resources, services, world, asked, op, seen>>

-------------------------------------------------------------------------------
(* State.                                                                  *)

\* Also: the Node runtime with its bridges and the copy of the source tree, which
\* are parts of the tree opt; the account; units, sudoers and commands.
Trees == {"opt", "home", "etc", "state", "log"}
Parts == Trees \cup {"node", "product", "user", "host"}

Kinds == {"converge", "suspend", "resume", "kill", "backup", "rollback",
          "retain", "purge"}

ASSUME WaitingAssumption == Waiting \subseteq Kinds

Idle == [kind |-> "none"]

Present(d, p) == d[p] # "none"
Ours(p) == disk[p] \notin {"none", "foreign"}

\* Manager.instance_id
InstanceId ==
    IF marker # None THEN marker.id ELSE IF purging # None THEN purging.id ELSE None

\* _node_runtime_supported: all but the modules has the digest it was placed with.
NodeSupported(d) == d["node"] \in Revs \cup {"bare"}

\* _bridge_runtime_valid: so have the modules, and they are those the source pins.
BridgesValid(d, rev) == d["node"] = rev

\* _runtime_valid: the runtime is, file by file, that of the source the manager is
\* run from.
RuntimeValid(d, l, rev) ==
    /\ d["opt"] = rev /\ NodeSupported(d) /\ BridgesValid(d, rev)
    /\ d["user"] = "ours" /\ l # "none"

\* The checks of descriptor, policy, credentials and family_manager: the files are
\* there and well formed.  Of which revision they are is not looked at: the
\* descriptor, which is compared with the source's, names none.
ConfigurationValid(d) == Present(d, "etc")

\* Manager.checks, service state aside.
Healthy(d, l, rev) ==
    /\ RuntimeValid(d, l, rev) /\ ConfigurationValid(d)
    /\ Present(d, "host") /\ Present(d, "home")

Nothing == [p \in Parts |-> "none"]

Init ==
    /\ marker = None /\ pending = None /\ retained = None /\ purging = None
    /\ disk = Nothing /\ life = "none" /\ suspended = FALSE /\ snapshot = None
    /\ services = "off"
    /\ source \in Revs /\ used = {} /\ failures = 0 /\ foreigners = 0
    /\ asked = Idle /\ op = Idle
    /\ torn = FALSE /\ late = FALSE

-------------------------------------------------------------------------------
(* Planning, outside the lock, and the lock.                               *)

\* What the digest binds: the operation, the source, the installed instance.
Plan(k) == [kind |-> k, rev |-> source, id |-> InstanceId]

\* _enforce_purge_boundary
Boundary(k) == purging # None => k = "purge"

\* A caller is shown its plan, and confirms it after other calls.
Ask(k) ==
    /\ asked = Idle /\ ~torn
    /\ Boundary(k)
    /\ asked' = Plan(k)
    /\ UNCHANGED <<records, resources, services, world, op, seen>>

Current(plan) == plan = Plan(plan.kind)

\* The lock is free, and the plan is the one that would be made now.
Start(plan) ==
    /\ op = Idle /\ ~torn
    /\ Current(plan)
    /\ op' = [kind |-> plan.kind, pc |-> "preflight", half |-> FALSE,
              approved |-> plan.rev, rev |-> plan.rev, id |-> None,
              prior |-> services, suspended |-> suspended,
              marked |-> marker # None, snapped |-> FALSE]
    /\ late' = (late \/ (purging # None /\ plan.kind # "purge"))
    /\ UNCHANGED <<records, resources, services, world, torn>>

\* With --yes: nothing comes between the plan and the lock.
Call(k) ==
    /\ Boundary(k)
    /\ Start(Plan(k))
    /\ UNCHANGED asked

Confirmed ==
    /\ asked # Idle
    /\ Start(asked)
    /\ asked' = Idle

\* TARGET_BUSY, or PLAN_CHANGED.
Refused ==
    /\ asked # Idle
    /\ op # Idle \/ ~Current(asked)
    /\ asked' = Idle
    /\ UNCHANGED <<records, resources, services, world, op, seen>>

\* The helpers of an operation's steps.
At(kinds, p) == op.kind \in kinds /\ op.pc = p
In(kinds, p) == At(kinds, p) /\ ~op.half
Halfway(kinds, p) == At(kinds, p) /\ op.half
Goto(p) == op' = [op EXCEPT !.pc = p, !.half = FALSE]
GoHalfway == op' = [op EXCEPT !.half = TRUE]
Done == op' = Idle
Put(p, c) == disk' = [disk EXCEPT ![p] = c]

-------------------------------------------------------------------------------
(* install, repair and update: Manager._execute_converge.                  *)

PendingFits_written ==             \* mutant: files half written are refused
    /\ disk["user"] # "foreign" /\ disk["host"] \notin {"foreign", "mixed"}

\* _validate_pending_install_resources: what is there is what the record lists,
\* and no tree is there without the account.  The home must be the account's own.
PendingFits ==
    /\ disk["user"] # "foreign" /\ disk["host"] # "foreign" /\ disk["home"] # "rooted"
    /\ \A p \in Trees : Present(disk, p) => disk["user"] = "ours"

\* _validate_retained_resources, and nothing but what a removal retains.
RetainedFits ==
    /\ disk["user"] = "ours" /\ disk["home"] # "rooted"
    /\ pending = None => ~Present(disk, "opt") /\ ~Present(disk, "host")

\* _collision_preflight, with the identities compared by its caller.
ConvergeAccepted ==
    \/ marker # None
    \/ /\ purging = None
       /\ pending # None /\ retained # None => pending = retained
       /\ pending # None => PendingFits
       /\ retained # None => RetainedFits
       /\ pending = None /\ retained = None => disk = Nothing

Identities_fresh ==                \* mutant: retained state is not looked at
    IF marker # None THEN {marker.id}
    ELSE IF pending # None THEN {pending} ELSE Ids \ used

\* The identity that the installation has or will have.
Identities ==
    IF marker # None THEN {marker.id}
    ELSE IF pending # None THEN {pending}
    ELSE IF retained # None THEN {retained}
    ELSE Ids \ used

SourceIsCopied_not == TRUE          \* mutant: the source may have changed
\* _trusted_source_snapshot: from here on the operation reads its own copy.
SourceIsCopied == source = op.rev

ConvergePreflight ==
    /\ In({"converge"}, "preflight")
    /\ SourceIsCopied /\ ConvergeAccepted
    /\ \E i \in Identities :
          /\ op' = [op EXCEPT !.id = i, !.rev = source, !.pc = "stop"]
          /\ used' = used \cup {i}
    /\ UNCHANGED <<records, resources, services, source, failures, foreigners,
                   asked, seen>>

\* The services of an installation, or the units that a first attempt wrote.
StopForConverge ==
    /\ In({"converge"}, "stop")
    /\ services' = IF op.marked \/ Ours("host") THEN "off" ELSE services
    /\ Goto("journal")
    /\ UNCHANGED <<records, resources, world, asked, seen>>

\* _write_pending_install, before the first resource exists.
Journalled == pending' = IF op.marked THEN pending ELSE op.id

JournalInstall ==
    /\ In({"converge"}, "journal")
    /\ Journalled
    /\ Goto(IF op.marked THEN "snapshot" ELSE "identity")
    /\ UNCHANGED <<marker, retained, purging, resources, services, world, asked, seen>>

\* _create_recovery_snapshot: the account and the log are not part of it.
Saved == [disk |-> disk, marker |-> marker, retained |-> retained, life |-> life,
          suspended |-> suspended, services |-> op.prior]

TakeSnapshot ==
    /\ In({"converge"}, "snapshot")
    /\ snapshot' = Saved
    /\ op' = [op EXCEPT !.snapped = TRUE, !.pc = "identity"]
    /\ UNCHANGED <<records, disk, life, suspended, services, world, asked, seen>>

\* _ensure_identity: the group and the account, a home that is root's until it is
\* given to the account, and the sudoers file, the first of the host files.
EnsureAccount ==
    /\ In({"converge"}, "identity")
    /\ disk["user"] # "foreign"
    /\ Put("user", "ours")
    /\ Goto("home")
    /\ UNCHANGED <<records, life, suspended, snapshot, services, world, asked, seen>>

MakeHome ==
    /\ In({"converge"}, "home")
    /\ Put("home", IF Present(disk, "home") THEN disk["home"] ELSE "rooted")
    /\ Goto("owner")
    /\ UNCHANGED <<records, life, suspended, snapshot, services, world, asked, seen>>

GiveHome ==
    /\ In({"converge"}, "owner")
    /\ Put("home", "ours")
    /\ Goto("sudoers")
    /\ UNCHANGED <<records, life, suspended, snapshot, services, world, asked, seen>>

WriteSudoers ==
    /\ In({"converge"}, "sudoers")
    /\ Put("host", IF Present(disk, "host") THEN disk["host"] ELSE "mixed")
    /\ Goto("directories")
    /\ UNCHANGED <<records, life, suspended, snapshot, services, world, asked, seen>>

EnsureIdentity == EnsureAccount \/ MakeHome \/ GiveHome \/ WriteSudoers

EnsureDirectories ==
    /\ In({"converge"}, "directories")
    /\ disk' = [p \in Parts |->
                  IF p \in {"state", "log"} THEN "ours"
                  ELSE IF p \in {"opt", "etc"} /\ disk[p] = "none" THEN "mixed"
                  ELSE disk[p]]
    /\ Goto("node")
    /\ UNCHANGED <<records, life, suspended, snapshot, services, world, asked, seen>>

\* _ensure_dependencies: a Node runtime whose bridges are not the pinned ones is
\* replaced as a whole, whatever is wrong with it.
NodeIsCurrent ==
    /\ In({"converge"}, "node")
    /\ NodeSupported(disk) /\ BridgesValid(disk, op.rev)
    /\ Goto("opt")
    /\ UNCHANGED <<records, resources, services, world, asked, seen>>

\* The new one is downloaded, extracted and checked beside it.
StageNode ==
    /\ In({"converge"}, "node")
    /\ ~NodeSupported(disk) \/ ~BridgesValid(disk, op.rev)
    /\ Goto("swap")
    /\ UNCHANGED <<records, resources, services, world, asked, seen>>

MoveNodeAway ==
    /\ In({"converge"}, "swap")
    /\ Put("node", "none")
    /\ GoHalfway
    /\ UNCHANGED <<records, life, suspended, snapshot, services, world, asked, seen>>

PlaceNode ==
    /\ Halfway({"converge"}, "swap")
    /\ Put("node", "bare")
    /\ Goto("bridges")
    /\ UNCHANGED <<records, life, suspended, snapshot, services, world, asked, seen>>

\* _install_bridges: the modules and the launcher of one of them, and last of all
\* the record of what was installed.
CopyBridges ==
    /\ In({"converge"}, "bridges")
    /\ Put("node", "mixed")
    /\ Goto("bridged")
    /\ UNCHANGED <<records, life, suspended, snapshot, services, world, asked, seen>>

RecordBridges ==
    /\ In({"converge"}, "bridged")
    /\ Put("node", op.rev)
    /\ Goto("opt")
    /\ UNCHANGED <<records, life, suspended, snapshot, services, world, asked, seen>>

Dependencies ==
    \/ NodeIsCurrent \/ StageNode \/ MoveNodeAway \/ PlaceNode
    \/ CopyBridges \/ RecordBridges

\* File after file is written; one that is as it should be is left alone, but for
\* the copy of the source, which is made again.
UpToDate(p) == p # "product" /\ disk[p] = op.rev

BeginWriting(p) ==
    /\ In({"converge"}, p)
    /\ Put(p, IF UpToDate(p) THEN op.rev ELSE "mixed")
    /\ GoHalfway
    /\ UNCHANGED life

EndWriting(p) ==
    /\ Halfway({"converge"}, p)
    /\ Put(p, op.rev)

\* _deploy_product_source comes last; the copy is renamed over the one removed.
DeployRuntime ==
    /\ \/ BeginWriting("opt") \/ BeginWriting("product")
       \/ EndWriting("opt") /\ Goto("product") /\ UNCHANGED life
       \/ EndWriting("product") /\ Goto("etc") /\ UNCHANGED life
    /\ UNCHANGED <<records, suspended, snapshot, services, world, asked, seen>>

\* runtime/lifecycle.json is written only where there is none.
Initialized == IF life = "none" THEN "alive" ELSE life

DeployConfiguration ==
    /\ \/ BeginWriting("etc")
       \/ EndWriting("etc") /\ Goto("host") /\ life' = Initialized
    /\ UNCHANGED <<records, suspended, snapshot, services, world, asked, seen>>

DeployServices ==
    /\ \/ BeginWriting("host")
       \/ EndWriting("host") /\ Goto("start") /\ UNCHANGED life
    /\ UNCHANGED <<records, suspended, snapshot, services, world, asked, seen>>

StaysDown_alive == life = "dead"    \* mutant: the suspension is forgotten
StaysDown == op.suspended \/ life = "dead"

\* _start_services, and the health checks that follow it.
StartServices ==
    /\ In({"converge"}, "start")
    /\ services' = IF StaysDown THEN "off" ELSE "on"
    /\ Goto("mark")
    /\ UNCHANGED <<records, resources, world, asked, seen>>

WriteMarker ==
    /\ In({"converge"}, "mark")
    /\ Healthy(disk, life, op.rev)
    /\ marker' = [id |-> op.id, rev |-> op.rev]
    /\ Goto("forget pending")
    /\ UNCHANGED <<pending, retained, purging, resources, services, world, asked, seen>>

ForgetPending ==
    /\ In({"converge"}, "forget pending")
    /\ pending' = None
    /\ Goto("forget retained")
    /\ UNCHANGED <<marker, retained, purging, resources, services, world, asked, seen>>

ForgetRetained ==
    /\ In({"converge"}, "forget retained")
    /\ retained' = None
    /\ Done
    /\ UNCHANGED <<marker, pending, purging, resources, services, world, asked, seen>>

Converge ==
    \/ ConvergePreflight \/ StopForConverge \/ JournalInstall \/ TakeSnapshot
    \/ EnsureIdentity \/ EnsureDirectories \/ Dependencies
    \/ DeployRuntime \/ DeployConfiguration \/ DeployServices
    \/ StartServices \/ WriteMarker \/ ForgetPending \/ ForgetRetained

-------------------------------------------------------------------------------
(* rollback: Manager._execute_rollback and what module Rollback shows of   *)
(* _restore_snapshot_transactionally.                                      *)

SnapshotAccepted ==
    /\ marker # None
    /\ snapshot # None /\ snapshot.marker.id = marker.id

\* The trees, the host files and the entries of the state root are exchanged.
Exchanged ==
    /\ marker' = snapshot.marker /\ retained' = snapshot.retained
    /\ life' = snapshot.life /\ suspended' = snapshot.suspended
    /\ disk' = [p \in Parts |->
                  IF p \in {"user", "log"} THEN disk[p] ELSE snapshot.disk[p]]
    /\ UNCHANGED <<pending, purging, snapshot>>

\* The manager that is run from the restored copy of the source finds no fault.
SnapshotHealthy ==
    /\ snapshot.disk["product"] \in Revs
    /\ Healthy([snapshot.disk EXCEPT !["user"] = disk["user"]], snapshot.life,
               snapshot.disk["product"])

\* The services are as they were saved.
Committed ==
    /\ SnapshotHealthy
    /\ Exchanged
    /\ services' = snapshot.services
    /\ UNCHANGED torn

\* A rollback after a failed convergence stands although it finds faults.
Degraded ==
    /\ Exchanged
    /\ services' = "off"
    /\ UNCHANGED torn

\* Everything is put back.
Reversed(downs) ==
    /\ services' \in downs
    /\ UNCHANGED <<records, resources, torn>>

\* A reversal failed, or the process is killed among the renames.
CutShort ==
    /\ torn' = TRUE
    /\ services' = "off"
    /\ UNCHANGED <<records, resources>>

Rollback ==
    /\ In({"rollback"}, "preflight")
    /\ SnapshotAccepted
    /\ Committed
    /\ Done
    /\ UNCHANGED <<world, asked, late>>

-------------------------------------------------------------------------------
(* suspend, resume, kill and backup.                                       *)

\* _stop_services, which also disables the units.
Stop ==
    /\ In({"suspend", "kill", "backup"}, "preflight")
    /\ marker # None
    /\ services' = "off"
    /\ Goto("stopped")
    /\ UNCHANGED <<records, resources, world, asked, seen>>

Suspend ==
    /\ In({"suspend"}, "stopped")
    /\ suspended' = TRUE
    /\ Done
    /\ UNCHANGED <<records, disk, life, snapshot, services, world, asked, seen>>

ResumeAccepted_marked == marker # None /\ life # "dead"  \* mutant: unchecked
ResumeAccepted == marker # None /\ life # "dead" /\ Healthy(disk, life, source)

StartForResume ==
    /\ In({"resume"}, "preflight")
    /\ ResumeAccepted
    /\ services' = "on"
    /\ Goto("started")
    /\ UNCHANGED <<records, resources, world, asked, seen>>

Resume ==
    /\ In({"resume"}, "started")
    /\ suspended' = FALSE
    /\ Done
    /\ UNCHANGED <<records, disk, life, snapshot, services, world, asked, seen>>

Kill ==
    /\ In({"kill"}, "stopped")
    /\ life' = "dead"
    /\ Done
    /\ UNCHANGED <<records, disk, suspended, snapshot, services, world, asked, seen>>

\* The archive lies outside the resources modelled here.
Backup ==
    /\ In({"backup"}, "stopped")
    /\ services' = op.prior
    /\ Done
    /\ UNCHANGED <<records, resources, world, asked, seen>>

Small == Stop \/ Suspend \/ StartForResume \/ Resume \/ Kill \/ Backup

-------------------------------------------------------------------------------
(* uninstall, with --retain or --purge: Manager._execute_uninstall.        *)

AgreesWithPurge ==
    marker # None /\ purging # None => marker = purging

\* _preflight_uninstall: the receipt needs the log, unless a purge is resumed;
\* the account must be the one that is managed.
UninstallAccepted(k) ==
    /\ marker # None \/ purging # None
    /\ purging # None => k = "purge"
    /\ AgreesWithPurge
    /\ purging = None => disk["log"] = "ours"
    /\ disk["user"] # "foreign"
    /\ k = "retain" => disk["user"] = "ours"

Uninstalls == {"retain", "purge"}

Resumed == purging # None

\* _ensure_purge_evidence_roots gives a resumed purge a log again.
UninstallPreflight ==
    /\ In(Uninstalls, "preflight")
    /\ UninstallAccepted(op.kind)
    /\ IF Resumed THEN Put("log", "ours") ELSE UNCHANGED disk
    /\ Goto(IF op.kind = "purge" /\ ~Resumed THEN "record" ELSE "stop")
    /\ UNCHANGED <<records, life, suspended, snapshot, services, world, asked, seen>>

\* _write_purge_state
RecordPurge ==
    /\ In({"purge"}, "record")
    /\ purging' = marker
    /\ Goto("stop")
    /\ UNCHANGED <<marker, pending, retained, resources, services, world, asked, seen>>

StopForUninstall ==
    /\ In(Uninstalls, "stop")
    /\ services' = IF ~op.marked /\ ~Present(disk, "host") THEN services ELSE "off"
    /\ Goto("host")
    /\ UNCHANGED <<records, resources, world, asked, seen>>

After_state(p) ==                  \* mutant: the log stays
    CASE p = "host"  -> "opt"
      [] p = "opt"   -> "pending"
      [] p = "user"  -> "home"
      [] p = "home"  -> "etc"
      [] p = "etc"   -> "state"
      [] p \in {"state", "log"} -> "completed"

\* What follows the removal of the host files, of a tree or of the account.
After(p) ==
    CASE p = "host"  -> "opt"
      [] p = "opt"   -> "pending"
      [] p = "user"  -> "home"
      [] p = "home"  -> "etc"
      [] p = "etc"   -> "state"
      [] p = "state" -> "log"
      [] p = "log"   -> "completed"

\* Files go one by one, and a tree with its parts.
With(p) == IF p = "opt" THEN {"opt", "node", "product"} ELSE {p}

BeginRemoval ==
    /\ \E p \in {"host", "opt"} :
          /\ In(Uninstalls, p)
          /\ disk' = [q \in Parts |->
                        IF q \in With(p) /\ Present(disk, q) THEN "mixed" ELSE disk[q]]
          /\ GoHalfway
    /\ UNCHANGED <<records, life, suspended, snapshot, services, world, asked, seen>>

EndRemoval ==
    /\ \E p \in {"host", "opt"} :
          /\ Halfway(Uninstalls, p)
          /\ disk' = [q \in Parts |-> IF q \in With(p) THEN "none" ELSE disk[q]]
          /\ Goto(After(p))
    /\ UNCHANGED <<records, life, suspended, snapshot, services, world, asked, seen>>

RemovePending ==
    /\ In(Uninstalls, "pending")
    /\ pending' = None
    /\ Goto(IF op.kind = "retain" THEN "retain" ELSE "user")
    /\ UNCHANGED <<marker, retained, purging, resources, services, world, asked, seen>>

Retain ==
    /\ In({"retain"}, "retain")
    /\ retained' = marker.id
    /\ Goto("unmark")
    /\ UNCHANGED <<marker, pending, purging, resources, services, world, asked, seen>>

RemoveMarker ==
    /\ In({"retain"}, "unmark")
    /\ marker' = None
    /\ Done
    /\ UNCHANGED <<pending, retained, purging, resources, services, world, asked, seen>>

\* _finalize_purge, after the receipt and the first entry of the journal:
\* userdel --remove may leave the home, which is then removed as a tree.
RemoveUser ==
    /\ In({"purge"}, "user")
    /\ disk["user"] # "foreign"
    /\ \E left \in {disk["home"], "none"} :
          disk' = [disk EXCEPT !["user"] = "none", !["home"] = left]
    /\ Goto(After("user"))
    /\ UNCHANGED <<records, life, suspended, snapshot, services, world, asked, seen>>

RemoveTree ==
    /\ \E p \in {"home", "etc", "log"} :
          /\ In({"purge"}, p)
          /\ Put(p, "none")
          /\ Goto(After(p))
    /\ UNCHANGED <<records, life, suspended, snapshot, services, world, asked, seen>>

\* rmtree removes the entries of the state root in any order, the manager's own
\* records among them.
RemoveFromState ==
    /\ In({"purge"}, "state")
    /\ marker' \in {marker, None} /\ retained' \in {retained, None}
    /\ life' \in {life, "none"} /\ snapshot' \in {snapshot, None}
    /\ suspended' \in {suspended, FALSE}
    /\ GoHalfway
    /\ UNCHANGED <<pending, purging, disk, services, world, asked, seen>>

RemoveState ==
    /\ Halfway({"purge"}, "state")
    /\ marker' = None /\ retained' = None
    /\ life' = "none" /\ snapshot' = None /\ suspended' = FALSE
    /\ Put("state", "none")
    /\ Goto(After("state"))
    /\ UNCHANGED <<pending, purging, services, world, asked, seen>>

\* _remove_purge_state, once the journal has the completion.
ForgetPurge ==
    /\ In({"purge"}, "completed")
    /\ purging' = None
    /\ Done
    /\ UNCHANGED <<marker, pending, retained, resources, services, world, asked, seen>>

Uninstall ==
    \/ UninstallPreflight \/ RecordPurge \/ StopForUninstall
    \/ BeginRemoval \/ EndRemoval \/ RemovePending \/ Retain \/ RemoveMarker
    \/ RemoveUser \/ RemoveTree \/ RemoveFromState \/ RemoveState \/ ForgetPurge

-------------------------------------------------------------------------------
(* Failures.                                                               *)

\* A check of the operation itself fails: nothing has been changed yet.
Declined ==
    /\ op # Idle /\ op.pc = "preflight"
    /\ CASE op.kind = "converge" -> ~SourceIsCopied \/ ~ConvergeAccepted
         [] op.kind = "rollback" -> ~SnapshotAccepted
         [] op.kind = "resume"   -> ~ResumeAccepted
         [] op.kind \in Uninstalls -> ~UninstallAccepted(op.kind)
         [] OTHER -> marker = None
    /\ Done
    /\ UNCHANGED <<records, resources, services, world, asked, seen>>

\* A step that cannot succeed.
Blocked ==
    \/ In({"converge"}, "identity") /\ disk["user"] = "foreign"
    \/ In({"converge"}, "mark") /\ ~Healthy(disk, life, op.rev)
    \/ In({"purge"}, "user") /\ disk["user"] = "foreign"
    \/ In({"rollback"}, "preflight") /\ SnapshotAccepted /\ ~SnapshotHealthy

\* _restore_service_state, best effort: the services as they were, or stopped.
Brought == {op.prior, "off"}

\* The except clauses of the operations, by what they have done so far.
SettleConverge ==
    \/ /\ op.snapped
       /\ Committed \/ Degraded \/ Reversed({"off"}) \/ CutShort
    \/ ~op.snapped /\ op.marked /\ Reversed(Brought)
    \/ ~op.marked /\ Reversed(IF Ours("host") THEN {services, "off"} ELSE {services})

Settle ==
    CASE op.kind = "converge" -> SettleConverge
      [] op.kind = "rollback" -> Reversed(Brought) \/ CutShort
      [] op.kind \in {"suspend", "resume", "backup"} -> Reversed(Brought)
      [] OTHER -> Reversed({services})

\* A step fails, and the operation ends with its except clause.  A rename that
\* fails puts the Node runtime back: it is as if it had not been moved away.
StepFails ==
    /\ op # Idle /\ ~Halfway({"converge"}, "swap")
    /\ \/ Blocked /\ UNCHANGED failures
       \/ failures < MaxFailures /\ failures' = failures + 1
    /\ Settle
    /\ Done
    /\ UNCHANGED <<source, used, foreigners, asked, late>>

\* The process is killed: the lock is free and everything stays as it is.
Killed ==
    /\ op # Idle
    /\ failures < MaxFailures /\ failures' = failures + 1
    /\ Done
    /\ UNCHANGED <<records, resources, services, source, used, foreigners, asked, seen>>

-------------------------------------------------------------------------------
(* The world.                                                              *)

SourceChanges ==
    /\ source' \in Revs \ {source}
    /\ UNCHANGED <<records, resources, services, used, failures, foreigners,
                   asked, op, seen>>

\* The agent finds its time to live over: runtime/lifecycle.json is its own.
Expires ==
    /\ life = "alive"
    /\ life' = "dead"
    /\ UNCHANGED <<records, disk, suspended, snapshot, services, world, asked, op, seen>>

\* Somebody creates an account or a host file of that name, between two
\* operations: files only where Beep has none and is removing none.
ForeignAppears ==
    /\ op = Idle /\ foreigners < MaxForeign
    /\ \E p \in {"user", "host"} :
          /\ disk[p] = "none"
          /\ p = "host" => marker = None /\ purging = None
          /\ Put(p, "foreign")
    /\ foreigners' = foreigners + 1
    /\ UNCHANGED <<records, life, suspended, snapshot, services, source, used,
                   failures, asked, op, seen>>

Next ==
    \/ \E k \in Waiting : Ask(k)
    \/ \E k \in Kinds : Call(k)
    \/ Confirmed \/ Refused
    \/ Converge \/ Rollback \/ Small \/ Uninstall
    \/ Declined \/ StepFails \/ Killed
    \/ SourceChanges \/ Expires \/ ForeignAppears

\* No fairness: an operation may be abandoned at any step.
Spec == Init /\ [][Next]_vars

-------------------------------------------------------------------------------
(* Correctness.                                                            *)

\* The services run only on a runtime that is that of one source as a whole, in
\* any state that a failed or killed operation leaves behind included.
ServesOnlyWhole ==
    services = "on" => \E rev \in Revs : RuntimeValid(disk, life, rev)

\* An installation that was suspended and down when an update, a backup or a
\* removal began is not brought up by it, whether it succeeds, fails and is
\* rolled back, or is killed.
SuspensionHolds ==
    op.kind \notin {"resume", "rollback", "none"} =>
        (op.suspended /\ op.prior = "off" => services = "off")

\* Whatever operation was interrupted, one that continues it is accepted: a
\* removal where there is a record of an installation or of a purge, and an
\* install everywhere else; unless the home was made and not given to the account.
CanBeContinued ==
    /\ op = Idle /\ ~torn /\ ~late
    /\ disk["home"] # "rooted" /\ \A p \in Parts : disk[p] # "foreign"
    =>
        IF marker # None \/ purging # None THEN UninstallAccepted("purge")
        ELSE ConvergeAccepted

\* The same, of a purge, for every order of planning and execution: "rerun the
\* exact confirmed purge from verified source" (products/beep/docs/RECOVERY.md).
PurgeCanBeResumed ==
    op = Idle /\ ~torn /\ purging # None /\ disk["user"] # "foreign" =>
        UninstallAccepted("purge")

Identity ==
    IF marker # None THEN marker.id ELSE IF purging # None THEN purging.id
    ELSE IF pending # None THEN pending ELSE retained

\* An installation keeps its identity from the first attempt to install it to
\* the end of its purge, through failed attempts, updates, rollbacks and
\* removals that retain its state.
IdentityIsKept ==
    [][Identity # None => Identity' \in {Identity, None}]_vars

\* What the marker comes to name as installed is what the operator approved, in
\* every tree, however the source changes while the operation runs.
InstalledIsApproved ==
    [][marker' # marker /\ marker' # None /\ op.kind = "converge" /\ op' # Idle =>
        /\ marker'.rev = op.approved
        /\ \A p \in {"opt", "product", "etc", "host"} : disk[p] = op.approved]_vars

\* The record of a purge goes last: when it goes, nothing of Beep is left.
PurgeIsComplete ==
    [][purging # None /\ purging' = None =>
        /\ \A p \in Parts : ~Ours(p)
        /\ marker = None /\ retained = None /\ pending = None]_vars
=============================================================================
