-------------------------- MODULE BeepManager_proofs --------------------------
(***************************************************************************)
(* What the manager of Beep leaves behind, for any identities and          *)
(* revisions and any number of failures and kills.  The argument: what the *)
(* services run on is whole whenever they are on (Serving), they are off   *)
(* from the step that stops them to the one that starts them (Down), and   *)
(* an operation that gives up before it has touched anything may bring     *)
(* back what ran (Prior).  What a convergence has written so far is the    *)
(* approved revision (Written), and what a purge has removed is gone       *)
(* (Removed).  An identity is handed from record to record: an operation   *)
(* works under the identity the records hold (Naming), it drops a record   *)
(* only when another holds it (Handing), and all that hold one hold the    *)
(* same (Identified).  What stands on the disk without a marker is what    *)
(* another record says may stand there (Accounted, with what an unfinished *)
(* operation has done so far, Working), and during a purge nothing but the *)
(* purge goes on (Alone): so the next operation is never refused.          *)
(***************************************************************************)
EXTENDS BeepManager, Rollback, TLAPS

Fields == {"kind", "pc", "half", "approved", "rev", "id", "prior", "suspended",
           "marked", "snapped"}

Busy == op.kind # "none"

Shape ==
    /\ DOMAIN disk = Parts /\ services \in {"on", "off"} /\ source \in Revs
    /\ asked = Idle \/ asked.kind \in Kinds
    /\ ~Busy => op = Idle
    /\ Busy => /\ op.kind \in Kinds /\ DOMAIN op = Fields
               /\ op.prior \in {"on", "off"} /\ op.rev \in Revs

Whole(d, l) ==
    (\E rev \in Revs : RuntimeValid(d, l, rev)) /\ d["host"] \notin {"none", "foreign"}

Serving == services = "on" => Whole(disk, life)

\* The places of a convergence before it changes a tree, and after it has
\* written, in turn, the account, the Node runtime, and each tree.
Early    == {"preflight", "stop", "journal", "snapshot"}
WithHost == {"start", "mark"}
WithEtc  == WithHost \cup {"host"}
WithCopy == WithEtc \cup {"etc"}
WithOpt  == WithCopy \cup {"product"}
WithNode == WithOpt \cup {"opt"}
WithUser == WithNode \cup {"home", "owner", "sudoers", "directories", "node", "swap",
                           "bridges", "bridged"}

\* The places of a removal after each of its steps.
NoLog     == {"completed"}
NoState   == NoLog \cup {"log"}
NoEtc     == NoState \cup {"state"}
NoHome    == NoEtc \cup {"etc"}
NoUser    == NoHome \cup {"home"}
NoPending == NoUser \cup {"user"}
NoOpt     == NoPending \cup {"pending"}
NoHost    == NoOpt \cup {"opt"}

Down ==
    /\ op.kind = "converge" /\ op.pc \in {"journal", "snapshot", "identity"} \cup WithUser
       /\ op.pc # "mark" => services = "off"
    /\ op.kind \in Uninstalls /\ op.pc \in NoHost \cup {"host", "retain", "unmark"}
       => services = "off"

Prior ==
    Busy /\ op.prior = "on"
         /\ (\/ op.kind \in {"suspend", "resume", "backup", "rollback"}
             \/ op.kind = "converge" /\ op.pc \in Early)
    => Whole(disk, life)

\* Where there is an installation, the host files are not somebody else's; and
\* a snapshot is of an installation.
Managed ==
    /\ marker # None => disk["host"] # "foreign"
    /\ op.kind = "converge" /\ (op.marked \/ op.pc # "preflight") => disk["host"] # "foreign"
    /\ Busy /\ op.pc = "preflight" => (op.marked <=> marker # None)
    /\ op.kind = "converge" /\ op.marked /\ ~op.snapped => op.pc \in Early
    /\ snapshot # None \/ (op.kind = "converge" /\ op.snapped) =>
          /\ DOMAIN snapshot.disk = Parts /\ snapshot.disk["host"] # "foreign"
          /\ snapshot.services \in {"on", "off"}

Written ==
    op.kind = "converge" =>
        /\ op.rev = op.approved
        /\ op.pc \in WithUser => disk["user"] = "ours"
        /\ op.pc \in WithNode => disk["node"] = op.rev
        /\ op.pc \in WithOpt => disk["opt"] = op.rev
        /\ op.pc \in WithCopy => disk["product"] = op.rev
        /\ op.pc \in WithEtc => disk["etc"] = op.rev /\ life # "none"
        /\ op.pc \in WithHost => disk["host"] = op.rev

Removed ==
    op.kind = "purge" =>
        /\ op.pc = "record" => purging = None
        /\ op.pc \in NoHost => disk["host"] = "none"
        /\ op.pc \in NoOpt => /\ disk["opt"] = "none" /\ disk["node"] = "none"
                               /\ disk["product"] = "none"
        /\ op.pc \in NoPending => pending = None
        /\ op.pc \in NoUser => disk["user"] = "none"
        /\ op.pc \in NoHome => disk["home"] = "none"
        /\ op.pc \in NoEtc => disk["etc"] = "none"
        /\ op.pc \in NoState => disk["state"] = "none" /\ marker = None /\ retained = None
        /\ op.pc \in NoLog => disk["log"] = "none"

IInv ==
    /\ Shape /\ Serving /\ Down /\ Prior /\ Managed
    /\ Written /\ Removed /\ SuspensionHolds

-------------------------------------------------------------------------------
LEMMA InitInv == Init => IInv
  BY DEF Init, IInv, Shape, Busy, Idle, Nothing, Serving, Down, Prior, Managed, Written,
         Removed, SuspensionHolds, Uninstalls

\* Nothing that the invariant speaks of changes, or only a caller's plan.
LEMMA Unaffected ==
  ASSUME IInv, UNCHANGED <<records, disk, snapshot, services, op>>,
         source' \in Revs, life' = life \/ (life # "none" /\ life' # "none"),
         asked' = Idle \/ asked'.kind \in Kinds
  PROVE  IInv'
  <1>. USE DEF IInv, records
  <1>1. Shape'
    BY DEF Shape, Busy
  <1>2. Whole(disk, life) => Whole(disk', life')
    BY DEF Whole, RuntimeValid, NodeSupported, BridgesValid
  <1>3. Serving' /\ Prior'
    BY <1>2 DEF Serving, Prior, Busy
  <1>4. Down'
    BY DEF Down
  <1>5. Managed'
    BY DEF Managed, Busy
  <1>6. Written'
    BY DEF Written
  <1>7. Removed' /\ SuspensionHolds'
    BY DEF Removed, SuspensionHolds
  <1>8. QED
    BY <1>1, <1>3, <1>4, <1>5, <1>6, <1>7

LEMMA PlansKeep ==
  ASSUME IInv, \/ \E k \in Waiting : Ask(k)
               \/ Refused \/ SourceChanges \/ Expires \/ UNCHANGED vars
  PROVE  IInv'
  <1>. USE DEF records, resources, world, seen
  <1>1. UNCHANGED <<records, disk, snapshot, services, op>>
    BY DEF Ask, Refused, SourceChanges, Expires, vars
  <1>2. source' \in Revs
    BY DEF Ask, Refused, SourceChanges, Expires, vars, IInv, Shape
  <1>3. life' = life \/ (life # "none" /\ life' # "none")
    BY DEF Ask, Refused, SourceChanges, Expires, vars
  <1>4. asked' = Idle \/ asked'.kind \in Kinds
    BY WaitingAssumption DEF Ask, Plan, Refused, SourceChanges, Expires, vars, IInv, Shape
  <1>5. QED
    BY <1>1, <1>2, <1>3, <1>4, Unaffected

LEMMA StartKeeps ==
  ASSUME IInv, NEW k \in Kinds, NEW plan, plan.kind = k, Start(plan),
         asked' = Idle \/ asked' = asked
  PROVE  IInv'
  <1>. USE DEF IInv, records, resources, world, seen
  <1>1. /\ UNCHANGED <<marker, pending, retained, disk, life, snapshot, services, source>>
        /\ ~Busy /\ plan = Plan(k)
    BY DEF Start, Current, Busy, Idle
  <1>2. plan.rev \in Revs
    BY <1>1 DEF Plan, Shape
  <1>3. /\ op'.kind = k /\ op'.pc = "preflight" /\ DOMAIN op' = Fields /\ k # "none"
        /\ op'.rev \in Revs /\ op'.prior = services
        /\ op'.marked = (marker # None) /\ op'.snapped = FALSE
    BY <1>2 DEF Start, Fields, Kinds
  <1>4. Shape'
    BY <1>1, <1>3 DEF Shape, Busy, Idle
  <1>5. Serving' /\ Prior'
    BY <1>1, <1>3 DEF Serving, Prior
  <1>6. Down'
    BY <1>3 DEF Down, WithUser, WithNode, WithOpt,
       WithCopy, WithEtc, WithHost, Uninstalls, NoHost, NoOpt,
                NoPending, NoUser, NoHome, NoEtc, NoState, NoLog
  <1>7. Managed'
    BY <1>1, <1>3 DEF Managed, Early
  <1>8. Written'
    BY <1>3 DEF Written, Start, WithUser, WithNode, WithOpt, WithCopy, WithEtc, WithHost
  <1>9. Removed'
    BY <1>3 DEF Removed, NoHost, NoOpt, NoPending, NoUser, NoHome, NoEtc, NoState, NoLog
  <1>10. SuspensionHolds'
    BY <1>1, <1>3 DEF SuspensionHolds, Start
  <1>11. QED
    BY <1>4, <1>5, <1>6, <1>7, <1>8, <1>9, <1>10

LEMMA CallKeeps ==
  ASSUME IInv, (\E k \in Kinds : Call(k)) \/ Confirmed PROVE IInv'
  <1>1. ASSUME NEW k \in Kinds, Call(k) PROVE IInv'
    <2>1. Start(Plan(k)) /\ asked' = asked /\ Plan(k).kind = k
      BY <1>1 DEF Call, Plan
    <2>2. QED
      BY <2>1, StartKeeps
  <1>2. CASE Confirmed
    <2>1. Start(asked) /\ asked' = Idle /\ asked.kind \in Kinds
      BY <1>2 DEF Confirmed, IInv, Shape
    <2>2. QED
      BY <2>1, StartKeeps
  <1>3. QED
    BY <1>1, <1>2

\* An operation ends and leaves the services off or as they were, and as whole.
LEMMA Ends ==
  ASSUME IInv, op' = Idle, DOMAIN disk' = Parts, services' \in {"on", "off"},
         services' = "on" => Whole(disk', life'),
         marker' # None => disk'["host"] # "foreign",
         snapshot' # None => /\ DOMAIN snapshot'.disk = Parts /\ snapshot'.disk["host"] # "foreign"
                             /\ snapshot'.services \in {"on", "off"},
         UNCHANGED <<source, asked>>
  PROVE  IInv'
  <1>1. op'.kind = "none"
    BY DEF Idle
  <1>2. QED
    BY <1>1 DEF IInv, Shape, Busy, Serving, Down, Prior, Managed, Written, Removed,
                SuspensionHolds, Uninstalls

-------------------------------------------------------------------------------
(* install, repair and update.                                             *)

\* The operation goes on: all but its place, and whether it is halfway there.
OpKept ==
    /\ DOMAIN op' = Fields /\ op'.kind = op.kind /\ op'.prior = op.prior
    /\ op'.rev = op.rev /\ op'.approved = op.approved /\ op'.suspended = op.suspended
    /\ op'.marked = op.marked /\ op'.snapped = op.snapped

LEMMA Going ==
  ASSUME Shape, Busy, NEW p, op' = [op EXCEPT !.pc = p, !.half = FALSE]
  PROVE  OpKept /\ op'.pc = p
  BY DEF OpKept, Shape, Fields

LEMMA GoingHalfway ==
  ASSUME Shape, Busy, op' = [op EXCEPT !.half = TRUE]
  PROVE  OpKept /\ op'.pc = op.pc
  BY DEF OpKept, Shape, Fields

\* A step of a convergence that writes to the disk, while the services are off.
LEMMA Writes ==
  ASSUME IInv, op.kind = "converge", NEW p, p # "preflight", OpKept, op'.pc = p,
         op.pc # "preflight", op.pc \notin Early \/ p \in Early \/ ~op.marked,
         services' = "off", UNCHANGED <<marker, snapshot, asked, source>>,
         p \in Early => op.pc \in Early /\ UNCHANGED <<disk, life>>,
         DOMAIN disk' = Parts, disk'["host"] # "foreign",
         p \in WithUser => disk'["user"] = "ours",
         p \in WithNode => disk'["node"] = op.rev,
         p \in WithOpt => disk'["opt"] = op.rev,
         p \in WithCopy => disk'["product"] = op.rev,
         p \in WithEtc => disk'["etc"] = op.rev /\ life' # "none",
         p \in WithHost => disk'["host"] = op.rev
  PROVE  IInv'
  <1>. USE DEF IInv, OpKept
  <1>1. Shape'
    BY DEF Shape, Busy
  <1>2. Serving' /\ Down' /\ SuspensionHolds'
    BY DEF Serving, Down, SuspensionHolds
  <1>3. Prior'
    BY DEF Prior, Busy
  <1>4. Managed'
    BY DEF Managed, Busy
  <1>5. Written'
    BY DEF Written
  <1>6. Removed'
    BY DEF Removed
  <1>7. QED
    BY <1>1, <1>2, <1>3, <1>4, <1>5, <1>6

LEMMA ConvergeBegins ==
  ASSUME IInv, ConvergePreflight \/ StopForConverge \/ JournalInstall \/ TakeSnapshot
  PROVE  IInv'
  <1>. USE DEF IInv, records, resources, world, seen
  <1>1. CASE ConvergePreflight
    <2>1. /\ op.kind = "converge" /\ op.pc = "preflight" /\ Busy
          /\ UNCHANGED <<marker, pending, retained, disk, life, snapshot, services,
                         source, asked>>
          /\ source = op.rev /\ ConvergeAccepted
          /\ \E i \in Identities : op' = [op EXCEPT !.id = i, !.rev = source, !.pc = "stop"]
      BY <1>1 DEF ConvergePreflight, In, At, Busy, SourceIsCopied
    <2>2. op'.pc = "stop" /\ OpKept
      BY <2>1 DEF Shape, Fields, OpKept
    <2>3. disk["host"] # "foreign"
      <3>1. CASE marker # None
        BY <3>1 DEF Managed
      <3>2. CASE marker = None /\ pending # None
        BY <2>1, <3>2 DEF ConvergeAccepted, PendingFits
      <3>3. CASE marker = None /\ pending = None /\ retained # None
        BY <2>1, <3>3 DEF ConvergeAccepted, RetainedFits, Present
      <3>4. CASE marker = None /\ pending = None /\ retained = None
        <4>1. disk = Nothing /\ "host" \in Parts
          BY <2>1, <3>4 DEF ConvergeAccepted, Parts
        <4>2. QED
          BY <4>1 DEF Nothing
      <3>5. QED
        BY <3>1, <3>2, <3>3, <3>4
    <2>4. Shape' /\ Serving' /\ Written'
      BY <2>1, <2>2 DEF Shape, Busy, OpKept, Serving, Written, WithUser, WithNode, WithOpt,
                        WithCopy, WithEtc, WithHost
    <2>5. Down' /\ Removed'
      BY <2>1, <2>2 DEF OpKept, Down, Removed, Uninstalls, WithUser, WithNode, WithOpt,
                        WithCopy, WithEtc, WithHost
    <2>6. Prior' /\ SuspensionHolds'
      BY <2>1, <2>2 DEF Busy, OpKept, Prior, Early, SuspensionHolds
    <2>7. Managed'
      BY <2>1, <2>2, <2>3 DEF Busy, OpKept, Managed, Early
    <2>8. QED
      BY <2>4, <2>5, <2>6, <2>7
  <1>2. CASE StopForConverge
    <2>1. /\ op.kind = "converge" /\ op.pc = "stop" /\ Busy
          /\ UNCHANGED <<marker, snapshot, disk, life, asked, source>>
          /\ op' = [op EXCEPT !.pc = "journal", !.half = FALSE]
      BY <1>2 DEF StopForConverge, In, At, Busy, Goto
    <2>2. services' = "off"
      BY <1>2 DEF StopForConverge, Serving, Whole, Ours, Shape
    <2>3. OpKept /\ op'.pc = "journal"
      BY <2>1, Going
    <2>4. QED
      BY <2>1, <2>2, <2>3, Writes
      DEF Early, WithUser, WithNode, WithOpt, WithCopy, WithEtc, WithHost, Managed, Shape
  <1>3. CASE JournalInstall
    <2>1. /\ op.kind = "converge" /\ op.pc = "journal" /\ Busy
          /\ UNCHANGED <<marker, snapshot, disk, life, services, asked, source>>
          /\ IF op.marked THEN op' = [op EXCEPT !.pc = "snapshot", !.half = FALSE]
             ELSE op' = [op EXCEPT !.pc = "identity", !.half = FALSE]
      BY <1>3 DEF JournalInstall, In, At, Busy, Goto
    <2>2. services' = "off"
      BY <2>1 DEF Down
    <2>3. OpKept /\ op'.pc = IF op.marked THEN "snapshot" ELSE "identity"
      BY <2>1, Going
    <2>4. QED
      BY <2>1, <2>2, <2>3, Writes
      DEF Early, WithUser, WithNode, WithOpt, WithCopy, WithEtc, WithHost, Managed, Shape
  <1>4. CASE TakeSnapshot
    <2>1. /\ op.kind = "converge" /\ op.pc = "snapshot" /\ Busy
          /\ snapshot' = Saved /\ UNCHANGED <<marker, disk, life, services, asked, source>>
          /\ op' = [op EXCEPT !.snapped = TRUE, !.pc = "identity"]
      BY <1>4 DEF TakeSnapshot, In, At, Busy
    <2>2. /\ DOMAIN op' = Fields /\ op'.kind = "converge" /\ op'.pc = "identity"
          /\ op'.prior = op.prior /\ op'.rev = op.rev /\ op'.approved = op.approved
          /\ op'.suspended = op.suspended /\ op'.marked = op.marked /\ op'.snapped = TRUE
      BY <2>1 DEF Shape, Fields
    <2>3. services = "off"
      BY <2>1 DEF Down
    <2>4. Shape' /\ Serving' /\ Down' /\ Prior'
      BY <2>1, <2>2, <2>3
      DEF Shape, Busy, Serving, Down, Prior, Early, Uninstalls
    <2>5. /\ DOMAIN snapshot'.disk = Parts /\ snapshot'.disk["host"] # "foreign"
          /\ snapshot'.services \in {"on", "off"}
      BY <2>1 DEF Saved, Managed, Shape
    <2>6. Managed'
      BY <2>1, <2>2, <2>5 DEF Managed, Busy
    <2>7. Written' /\ Removed' /\ SuspensionHolds'
      BY <2>1, <2>2, <2>3
      DEF Written, Removed, SuspensionHolds, WithUser, WithNode, WithOpt,
         WithCopy, WithEtc, WithHost
    <2>8. QED
      BY <2>4, <2>6, <2>7
  <1>5. QED
    BY <1>1, <1>2, <1>3, <1>4

LEMMA NodeKeeps == ASSUME IInv, Dependencies PROVE IInv'
  <1>. USE DEF IInv, records, resources, world, seen
  <1>1. /\ op.kind = "converge" /\ Busy
        /\ UNCHANGED <<marker, snapshot, life, services, asked, source>>
        /\ op.pc \in {"node", "swap", "bridges", "bridged"}
    BY DEF Dependencies, NodeIsCurrent, StageNode, MoveNodeAway, PlaceNode, CopyBridges,
           RecordBridges, In, Halfway, At, Busy
  <1>2. /\ services' = "off" /\ disk["user"] = "ours" /\ disk["host"] # "foreign"
        /\ op.pc \notin Early /\ op.pc # "preflight"
    BY <1>1 DEF Down, WithUser, Written, Managed, Early
  <1>3. \E p \in {"swap", "bridges", "bridged", "opt"} :
           /\ OpKept /\ op'.pc = p
           /\ p = "opt" => disk'["node"] = op.rev
    <2>1. CASE NodeIsCurrent
      <3>1. op' = [op EXCEPT !.pc = "opt", !.half = FALSE] /\ disk' = disk /\ disk["node"] = op.rev
        BY <2>1 DEF NodeIsCurrent, Goto, BridgesValid
      <3>2. QED
        BY <1>1, <3>1, Going
    <2>2. CASE StageNode \/ PlaceNode \/ CopyBridges
      <3>1. \E p \in {"swap", "bridges", "bridged"} :
               op' = [op EXCEPT !.pc = p, !.half = FALSE]
        BY <2>2 DEF StageNode, PlaceNode, CopyBridges, Goto
      <3>2. QED
        BY <1>1, <3>1, Going
    <2>3. CASE MoveNodeAway
      <3>1. op' = [op EXCEPT !.half = TRUE] /\ op.pc = "swap"
        BY <2>3 DEF MoveNodeAway, GoHalfway, In, At
      <3>2. QED
        BY <1>1, <3>1, GoingHalfway
    <2>4. CASE RecordBridges
      <3>1. op' = [op EXCEPT !.pc = "opt", !.half = FALSE]
        BY <2>4 DEF RecordBridges, Goto
      <3>2. disk'["node"] = op.rev
        BY <2>4 DEF RecordBridges, Put, Shape, Parts
      <3>3. QED
        BY <1>1, <3>1, <3>2, Going
    <2>5. QED
      BY <2>1, <2>2, <2>3, <2>4 DEF Dependencies
  <1>4. disk' = disk \/ \E c : disk' = [disk EXCEPT !["node"] = c]
    BY DEF Dependencies, NodeIsCurrent, StageNode, MoveNodeAway, PlaceNode, CopyBridges,
           RecordBridges, Put
  <1>5. DOMAIN disk' = Parts /\ disk'["user"] = disk["user"] /\ disk'["host"] = disk["host"]
    BY <1>4 DEF Shape, Parts
  <1>6. QED
    BY <1>1, <1>2, <1>3, <1>5, Writes DEF WithUser, WithNode, WithOpt,
       WithCopy, WithEtc, WithHost, Early

\* The first two trees that a convergence makes, and the three that it deploys.
LEMMA DeployKeeps ==
  ASSUME IInv, \/ EnsureIdentity \/ EnsureDirectories
               \/ DeployRuntime \/ DeployConfiguration \/ DeployServices
  PROVE  IInv'
  <1>. USE DEF IInv, records, resources, world, seen
  <1>1. /\ op.kind = "converge" /\ Busy /\ UNCHANGED <<marker, snapshot, services, asked, source>>
        /\ op.pc \in {"identity", "home", "owner", "sudoers", "directories", "opt", "product",
                     "etc", "host"}
    BY DEF EnsureIdentity, EnsureAccount, MakeHome, GiveHome, WriteSudoers, EnsureDirectories,
       DeployRuntime, DeployConfiguration, DeployServices,
           BeginWriting, EndWriting, In, Halfway, At, Busy
  <1>2. /\ services' = "off" /\ disk["host"] # "foreign" /\ op.pc \notin Early
        /\ op.pc # "preflight" /\ op.rev \in Revs /\ op.rev \notin {"none", "foreign"}
        /\ DOMAIN disk = Parts
    BY <1>1, NamesAssumption
    DEF Down, WithUser, WithNode, WithOpt, WithCopy, WithEtc, WithHost, Managed, Early, Shape
  <1>3. CASE EnsureIdentity
    <2>1. \E p \in {"home", "owner", "sudoers", "directories"} :
             op' = [op EXCEPT !.pc = p, !.half = FALSE]
      BY <1>3 DEF EnsureIdentity, EnsureAccount, MakeHome, GiveHome, WriteSudoers, Goto
    <2>2. PICK p \in {"home", "owner", "sudoers", "directories"} : OpKept /\ op'.pc = p
      BY <1>1, <2>1, Going
    <2>3. \/ op.pc = "identity" /\ disk' = [disk EXCEPT !["user"] = "ours"]
          \/ op.pc # "identity" /\ \E c : disk' = [disk EXCEPT !["home"] = c]
          \/ op.pc # "identity" /\ disk' = [disk EXCEPT !["host"] =
                                        IF Present(disk, "host") THEN disk["host"] ELSE "mixed"]
      BY <1>3 DEF EnsureIdentity, EnsureAccount, MakeHome, GiveHome, WriteSudoers, Put, In, At
    <2>4. op.pc # "identity" => disk["user"] = "ours"
      BY <1>1, <1>3 DEF EnsureIdentity, EnsureAccount, MakeHome, GiveHome, WriteSudoers, In, At,
                        Written, WithUser
    <2>5. DOMAIN disk' = Parts /\ disk'["user"] = "ours" /\ disk'["host"] # "foreign"
      BY <1>2, <2>3, <2>4 DEF Parts, Trees
    <2>6. UNCHANGED life
      BY <1>3 DEF EnsureIdentity, EnsureAccount, MakeHome, GiveHome, WriteSudoers
    <2>7. QED
      BY <1>1, <1>2, <2>2, <2>5, <2>6, Writes
      DEF WithUser, WithNode, WithOpt, WithCopy, WithEtc, WithHost, Early
  <1>4. CASE EnsureDirectories
    <2>1. /\ op' = [op EXCEPT !.pc = "node", !.half = FALSE] /\ op.pc = "directories"
          /\ disk' = [p \in Parts |->
                        IF p \in {"state", "log"} THEN "ours"
                        ELSE IF p \in {"opt", "etc"} /\ disk[p] = "none" THEN "mixed"
                        ELSE disk[p]]
      BY <1>4 DEF EnsureDirectories, Goto, In, At
    <2>2. OpKept /\ op'.pc = "node"
      BY <1>1, <2>1, Going
    <2>3. /\ DOMAIN disk' = Parts /\ disk'["user"] = disk["user"]
          /\ disk'["host"] = disk["host"]
      BY <2>1 DEF Parts, Trees
    <2>4. disk["user"] = "ours"
      BY <1>1, <2>1 DEF Written, WithUser
    <2>5. QED
      BY <1>1, <1>2, <2>2, <2>3, <2>4, Writes
      DEF WithUser, WithNode, WithOpt, WithCopy, WithEtc, WithHost, Early
  <1>5. ASSUME NEW t \in {"opt", "product", "etc", "host"}, BeginWriting(t), UNCHANGED snapshot
        PROVE  IInv'
    <2>1. /\ op.pc = t /\ life' = life /\ op' = [op EXCEPT !.half = TRUE]
          /\ disk' = [disk EXCEPT ![t] = IF UpToDate(t) THEN op.rev ELSE "mixed"]
      BY <1>5 DEF BeginWriting, In, At, GoHalfway, Put
    <2>2. OpKept /\ op'.pc = t
      BY <1>1, <2>1, GoingHalfway
    <2>3. /\ DOMAIN disk' = Parts
          /\ \A p \in Parts : p # t => disk'[p] = disk[p]
          /\ disk'[t] \in {op.rev, "mixed"}
      BY <1>2, <2>1 DEF Parts, Trees
    <2>4. /\ disk'["user"] = disk["user"] /\ disk'["node"] = disk["node"]
          /\ t # "opt" => disk'["opt"] = disk["opt"]
          /\ t # "product" => disk'["product"] = disk["product"]
          /\ t # "etc" => disk'["etc"] = disk["etc"]
          /\ disk'["host"] # "foreign"
      BY <1>2, <2>3 DEF Parts, Trees
    <2>5. /\ disk["user"] = "ours" /\ disk["node"] = op.rev
          /\ t \in {"product", "etc", "host"} => disk["opt"] = op.rev
          /\ t \in {"etc", "host"} => disk["product"] = op.rev
          /\ t = "host" => disk["etc"] = op.rev /\ life # "none"
      BY <1>1, <2>1 DEF Written, WithUser, WithNode, WithOpt, WithCopy, WithEtc, WithHost
    <2>6. QED
      BY <1>1, <1>2, <2>1, <2>2, <2>3, <2>4, <2>5, Writes
      DEF WithUser, WithNode, WithOpt, WithCopy, WithEtc, WithHost, Early
  <1>6. ASSUME NEW t \in {"opt", "product", "etc", "host"}, EndWriting(t),
               NEW p, Goto(p), p = CASE t = "opt" -> "product" [] t = "product" -> "etc"
                         [] t = "etc" -> "host" [] t = "host" -> "start",
               life' = IF t = "etc" THEN Initialized ELSE life
        PROVE  IInv'
    <2>1. /\ op.pc = t /\ op' = [op EXCEPT !.pc = p, !.half = FALSE]
          /\ disk' = [disk EXCEPT ![t] = op.rev]
      BY <1>6 DEF EndWriting, Halfway, At, Goto, Put
    <2>2. OpKept /\ op'.pc = p
      BY <1>1, <2>1, Going
    <2>3. /\ DOMAIN disk' = Parts /\ disk'[t] = op.rev
          /\ \A q \in Parts : q # t => disk'[q] = disk[q]
      BY <1>2, <2>1 DEF Parts, Trees
    <2>4. /\ disk'["user"] = disk["user"] /\ disk'["node"] = disk["node"]
          /\ t # "opt" => disk'["opt"] = disk["opt"]
          /\ t # "product" => disk'["product"] = disk["product"]
          /\ t # "etc" => disk'["etc"] = disk["etc"]
          /\ disk'["host"] # "foreign"
      BY <1>2, <2>3 DEF Parts, Trees
    <2>5. /\ disk["user"] = "ours" /\ disk["node"] = op.rev
          /\ t \in {"product", "etc", "host"} => disk["opt"] = op.rev
          /\ t \in {"etc", "host"} => disk["product"] = op.rev
          /\ t = "host" => disk["etc"] = op.rev /\ life # "none"
      BY <1>1, <2>1 DEF Written, WithUser, WithNode, WithOpt, WithCopy, WithEtc, WithHost
    <2>6. t = "etc" => life' # "none"
      BY <1>6 DEF Initialized
    <2>7. t = "host" => life' = life
      BY <1>6
    <2>8. /\ p \in {"product", "etc", "host", "start"} /\ (p = "product" <=> t = "opt")
          /\ (p = "etc" <=> t = "product") /\ (p = "host" <=> t = "etc")
          /\ (p = "start" <=> t = "host")
      BY <1>6
    <2>9. QED
      BY <1>1, <1>2, <2>2, <2>3, <2>4, <2>5, <2>6, <2>7, <2>8, Writes
      DEF WithUser, WithNode, WithOpt, WithCopy, WithEtc, WithHost, Early
  <1>7. CASE DeployRuntime
    BY <1>5, <1>6, <1>7 DEF DeployRuntime
  <1>8. CASE DeployConfiguration
    BY <1>5, <1>6, <1>8 DEF DeployConfiguration
  <1>9. CASE DeployServices
    BY <1>5, <1>6, <1>9 DEF DeployServices
  <1>10. QED
    BY <1>3, <1>4, <1>7, <1>8, <1>9

LEMMA ConvergeEnds ==
  ASSUME IInv, StartServices \/ WriteMarker \/ ForgetPending \/ ForgetRetained PROVE IInv'
  <1>. USE DEF IInv, records, resources, world, seen
  <1>1. ASSUME NEW p \in {"mark", "forget pending", "forget retained"},
               op.kind = "converge", Busy, op.pc \notin Early, op.pc # "preflight",
               op' = [op EXCEPT !.pc = p, !.half = FALSE],
               services' = services \/ (services' \in {"on", "off"} /\ Whole(disk, life)
                                        /\ (op.suspended => services' = "off")),
               p = "mark" => op.pc = "start",
               UNCHANGED <<disk, life, snapshot, asked, source>>
        PROVE  IInv'
    <2>1. OpKept /\ op'.pc = p
      BY <1>1, Going
    <2>2. Shape' /\ Serving'
      BY <1>1, <2>1 DEF Shape, Busy, OpKept, Serving
    <2>3. Down'
      BY <1>1, <2>1 DEF Down, OpKept, WithUser, WithNode, WithOpt,
         WithCopy, WithEtc, WithHost, Uninstalls
    <2>4. Prior' /\ SuspensionHolds'
      BY <1>1, <2>1 DEF OpKept, Prior, Early, SuspensionHolds
    <2>5. Managed'
      BY <1>1, <2>1 DEF OpKept, Managed, Early, Busy
    <2>6. Written' /\ Removed'
      BY <1>1, <2>1 DEF OpKept, Written, Removed, WithUser, WithNode, WithOpt,
         WithCopy, WithEtc, WithHost
    <2>7. QED
      BY <2>2, <2>3, <2>4, <2>5, <2>6
  <1>2. CASE StartServices
    <2>1. /\ op.kind = "converge" /\ Busy /\ op.pc = "start"
          /\ op' = [op EXCEPT !.pc = "mark", !.half = FALSE]
          /\ services' \in {"on", "off"} /\ (op.suspended => services' = "off")
          /\ UNCHANGED <<disk, life, snapshot, asked, source>>
      BY <1>2 DEF StartServices, In, At, Busy, Goto, StaysDown
    <2>2. op.rev \in Revs /\ op.rev \notin {"none", "foreign"}
      BY <2>1, NamesAssumption DEF Shape
    <2>3. Whole(disk, life)
      BY <2>1, <2>2
      DEF Written, WithUser, WithNode, WithOpt, WithCopy, WithEtc, WithHost, Whole, RuntimeValid,
          NodeSupported, BridgesValid
    <2>4. QED
      BY <1>1, <2>1, <2>3 DEF Early
  <1>3. CASE WriteMarker \/ ForgetPending
    <2>1. \E p \in {"forget pending", "forget retained"} :
            op' = [op EXCEPT !.pc = p, !.half = FALSE]
      BY <1>3 DEF WriteMarker, ForgetPending, Goto
    <2>2. /\ op.kind = "converge" /\ Busy /\ op.pc \in {"mark", "forget pending"}
          /\ UNCHANGED <<disk, life, snapshot, services, asked, source>>
      BY <1>3 DEF WriteMarker, ForgetPending, In, At, Busy
    <2>3. QED
      BY <1>1, <2>1, <2>2 DEF Early
  <1>4. CASE ForgetRetained
    <2>1. op' = Idle /\ UNCHANGED <<marker, disk, life, snapshot, services, asked, source>>
      BY <1>4 DEF ForgetRetained, Done
    <2>2. QED
      BY <2>1, Ends DEF Shape, Serving, Managed
  <1>5. QED
    BY <1>2, <1>3, <1>4

LEMMA ConvergeKeeps == ASSUME IInv, Converge PROVE IInv'
  BY ConvergeBegins, NodeKeeps, DeployKeeps, ConvergeEnds DEF Converge

-------------------------------------------------------------------------------
(* rollback, suspend, resume, kill and backup.                             *)

\* The snapshot replaces what it covers, when an operation ends.
LEMMA ExchangeKeeps ==
  ASSUME IInv, snapshot # None \/ (op.kind = "converge" /\ op.snapped), Exchanged, op' = Idle,
         \/ services' = "off"
         \/ /\ services' = snapshot.services
            /\ SnapshotHealthy,
         UNCHANGED <<source, asked>>
  PROVE  IInv'
  <1>. USE DEF IInv
  <1>1. /\ DOMAIN snapshot.disk = Parts /\ snapshot.disk["host"] # "foreign"
        /\ snapshot.services \in {"on", "off"}
    BY DEF Managed
  <1>2. /\ DOMAIN disk' = Parts /\ life' = snapshot.life /\ snapshot' = snapshot
        /\ disk'["user"] = disk["user"]
        /\ \A p \in {"opt", "node", "etc", "host"} : disk'[p] = snapshot.disk[p]
    BY DEF Exchanged, Parts, Trees
  <1>3. CASE services' = "off"
    BY <1>1, <1>2, <1>3, Ends
  <1>4. CASE /\ services' = snapshot.services
             /\ SnapshotHealthy
    <2>1. PICK rev \in Revs :
             /\ snapshot.disk["opt"] = rev /\ snapshot.disk["node"] \in Revs \cup {"bare"}
             /\ snapshot.disk["node"] = rev /\ disk["user"] = "ours"
             /\ snapshot.life # "none" /\ snapshot.disk["host"] # "none"
      BY <1>1, <1>4
      DEF SnapshotHealthy, Healthy, RuntimeValid, NodeSupported, BridgesValid, Present, Parts, Trees
    <2>2. Whole(disk', life')
      BY <1>1, <1>2, <2>1 DEF Whole, RuntimeValid, NodeSupported, BridgesValid
    <2>3. QED
      BY <1>1, <1>2, <1>4, <2>2, Ends
  <1>5. QED
    BY <1>3, <1>4

LEMMA RollbackKeeps == ASSUME IInv, Rollback PROVE IInv'
  <1>1. /\ snapshot # None /\ Exchanged /\ op' = Idle /\ services' = snapshot.services
        /\ SnapshotHealthy
        /\ UNCHANGED <<source, asked>>
    BY DEF Rollback, SnapshotAccepted, Committed, Done, world
  <1>2. QED
    BY <1>1, ExchangeKeeps

LEMMA SmallKeeps == ASSUME IInv, Small PROVE IInv'
  <1>. USE DEF IInv, records, resources, world, seen
  <1>1. CASE Stop \/ StartForResume
    <2>1. /\ op.kind \in {"suspend", "kill", "backup", "resume"} /\ Busy /\ op.pc = "preflight"
          /\ \E p \in {"stopped", "started"} : op' = [op EXCEPT !.pc = p, !.half = FALSE]
          /\ UNCHANGED <<marker, disk, life, snapshot, asked, source>>
          /\ services' \in {"on", "off"} /\ (op.kind # "resume" => services' = "off")
      BY <1>1 DEF Stop, StartForResume, In, At, Busy, Goto
    <2>2. OpKept /\ op'.pc \in {"stopped", "started"}
      BY <2>1, Going
    <2>3. services' = "on" => Whole(disk, life)
      BY <1>1, <2>1 DEF Stop, StartForResume, ResumeAccepted, Healthy, Whole, Managed, Present,
                        Shape
    <2>4. Shape' /\ Serving' /\ Down'
      BY <2>1, <2>2, <2>3 DEF Shape, Busy, OpKept, Serving, Down, Uninstalls
    <2>5. Prior' /\ SuspensionHolds'
      BY <2>1, <2>2 DEF OpKept, Prior, Busy, SuspensionHolds
    <2>6. Managed' /\ Written' /\ Removed'
      BY <2>1, <2>2 DEF OpKept, Managed, Written, Removed, Busy
    <2>7. QED
      BY <2>4, <2>5, <2>6
  <1>2. CASE Suspend \/ Resume \/ Backup \/ Kill
    <2>1. /\ op' = Idle /\ UNCHANGED <<marker, disk, snapshot, asked, source>>
          /\ life' \in {life, "dead"}
          /\ services' = services \/ (op.kind = "backup" /\ Busy /\ services' = op.prior)
      BY <1>2 DEF Suspend, Resume, Backup, Kill, Done, In, At, Busy
    <2>2. Whole(disk, life) => Whole(disk', life')
      BY <2>1 DEF Whole, RuntimeValid, NodeSupported, BridgesValid
    <2>3. services' \in {"on", "off"} /\ (services' = "on" => Whole(disk, life))
      BY <2>1 DEF Shape, Serving, Prior
    <2>4. QED
      BY <2>1, <2>2, <2>3, Ends DEF Shape, Managed
  <1>3. QED
    BY <1>1, <1>2 DEF Small

-------------------------------------------------------------------------------
(* uninstall.                                                              *)

\* A removal goes on, with the services off or before it has stopped them.
LEMMA Removes ==
  ASSUME IInv, op.kind \in Uninstalls, NEW p, p # "preflight", OpKept, op'.pc = p,
         \/ services' = "off"
         \/ /\ services' = services /\ p \in {"record", "stop"}
            /\ Whole(disk, life) => Whole(disk', life'),
         UNCHANGED <<asked, source>>, snapshot' \in {snapshot, None},
         DOMAIN disk' = Parts, disk'["host"] \in {disk["host"], "none", "mixed"},
         marker' \in {marker, None}, Removed'
  PROVE  IInv'
  <1>. USE DEF IInv, OpKept
  <1>1. op.kind \notin {"none", "converge", "suspend", "resume", "backup", "rollback"}
    BY DEF Uninstalls
  <1>2. Shape' /\ Serving'
    BY <1>1 DEF Shape, Busy, Serving
  <1>3. Down'
    BY <1>1 DEF Down, NoHost, NoOpt, NoPending, NoUser, NoHome, NoEtc, NoState, NoLog
  <1>4. Prior' /\ Written' /\ SuspensionHolds'
    BY <1>1 DEF Prior, Written, SuspensionHolds
  <1>5. Managed'
    BY <1>1 DEF Managed
  <1>6. QED
    BY <1>2, <1>3, <1>4, <1>5

LEMMA UninstallBegins ==
  ASSUME IInv, UninstallPreflight \/ RecordPurge \/ StopForUninstall PROVE IInv'
  <1>. USE DEF IInv, records, resources, world, seen
  <1>1. CASE UninstallPreflight \/ RecordPurge
    <2>1. /\ op.kind \in Uninstalls /\ Busy
          /\ \E p \in {"record", "stop"} : op' = [op EXCEPT !.pc = p, !.half = FALSE]
          /\ UNCHANGED <<marker, life, snapshot, services, asked, source>>
          /\ disk' \in {disk, [disk EXCEPT !["log"] = "ours"]}
      BY <1>1 DEF UninstallPreflight, RecordPurge, In, At, Busy, Uninstalls, Goto, Put
    <2>2. OpKept /\ op'.pc \in {"record", "stop"}
      BY <2>1, Going
    <2>3. /\ DOMAIN disk' = Parts
          /\ \A p \in {"user", "opt", "node", "etc", "host"} : disk'[p] = disk[p]
      BY <2>1 DEF Shape, Parts, Trees
    <2>4. Whole(disk, life) => Whole(disk', life')
      BY <2>1, <2>3 DEF Whole, RuntimeValid, NodeSupported, BridgesValid
    <2>5. Removed'
      <3>1. ASSUME UninstallPreflight PROVE op'.pc = "record" => purging' = None
        <4>1. /\ op' = [op EXCEPT !.pc = IF op.kind = "purge" /\ ~Resumed THEN "record" ELSE "stop",
                                  !.half = FALSE]
              /\ UNCHANGED purging
          BY <3>1 DEF UninstallPreflight, Goto
        <4>2. op'.pc = IF op.kind = "purge" /\ ~Resumed THEN "record" ELSE "stop"
          BY <2>1, <4>1, Going
        <4>3. QED
          BY <4>1, <4>2 DEF Resumed
      <3>2. ASSUME RecordPurge PROVE op'.pc # "record"
        <4>1. op' = [op EXCEPT !.pc = "stop", !.half = FALSE]
          BY <3>2 DEF RecordPurge, Goto
        <4>2. op'.pc = "stop"
          BY <2>1, <4>1, Going
        <4>3. QED
          BY <4>2
      <3>3. op'.pc = "record" => purging' = None
        BY <1>1, <3>1, <3>2
      <3>4. QED
        BY <2>2, <3>3
        DEF Removed, NoHost, NoOpt, NoPending, NoUser, NoHome, NoEtc, NoState, NoLog
    <2>6. QED
      BY <2>1, <2>2, <2>3, <2>4, <2>5, Removes
  <1>2. CASE StopForUninstall
    <2>1. /\ op.kind \in Uninstalls /\ Busy /\ op' = [op EXCEPT !.pc = "host", !.half = FALSE]
          /\ UNCHANGED <<marker, life, snapshot, disk, asked, source>>
      BY <1>2 DEF StopForUninstall, In, At, Busy, Uninstalls, Goto
    <2>2. services' = "off"
      BY <1>2 DEF StopForUninstall, Present, Serving, Whole, Shape
    <2>3. OpKept /\ op'.pc = "host"
      BY <2>1, Going
    <2>4. Removed'
      BY <2>3 DEF Removed, NoHost, NoOpt, NoPending, NoUser, NoHome, NoEtc, NoState, NoLog
    <2>5. QED
      BY <2>1, <2>2, <2>3, <2>4, Removes DEF Shape
  <1>3. QED
    BY <1>1, <1>2

LEMMA RemovalKeeps ==
  ASSUME IInv, \/ BeginRemoval \/ EndRemoval \/ RemovePending \/ Retain \/ RemoveUser
               \/ RemoveTree \/ RemoveFromState \/ RemoveState
  PROVE  IInv'
  <1>. USE DEF IInv, records, resources, world, seen
  <1>1. /\ op.kind \in Uninstalls /\ Busy /\ UNCHANGED <<services, asked, source>>
        /\ op.pc \in NoHost \cup {"host", "retain", "unmark"}
        /\ marker' \in {marker, None} /\ snapshot' \in {snapshot, None}
        /\ op.pc \notin {"preflight", "record", "stop"}
    BY DEF BeginRemoval, EndRemoval, RemovePending, Retain, RemoveUser, RemoveTree,
           RemoveFromState, RemoveState, In, Halfway, At, Busy, Uninstalls, NoHost, NoOpt,
           NoPending, NoUser, NoHome, NoEtc, NoState, NoLog
  <1>2. services' = "off" /\ DOMAIN disk = Parts
    BY <1>1 DEF Down, Shape
  <1>3. CASE BeginRemoval
    <2>1. PICK t \in {"host", "opt"} :
            /\ op.pc = t /\ op' = [op EXCEPT !.half = TRUE]
            /\ disk' = [q \in Parts |->
                          IF q \in With(t) /\ Present(disk, q) THEN "mixed" ELSE disk[q]]
            /\ UNCHANGED pending
      BY <1>3 DEF BeginRemoval, In, At, GoHalfway
    <2>2. OpKept /\ op'.pc = t
      BY <1>1, <2>1, GoingHalfway
    <2>3. /\ DOMAIN disk' = Parts /\ disk'["host"] \in {disk["host"], "mixed"}
          /\ t = "opt" => disk'["host"] = disk["host"]
      BY <2>1 DEF With, Parts, Trees
    <2>4. Removed'
      BY <2>1, <2>2, <2>3 DEF OpKept, Removed, NoHost, NoOpt, NoPending, NoUser, NoHome, NoEtc,
                              NoState, NoLog
    <2>5. QED
      BY <1>1, <1>2, <2>1, <2>2, <2>3, <2>4, Removes
  <1>4. CASE EndRemoval
    <2>1. PICK t \in {"host", "opt"} :
            /\ op.pc = t /\ op' = [op EXCEPT !.pc = After(t), !.half = FALSE]
            /\ disk' = [q \in Parts |-> IF q \in With(t) THEN "none" ELSE disk[q]]
            /\ UNCHANGED pending
      BY <1>4 DEF EndRemoval, Halfway, At, Goto
    <2>2. OpKept /\ op'.pc = After(t)
      BY <1>1, <2>1, Going
    <2>3. After(t) \in {"opt", "pending"} /\ (t = "host" <=> After(t) = "opt")
      BY DEF After
    <2>4. /\ DOMAIN disk' = Parts /\ disk'["host"] \in {disk["host"], "none"}
          /\ t = "host" => disk'["host"] = "none"
          /\ t = "opt" => /\ disk'["opt"] = "none" /\ disk'["node"] = "none"
                          /\ disk'["product"] = "none"
                          /\ disk'["host"] = disk["host"]
      BY <2>1 DEF With, Parts, Trees
    <2>5. Removed'
      BY <2>1, <2>2, <2>3, <2>4
      DEF OpKept, Removed, NoHost, NoOpt, NoPending, NoUser, NoHome, NoEtc, NoState, NoLog
    <2>6. QED
      BY <1>1, <1>2, <2>2, <2>3, <2>4, <2>5, Removes
  <1>5. CASE RemovePending \/ Retain
    <2>1. /\ \E p \in {"retain", "user", "unmark"} : op' = [op EXCEPT !.pc = p, !.half = FALSE]
          /\ UNCHANGED disk
      BY <1>5 DEF RemovePending, Retain, Goto
    <2>2. OpKept /\ op'.pc \in {"retain", "user", "unmark"}
      BY <1>1, <2>1, Going
    <2>3. Removed'
      BY <1>5, <2>1, <2>2
      DEF RemovePending, Retain, In, At, OpKept, Removed, NoHost, NoOpt, NoPending, NoUser,
          NoHome, NoEtc, NoState, NoLog
    <2>4. QED
      BY <1>1, <1>2, <2>1, <2>2, <2>3, Removes
  <1>6. CASE RemoveUser
    <2>1. /\ op.pc = "user" /\ op' = [op EXCEPT !.pc = "home", !.half = FALSE]
          /\ \E left \in {disk["home"], "none"} :
                disk' = [disk EXCEPT !["user"] = "none", !["home"] = left]
          /\ UNCHANGED <<marker, pending, retained>>
      BY <1>6 DEF RemoveUser, In, At, Goto, After
    <2>2. OpKept /\ op'.pc = "home"
      BY <1>1, <2>1, Going
    <2>3. /\ DOMAIN disk' = Parts /\ disk'["user"] = "none"
          /\ \A q \in Parts : q \notin {"user", "home"} => disk'[q] = disk[q]
      BY <1>2, <2>1 DEF Parts, Trees
    <2>4. /\ disk'["host"] = disk["host"] /\ disk'["opt"] = disk["opt"]
          /\ disk'["node"] = disk["node"] /\ disk'["product"] = disk["product"]
      BY <2>3 DEF Parts, Trees
    <2>5. Removed'
      BY <2>1, <2>2, <2>3, <2>4
      DEF OpKept, Removed, NoHost, NoOpt, NoPending, NoUser, NoHome, NoEtc, NoState, NoLog
    <2>6. QED
      BY <1>1, <1>2, <2>2, <2>3, <2>4, <2>5, Removes
  <1>7. CASE RemoveTree
    <2>1. PICK t \in {"home", "etc", "log"} :
            /\ op.pc = t /\ op' = [op EXCEPT !.pc = After(t), !.half = FALSE]
            /\ disk' = [disk EXCEPT ![t] = "none"]
            /\ UNCHANGED <<marker, pending, retained>>
      BY <1>7 DEF RemoveTree, In, At, Goto, Put
    <2>2. OpKept /\ op'.pc = After(t)
      BY <1>1, <2>1, Going
    <2>3. /\ t = "home" => After(t) = "etc"
          /\ t = "etc" => After(t) = "state"
          /\ t = "log" => After(t) = "completed"
      BY DEF After
    <2>4. /\ DOMAIN disk' = Parts /\ disk'[t] = "none"
          /\ \A q \in Parts : q # t => disk'[q] = disk[q]
      BY <1>2, <2>1 DEF Parts, Trees
    <2>5. /\ disk'["host"] = disk["host"] /\ disk'["opt"] = disk["opt"]
          /\ disk'["node"] = disk["node"] /\ disk'["product"] = disk["product"]
          /\ disk'["user"] = disk["user"]
          /\ disk'["state"] = disk["state"]
          /\ t # "home" => disk'["home"] = disk["home"]
          /\ t # "etc" => disk'["etc"] = disk["etc"]
      BY <2>4 DEF Parts, Trees
    <2>6. Removed'
      BY <2>1, <2>2, <2>3, <2>4, <2>5
      DEF OpKept, Removed, NoHost, NoOpt, NoPending, NoUser, NoHome, NoEtc, NoState, NoLog
    <2>7. QED
      BY <1>1, <1>2, <2>2, <2>3, <2>4, <2>5, <2>6, Removes
  <1>8. CASE RemoveFromState
    <2>1. /\ op.pc = "state" /\ op' = [op EXCEPT !.half = TRUE] /\ UNCHANGED <<disk, pending>>
      BY <1>8 DEF RemoveFromState, In, At, GoHalfway
    <2>2. OpKept /\ op'.pc = "state"
      BY <1>1, <2>1, GoingHalfway
    <2>3. Removed'
      BY <2>1, <2>2
      DEF OpKept, Removed, NoHost, NoOpt, NoPending, NoUser, NoHome, NoEtc, NoState, NoLog
    <2>4. QED
      BY <1>1, <1>2, <2>1, <2>2, <2>3, Removes
  <1>9. CASE RemoveState
    <2>1. /\ op.pc = "state" /\ op' = [op EXCEPT !.pc = "log", !.half = FALSE]
          /\ disk' = [disk EXCEPT !["state"] = "none"]
          /\ marker' = None /\ retained' = None /\ UNCHANGED pending
      BY <1>9 DEF RemoveState, Halfway, At, Goto, Put, After
    <2>2. OpKept /\ op'.pc = "log"
      BY <1>1, <2>1, Going
    <2>3. /\ DOMAIN disk' = Parts /\ disk'["state"] = "none"
          /\ \A q \in {"host", "opt", "node", "user", "home", "etc"} : disk'[q] = disk[q]
      BY <1>2, <2>1 DEF Parts, Trees
    <2>4. Removed'
      BY <2>1, <2>2, <2>3
      DEF OpKept, Removed, NoHost, NoOpt, NoPending, NoUser, NoHome, NoEtc, NoState, NoLog
    <2>5. QED
      BY <1>1, <1>2, <2>2, <2>3, <2>4, Removes
  <1>10. QED
    BY <1>3, <1>4, <1>5, <1>6, <1>7, <1>8, <1>9

LEMMA UninstallKeeps == ASSUME IInv, Uninstall PROVE IInv'
  <1>1. CASE RemoveMarker \/ ForgetPurge
    <2>1. /\ op' = Idle /\ UNCHANGED <<disk, life, snapshot, services, asked, source>>
          /\ marker' \in {marker, None}
      BY <1>1 DEF RemoveMarker, ForgetPurge, Done, records, resources, world
    <2>2. QED
      BY <2>1, Ends DEF IInv, Shape, Serving, Managed
  <1>2. QED
    BY <1>1, UninstallBegins, RemovalKeeps DEF Uninstall

-------------------------------------------------------------------------------
(* Failures, and others.                                                   *)

LEMMA FailureKeeps == ASSUME IInv, StepFails PROVE IInv'
  <1>. USE DEF IInv, records, resources, world, seen
  <1>1. Busy /\ op' = Idle /\ UNCHANGED <<source, asked>> /\ Settle
    BY DEF StepFails, Shape, Done
  <1>2. ASSUME services' \in {services, "off"} \/ (services' = op.prior /\
                  (op.prior = "on" => Whole(disk, life))),
               UNCHANGED <<marker, disk, life, snapshot>>
        PROVE  IInv'
    <2>1. services' \in {"on", "off"} /\ (services' = "on" => Whole(disk, life))
      BY <1>1, <1>2 DEF Shape, Serving
    <2>2. QED
      BY <1>1, <1>2, <2>1, Ends DEF Shape, Managed
  <1>3. ASSUME CutShort PROVE IInv'
    BY <1>2, <1>3 DEF CutShort
  <1>4. ASSUME NEW downs, Reversed(downs), downs \subseteq {services, "off"} PROVE IInv'
    BY <1>2, <1>4 DEF Reversed
  <1>5. ASSUME Reversed(Brought), op.prior = "on" => Whole(disk, life) PROVE IInv'
    BY <1>2, <1>5 DEF Reversed, Brought
  <1>6. CASE op.kind = "converge"
    <2>1. SettleConverge
      BY <1>1, <1>6 DEF Settle
    <2>2. CASE op.snapped
      <3>1. CASE Committed
        <4>1. /\ Exchanged /\ services' = snapshot.services
              /\ SnapshotHealthy
          BY <3>1 DEF Committed
        <4>2. QED
          BY <1>1, <1>6, <2>2, <4>1, ExchangeKeeps
      <3>2. CASE Degraded
        BY <1>1, <1>6, <2>2, <3>2, ExchangeKeeps DEF Degraded
      <3>3. CASE CutShort
        BY <1>3, <3>3
      <3>4. CASE Reversed({"off"}) \/ Reversed({services}) \/ Reversed({services, "off"})
        BY <1>4, <3>4
      <3>5. QED
        BY <2>1, <2>2, <3>1, <3>2, <3>3, <3>4 DEF SettleConverge
    <2>3. CASE ~op.snapped /\ op.marked
      <3>1. op.prior = "on" => Whole(disk, life)
        BY <1>1, <1>6, <2>3 DEF Managed, Prior
      <3>2. QED
        BY <1>5, <2>1, <2>3, <3>1, <1>4 DEF SettleConverge
    <2>4. CASE ~op.snapped /\ ~op.marked
      <3>1. PICK downs \in {{services, "off"}, {services}} : Reversed(downs)
        BY <2>1, <2>4 DEF SettleConverge
      <3>2. QED
        BY <1>4, <3>1
    <2>5. QED
      BY <2>2, <2>3, <2>4
  <1>7. CASE op.kind \in {"rollback", "suspend", "resume", "backup"}
    <2>1. op.prior = "on" => Whole(disk, life)
      BY <1>1, <1>7 DEF Prior
    <2>2. Reversed(Brought) \/ CutShort
      BY <1>1, <1>7 DEF Settle
    <2>3. QED
      BY <1>3, <1>5, <2>1, <2>2
  <1>8. CASE op.kind \notin {"converge", "rollback", "suspend", "resume", "backup"}
    <2>1. Reversed({services})
      BY <1>1, <1>8 DEF Settle
    <2>2. QED
      BY <1>4, <2>1
  <1>9. QED
    BY <1>6, <1>7, <1>8

LEMMA OthersKeep == ASSUME IInv, Declined \/ Killed \/ ForeignAppears PROVE IInv'
  <1>. USE DEF IInv, records, resources, world, seen
  <1>1. CASE Declined \/ Killed
    <2>1. op' = Idle /\ UNCHANGED <<marker, disk, life, snapshot, services, asked, source>>
      BY <1>1 DEF Declined, Killed, Done
    <2>2. QED
      BY <2>1, Ends DEF Shape, Serving, Managed
  <1>2. CASE ForeignAppears
    <2>1. PICK p \in {"user", "host"} :
            /\ disk[p] = "none" /\ (p = "host" => marker = None)
            /\ disk' = [disk EXCEPT ![p] = "foreign"]
      BY <1>2 DEF ForeignAppears, Put
    <2>2. op' = Idle /\ UNCHANGED <<marker, life, snapshot, services, asked, source>>
      BY <1>2 DEF ForeignAppears
    <2>3. services = "off"
      BY <2>1 DEF Serving, Shape, Whole, RuntimeValid
    <2>4. DOMAIN disk' = Parts /\ (p = "user" => disk'["host"] = disk["host"])
      BY <2>1 DEF Shape, Parts
    <2>5. QED
      BY <2>1, <2>2, <2>3, <2>4, Ends DEF Managed
  <1>3. QED
    BY <1>1, <1>2

-------------------------------------------------------------------------------
LEMMA StepKeeps == IInv /\ [Next]_vars => IInv'
  BY PlansKeep, CallKeeps, ConvergeKeeps, RollbackKeeps, SmallKeeps, UninstallKeeps,
     FailureKeeps, OthersKeep
  DEF Next

(* The invariant of the manager.                                           *)
THEOREM Invariance == Spec => []IInv
  BY InitInv, StepKeeps, PTL DEF Spec

(* Services run only on whole trees of one source, after whatever failures *)
(* and kills.                                                              *)
THEOREM OnlyWholeIsServed == Spec => []ServesOnlyWhole
  <1>1. IInv => ServesOnlyWhole
    BY DEF IInv, Serving, ServesOnlyWhole, Whole
  <1>2. QED
    BY Invariance, <1>1, PTL

(* An installation that was suspended and down stays down, whatever else   *)
(* is done to it.                                                          *)
THEOREM SuspendedStaysDown == Spec => []SuspensionHolds
  <1>1. IInv => SuspensionHolds
    BY DEF IInv
  <1>2. QED
    BY Invariance, <1>1, PTL

(* What the marker comes to name is what the operator approved.            *)
THEOREM ApprovedIsInstalled == Spec => InstalledIsApproved
  <1>1. IInv /\ [Next]_vars =>
          (marker' # marker /\ marker' # None /\ op.kind = "converge" /\ op' # Idle =>
             /\ marker'.rev = op.approved
             /\ \A p \in {"opt", "product", "etc", "host"} : disk[p] = op.approved)
    <2>1. SUFFICES ASSUME IInv, [Next]_vars, marker' # marker, op.kind = "converge", op' # Idle
                   PROVE  /\ marker'.rev = op.approved
                          /\ \A p \in {"opt", "product", "etc", "host"} : disk[p] = op.approved
      OBVIOUS
    <2>2. WriteMarker
      BY <2>1
      DEF Next, vars, records, Ask, Call, Confirmed, Start, Refused, Converge,
          ConvergePreflight, StopForConverge, JournalInstall, TakeSnapshot, EnsureIdentity,
          EnsureAccount, MakeHome, GiveHome, WriteSudoers, EnsureDirectories, Dependencies,
          NodeIsCurrent, StageNode, MoveNodeAway, PlaceNode,
          CopyBridges, RecordBridges, DeployRuntime, DeployConfiguration,
          DeployServices, StartServices, ForgetPending, ForgetRetained, Rollback, Done, Small,
          Stop, Suspend, StartForResume, Resume, Kill, Backup, Uninstall, UninstallPreflight,
          RecordPurge, StopForUninstall, BeginRemoval, EndRemoval, RemovePending, Retain,
          RemoveMarker, RemoveUser, RemoveTree, RemoveFromState, RemoveState, ForgetPurge,
          In, Halfway, At, Declined, StepFails, Killed, SourceChanges, Expires, ForeignAppears
    <2>3. op.pc = "mark" /\ marker' = [id |-> op.id, rev |-> op.rev]
      BY <2>2 DEF WriteMarker, In, At
    <2>4. QED
      BY <2>1, <2>3 DEF IInv, Written, WithOpt, WithCopy, WithEtc, WithHost
  <1>2. QED
    BY Invariance, <1>1, PTL DEF Spec, InstalledIsApproved

(* A purge that is recorded as complete has left nothing of Beep.          *)
THEOREM PurgedIsGone == Spec => PurgeIsComplete
  <1>1. IInv /\ [Next]_vars =>
          (purging # None /\ purging' = None =>
             /\ \A p \in Parts : ~Ours(p)
             /\ marker = None /\ retained = None /\ pending = None)
    <2>1. SUFFICES ASSUME IInv, [Next]_vars, purging # None, purging' = None
                   PROVE  /\ \A p \in Parts : ~Ours(p)
                          /\ marker = None /\ retained = None /\ pending = None
      OBVIOUS
    <2>2. ForgetPurge
      <3>1. purging' = purging \/ Converge \/ Rollback \/ Small \/ Uninstall \/ StepFails
        BY <2>1
        DEF Next, vars, records, Ask, Call, Confirmed, Start, Refused, Declined, Killed,
            SourceChanges, Expires, ForeignAppears
      <3>2. Converge => purging' = purging
        BY DEF Converge, records, ConvergePreflight, StopForConverge, JournalInstall,
               TakeSnapshot, EnsureIdentity, EnsureAccount, MakeHome, GiveHome, WriteSudoers,
               EnsureDirectories, Dependencies, NodeIsCurrent, StageNode, MoveNodeAway,
               PlaceNode, CopyBridges, RecordBridges,
               DeployRuntime, DeployConfiguration, DeployServices, StartServices, WriteMarker,
               ForgetPending, ForgetRetained
      <3>3. Rollback \/ Small => purging' = purging
        BY DEF Rollback, Committed, Exchanged, Small, records, Stop, Suspend, StartForResume,
               Resume, Kill, Backup
      <3>4. StepFails => purging' = purging
        BY DEF StepFails, Settle, SettleConverge, Committed, Degraded, Exchanged, Reversed,
               CutShort, records
      <3>5. ~RecordPurge
        BY <2>1 DEF RecordPurge, In, At, IInv, Removed
      <3>6. Uninstall => purging' = purging \/ ForgetPurge
        BY <3>5
        DEF Uninstall, records, UninstallPreflight, StopForUninstall, BeginRemoval, EndRemoval,
            RemovePending, Retain, RemoveMarker, RemoveUser, RemoveTree, RemoveFromState,
            RemoveState
      <3>7. QED
        BY <2>1, <3>1, <3>2, <3>3, <3>4, <3>6
    <2>3. op.kind = "purge" /\ op.pc = "completed"
      BY <2>2 DEF ForgetPurge, In, At
    <2>4. QED
      BY <2>1, <2>3
      DEF IInv, Removed, NoHost, NoOpt, NoPending, NoUser, NoHome, NoEtc, NoState, NoLog, Ours,
          Parts, Trees
  <1>2. QED
    BY Invariance, <1>1, PTL DEF Spec, PurgeIsComplete

-------------------------------------------------------------------------------
(* The identity of an installation.                                        *)

Forgets == {"forget pending", "forget retained"}

\* The identity a convergence works for is the one that the records name, and the
\* snapshot it took is of that installation.
Naming ==
    op.kind = "converge" =>
        /\ op.pc # "preflight" => op.id \in Ids
        /\ op.snapped => op.marked /\ snapshot.marker.id = marker.id
        /\ op.pc = "snapshot" => op.marked
        /\ op.marked => marker # None /\ (op.pc # "preflight" => op.id = marker.id)
        /\ op.pc \in Forgets => marker # None
        /\ ~op.marked /\ op.pc \notin Forgets \cup {"preflight"} =>
              /\ marker = None /\ purging = None /\ op.id # None
              /\ op.pc \notin {"stop", "journal"} => pending = op.id
              /\ pending # None => op.id = pending
              /\ pending = None /\ retained # None => op.id = retained

\* A record goes only when another one has the identity.
Handing ==
    /\ op.kind = "retain" /\ op.pc # "preflight" =>
          /\ marker # None /\ purging = None
          /\ op.pc \in {"retain", "unmark"} => pending = None
          /\ op.pc = "unmark" => retained = marker.id
    /\ op.kind = "purge" /\ op.pc # "preflight" =>
          /\ op.pc = "record" => marker # None
          /\ op.pc # "record" => purging # None /\ (marker # None => marker = purging)

Identified ==
    /\ marker # None => marker.id \in Ids
    /\ {pending, retained} \subseteq Ids \cup {None}
    /\ snapshot # None \/ (op.kind = "converge" /\ op.snapped) =>
          /\ snapshot.marker # None /\ snapshot.marker.id \in Ids
          /\ snapshot.retained \in Ids \cup {None}

JInv == Identified /\ Naming /\ Handing

LEMMA InitNaming == Init => JInv
  BY DEF Init, JInv, Identified, Naming, Handing, Idle

LEMMA EndsNamed ==
  ASSUME JInv, op' = Idle, marker' # None => marker'.id \in Ids,
         {pending', retained'} \subseteq Ids \cup {None}, snapshot' \in {snapshot, None}
  PROVE  JInv'
  <1>1. op'.kind = "none"
    BY DEF Idle
  <1>2. QED
    BY <1>1 DEF JInv, Identified, Naming, Handing

\* The records and the snapshot stay, and so does all of the operation but its place.
LEMMA NameStays ==
  ASSUME IInv, JInv, Busy, NEW p, NEW h, op' = [op EXCEPT !.pc = p, !.half = h],
         UNCHANGED <<records, snapshot>>,
         op.kind = "converge" =>
            /\ op.pc # "preflight" /\ p # "snapshot" /\ op.pc \notin Forgets /\ p \notin Forgets
            /\ op.pc \in {"stop", "journal"} <=> p \in {"stop", "journal"},
         op.kind = "retain" => op.pc # "preflight" /\ p \notin {"retain", "unmark"},
         op.kind = "purge" => op.pc \notin {"preflight", "record"} /\ p # "record"
  PROVE  JInv'
  <1>1. /\ op'.pc = p /\ op'.kind = op.kind /\ op'.id = op.id /\ op'.marked = op.marked
        /\ op'.snapped = op.snapped
    BY DEF IInv, Shape, Fields
  <1>2. Naming'
    BY <1>1 DEF JInv, Naming, records, Forgets
  <1>3. Handing'
    BY <1>1 DEF JInv, Handing, records
  <1>4. Identified'
    BY <1>1 DEF JInv, Identified, records
  <1>5. QED
    BY <1>2, <1>3, <1>4 DEF JInv

\* What a record gives away another one has, at each step that writes one.
Kept == Identity # None => Identity' \in {Identity, None}

LEMMA SameRecords == ASSUME UNCHANGED records PROVE Kept
  BY DEF Kept, Identity, records

LEMMA ConvergeNames == ASSUME IInv, JInv, Converge PROVE JInv' /\ Kept
  <1>. USE DEF resources, world, seen
  <1>1. Busy /\ op.kind = "converge" /\ DOMAIN op = Fields
    BY DEF Converge, ConvergePreflight, StopForConverge, JournalInstall, TakeSnapshot,
       EnsureIdentity, EnsureAccount, MakeHome, GiveHome, WriteSudoers,
       EnsureDirectories, Dependencies, NodeIsCurrent, StageNode, MoveNodeAway,
       PlaceNode, CopyBridges, RecordBridges, DeployRuntime, DeployConfiguration,
       DeployServices, BeginWriting, EndWriting, StartServices, WriteMarker, ForgetPending,
       ForgetRetained, In, Halfway, At, Busy, IInv, Shape
  <1>2. {"pc", "kind", "half", "id", "rev", "marked", "snapped"} \subseteq DOMAIN op
    BY <1>1 DEF Fields
  <1>3. CASE ConvergePreflight
    <2>1. PICK i \in Identities : op' = [op EXCEPT !.id = i, !.rev = source, !.pc = "stop"]
      BY <1>3 DEF ConvergePreflight
    <2>2. /\ op'.kind = "converge" /\ op'.pc = "stop" /\ op'.id = i /\ op'.marked = op.marked
          /\ op'.snapped = op.snapped
      BY <1>1, <1>2, <2>1
    <2>3. /\ op.pc = "preflight" /\ ConvergeAccepted /\ UNCHANGED <<records, snapshot>>
      BY <1>3 DEF ConvergePreflight, In, At
    <2>4. op.marked <=> marker # None
      BY <1>1, <2>3 DEF IInv, Managed
    <2>5. CASE marker # None
      <3>1. i = marker.id
        BY <2>1, <2>5 DEF Identities
      <3>. i \in Ids
        BY <2>5, <3>1 DEF JInv, Identified
      <3>2. QED
        BY <2>2, <2>3, <2>4, <2>5, <3>1, SameRecords, <1>1
        DEF JInv, Identified, Naming, Handing, records, Forgets
    <2>6. CASE marker = None
      <3>1. /\ purging = None /\ i # None /\ i \in Ids
            /\ pending # None => i = pending
            /\ pending = None /\ retained # None => i = retained
        BY <2>1, <2>3, <2>6, NamesAssumption
        DEF ConvergeAccepted, Identities, JInv, Identified
      <3>2. QED
        BY <2>2, <2>3, <2>4, <2>6, <3>1, SameRecords, <1>1
        DEF JInv, Identified, Naming, Handing, records, Forgets
    <2>7. QED
      BY <2>5, <2>6
  <1>4. CASE StopForConverge
    <2>1. /\ op' = [op EXCEPT !.pc = "journal", !.half = FALSE] /\ op.pc = "stop"
          /\ UNCHANGED <<records, snapshot>>
      BY <1>4 DEF StopForConverge, Goto, In, At
    <2>2. QED
      BY <1>1, <2>1, NameStays, SameRecords DEF Forgets
  <1>5. CASE JournalInstall
    <2>1. /\ op.pc = "journal" /\ UNCHANGED <<marker, retained, purging, snapshot>>
          /\ pending' = IF op.marked THEN pending ELSE op.id
      BY <1>5 DEF JournalInstall, Journalled, In, At
    <2>2. CASE op.marked
      <3>1. op' = [op EXCEPT !.pc = "snapshot", !.half = FALSE] /\ UNCHANGED records
        BY <1>5, <2>1, <2>2 DEF JournalInstall, Goto, records
      <3>2. /\ op'.kind = "converge" /\ op'.pc = "snapshot" /\ op'.id = op.id
            /\ op'.marked = op.marked /\ op'.snapped = op.snapped
        BY <1>1, <1>2, <3>1
      <3>3. QED
        BY <1>1, <2>1, <2>2, <3>1, <3>2, SameRecords DEF JInv, Identified, Naming, Handing,
           records, Forgets
    <2>3. CASE ~op.marked
      <3>1. op' = [op EXCEPT !.pc = "identity", !.half = FALSE] /\ pending' = op.id
        BY <1>5, <2>1, <2>3 DEF JournalInstall, Goto
      <3>2. /\ op'.kind = "converge" /\ op'.pc = "identity" /\ op'.id = op.id
            /\ op'.marked = op.marked /\ op'.snapped = op.snapped
        BY <1>1, <1>2, <3>1
      <3>3. /\ marker = None /\ purging = None /\ op.id # None
            /\ pending # None => op.id = pending
            /\ pending = None /\ retained # None => op.id = retained
        BY <1>1, <2>1, <2>3 DEF JInv, Naming, Forgets
      <3>4. JInv'
        BY <1>1, <2>1, <2>3, <3>1, <3>2, <3>3 DEF JInv, Identified, Naming, Handing, Forgets
      <3>5. Kept
        BY <2>1, <3>1, <3>3 DEF Kept, Identity
      <3>6. QED
        BY <3>4, <3>5
    <2>4. QED
      BY <2>2, <2>3
  <1>6. CASE TakeSnapshot
    <2>1. /\ op.pc = "snapshot" /\ snapshot' = Saved /\ UNCHANGED records
          /\ op' = [op EXCEPT !.snapped = TRUE, !.pc = "identity"]
      BY <1>6 DEF TakeSnapshot, In, At
    <2>2. /\ op'.kind = "converge" /\ op'.pc = "identity" /\ op'.id = op.id
          /\ op'.marked = op.marked
      BY <1>1, <1>2, <2>1
    <2>3. op.marked /\ marker # None /\ op.id = marker.id
      BY <1>1, <2>1 DEF JInv, Naming
    <2>4. snapshot'.marker = marker /\ snapshot'.retained = retained
      BY <2>1 DEF Saved
    <2>5. QED
      BY <2>1, <2>2, <2>3, <2>4, SameRecords
      DEF JInv, Identified, Naming, Handing, records, Forgets
  <1>7. CASE WriteMarker
    <2>1. /\ op.pc = "mark" /\ marker' = [id |-> op.id, rev |-> op.rev]
          /\ op' = [op EXCEPT !.pc = "forget pending", !.half = FALSE]
          /\ UNCHANGED <<pending, retained, purging, snapshot>>
      BY <1>7 DEF WriteMarker, In, At, Goto
    <2>2. /\ op'.kind = "converge" /\ op'.pc = "forget pending" /\ op'.id = op.id
          /\ op'.marked = op.marked /\ op'.snapped = op.snapped
      BY <1>1, <1>2, <2>1
    <2>3. marker' # None /\ marker'.id = op.id /\ op.id \in Ids
      <3>1. op.id \in Ids /\ op.rev \in Revs
        BY <1>1, <2>1 DEF JInv, Naming, IInv, Shape
      <3>2. QED
        BY <2>1, <3>1, NamesAssumption
    <2>4. /\ op.marked => marker # None /\ marker.id = op.id
          /\ ~op.marked => marker = None /\ purging = None /\ op.id # None /\ pending = op.id
      BY <1>1, <2>1 DEF JInv, Naming, Forgets
    <2>5. JInv'
      BY <1>1, <2>1, <2>2, <2>3, <2>4 DEF JInv, Identified, Naming, Handing, Forgets
    <2>6. Kept
      BY <2>3, <2>4 DEF Kept, Identity
    <2>7. QED
      BY <2>5, <2>6
  <1>8. CASE ForgetPending \/ ForgetRetained
    <2>1. marker # None /\ UNCHANGED <<marker, purging, snapshot>>
      BY <1>1, <1>8 DEF ForgetPending, ForgetRetained, In, At, JInv, Naming, Forgets
    <2>2. Kept
      BY <2>1 DEF Kept, Identity
    <2>3. CASE ForgetPending
      <3>1. /\ op' = [op EXCEPT !.pc = "forget retained", !.half = FALSE]
            /\ op.pc = "forget pending" /\ pending' = None /\ retained' = retained
        BY <2>3 DEF ForgetPending, Goto, In, At
      <3>2. /\ op'.kind = "converge" /\ op'.pc = "forget retained" /\ op'.id = op.id
            /\ op'.marked = op.marked /\ op'.snapped = op.snapped
        BY <1>1, <1>2, <3>1
      <3>3. JInv'
        BY <1>1, <2>1, <3>1, <3>2 DEF JInv, Identified, Naming, Handing, Forgets
      <3>4. QED
        BY <2>2, <3>3
    <2>4. CASE ForgetRetained
      BY <2>1, <2>2, <2>4, EndsNamed DEF ForgetRetained, Done, JInv, Identified
    <2>5. QED
      BY <1>8, <2>3, <2>4
  <1>9. CASE \/ EnsureIdentity \/ EnsureDirectories \/ Dependencies \/ DeployRuntime
             \/ DeployConfiguration \/ DeployServices \/ StartServices
    <2>1. UNCHANGED <<records, snapshot>>
      BY <1>9 DEF EnsureIdentity, EnsureAccount, MakeHome, GiveHome, WriteSudoers,
         EnsureDirectories, Dependencies, NodeIsCurrent, StageNode,
         MoveNodeAway, PlaceNode, CopyBridges, RecordBridges, DeployRuntime,
         DeployConfiguration, DeployServices, StartServices
    <2>2. op.pc \in {"identity", "start"} \cup WithUser /\ op.pc # "mark"
      BY <1>9 DEF EnsureIdentity, EnsureAccount, MakeHome, GiveHome, WriteSudoers,
         EnsureDirectories, Dependencies, NodeIsCurrent, StageNode,
         MoveNodeAway, PlaceNode, CopyBridges, RecordBridges, DeployRuntime,
         DeployConfiguration, DeployServices, StartServices, BeginWriting, EndWriting,
         In, Halfway, At, WithUser, WithNode, WithOpt, WithCopy, WithEtc, WithHost
    <2>3. PICK p \in WithUser \cup {"start", "mark"}, h \in BOOLEAN :
             op' = [op EXCEPT !.pc = p, !.half = h]
      <3>1. CASE \/ MoveNodeAway \/ BeginWriting("opt") \/ BeginWriting("product")
                 \/ BeginWriting("etc") \/ BeginWriting("host")
        <4>1. op' = [op EXCEPT !.half = TRUE] /\ op.pc \in {"swap", "opt", "product", "etc", "host"}
          BY <3>1 DEF MoveNodeAway, BeginWriting, GoHalfway, In, At
        <4>2. op' = [op EXCEPT !.pc = op.pc, !.half = TRUE]
          BY <1>1, <4>1
        <4>3. QED
          BY <4>1, <4>2 DEF WithUser, WithNode, WithOpt, WithCopy, WithEtc, WithHost
      <3>2. CASE ~(\/ MoveNodeAway \/ BeginWriting("opt") \/ BeginWriting("product")
                   \/ BeginWriting("etc") \/ BeginWriting("host"))
        BY <1>9, <3>2 DEF EnsureIdentity, EnsureAccount, MakeHome, GiveHome, WriteSudoers,
           EnsureDirectories, Dependencies, NodeIsCurrent,
           StageNode, PlaceNode, CopyBridges, RecordBridges, DeployRuntime,
           DeployConfiguration, DeployServices, StartServices, Goto,
           WithUser, WithNode, WithOpt, WithCopy, WithEtc, WithHost
      <3>3. QED
        BY <3>1, <3>2
    <2>4. QED
      BY <1>1, <2>1, <2>2, <2>3, NameStays, SameRecords
      DEF Forgets, WithUser, WithNode, WithOpt, WithCopy, WithEtc, WithHost
  <1>10. QED
    BY <1>3, <1>4, <1>5, <1>6, <1>7, <1>8, <1>9 DEF Converge

LEMMA UninstallNames == ASSUME IInv, JInv, Uninstall PROVE JInv' /\ Kept
  <1>. USE DEF resources, world, seen
  <1>1. Busy /\ op.kind \in {"retain", "purge"} /\ DOMAIN op = Fields
    BY DEF Uninstall, UninstallPreflight, RecordPurge, StopForUninstall, BeginRemoval,
       EndRemoval, RemovePending, Retain, RemoveMarker, RemoveUser, RemoveTree, RemoveFromState,
       RemoveState, ForgetPurge, In, Halfway, At, Uninstalls, Busy, IInv, Shape
  <1>2. {"pc", "kind", "half", "id", "rev", "marked", "snapped"} \subseteq DOMAIN op
    BY <1>1 DEF Fields
  <1>3. ASSUME NEW p, NEW h, op' = [op EXCEPT !.pc = p, !.half = h]
        PROVE  op'.pc = p /\ op'.kind = op.kind
    BY <1>1, <1>2, <1>3
  <1>4. CASE UninstallPreflight
    <2>1. /\ UNCHANGED <<records, snapshot>> /\ UninstallAccepted(op.kind)
          /\ op.pc = "preflight"
      BY <1>4 DEF UninstallPreflight, In, At
    <2>2. PICK p : /\ op' = [op EXCEPT !.pc = p, !.half = FALSE]
                   /\ p = IF op.kind = "purge" /\ purging = None THEN "record" ELSE "stop"
      BY <1>4 DEF UninstallPreflight, Goto, Resumed
    <2>3. op'.pc = p /\ op'.kind = op.kind
      BY <1>3, <2>2
    <2>4. Handing'
      BY <1>1, <2>1, <2>2, <2>3 DEF Handing, UninstallAccepted, AgreesWithPurge, records
    <2>5. QED
      BY <1>1, <2>1, <2>3, <2>4, SameRecords DEF JInv, Identified, Naming, records
  <1>5. CASE RecordPurge
    <2>1. /\ op.kind = "purge" /\ op.pc = "record" /\ purging' = marker
          /\ UNCHANGED <<marker, pending, retained, snapshot>>
          /\ op' = [op EXCEPT !.pc = "stop", !.half = FALSE]
      BY <1>5 DEF RecordPurge, In, At, Goto
    <2>2. marker # None
      BY <2>1 DEF JInv, Handing
    <2>3. op'.pc = "stop" /\ op'.kind = "purge"
      BY <1>3, <2>1
    <2>4. QED
      BY <2>1, <2>2, <2>3 DEF JInv, Identified, Naming, Handing, Kept, Identity
  <1>6. CASE StopForUninstall \/ BeginRemoval \/ EndRemoval \/ RemoveUser \/ RemoveTree
    <2>1. UNCHANGED <<records, snapshot>> /\ op.pc \notin {"preflight", "record"}
      BY <1>6 DEF StopForUninstall, BeginRemoval, EndRemoval, RemoveUser, RemoveTree,
         In, Halfway, At
    <2>2. PICK p, h : /\ op' = [op EXCEPT !.pc = p, !.half = h]
                      /\ p \notin {"preflight", "record", "retain", "unmark"}
      <3>1. CASE BeginRemoval
        <4>1. op' = [op EXCEPT !.half = TRUE] /\ op.pc \in {"host", "opt"}
          BY <3>1 DEF BeginRemoval, GoHalfway, In, At
        <4>2. op' = [op EXCEPT !.pc = op.pc, !.half = TRUE]
          BY <1>1, <4>1
        <4>3. QED
          BY <4>1, <4>2
      <3>2. CASE ~BeginRemoval
        <4>1. /\ After("host") = "opt" /\ After("opt") = "pending" /\ After("user") = "home"
              /\ After("home") = "etc" /\ After("etc") = "state" /\ After("log") = "completed"
          BY DEF After
        <4>2. PICK p \in {"host", "opt", "pending", "home", "etc", "state", "completed"} : Goto(p)
          <5>1. CASE StopForUninstall
            BY <5>1 DEF StopForUninstall
          <5>2. CASE EndRemoval
            BY <4>1, <5>2 DEF EndRemoval
          <5>3. CASE RemoveUser
            BY <4>1, <5>3 DEF RemoveUser
          <5>4. CASE RemoveTree
            BY <4>1, <5>4 DEF RemoveTree
          <5>5. QED
            BY <1>6, <3>2, <5>1, <5>2, <5>3, <5>4
        <4>3. op' = [op EXCEPT !.pc = p, !.half = FALSE]
          BY <4>2 DEF Goto
        <4>4. QED
          BY <4>3
      <3>3. QED
        BY <3>1, <3>2
    <2>3. QED
      BY <1>1, <2>1, <2>2, NameStays, SameRecords
  <1>7. CASE RemovePending
    <2>1. /\ op.pc = "pending" /\ pending' = None
          /\ UNCHANGED <<marker, retained, purging, snapshot>>
      BY <1>7 DEF RemovePending, In, At
    <2>2. PICK p \in {"retain", "user"} : op' = [op EXCEPT !.pc = p, !.half = FALSE]
      BY <1>7 DEF RemovePending, Goto
    <2>3. op'.pc = p /\ op'.kind = op.kind
      BY <1>3, <2>2
    <2>4. marker # None \/ purging # None
      BY <1>1, <2>1 DEF JInv, Handing
    <2>5. Kept
      BY <2>1, <2>4 DEF Kept, Identity
    <2>6. JInv'
      BY <1>1, <2>1, <2>2, <2>3 DEF JInv, Identified, Naming, Handing
    <2>7. QED
      BY <2>5, <2>6
  <1>8. CASE Retain
    <2>1. /\ op.kind = "retain" /\ op.pc = "retain" /\ retained' = marker.id
          /\ UNCHANGED <<marker, pending, purging, snapshot>>
          /\ op' = [op EXCEPT !.pc = "unmark", !.half = FALSE]
      BY <1>8 DEF Retain, In, At, Goto
    <2>2. op'.pc = "unmark" /\ op'.kind = "retain"
      BY <1>3, <2>1
    <2>3. marker # None /\ purging = None /\ pending = None
      BY <2>1 DEF JInv, Handing
    <2>4. QED
      BY <2>1, <2>2, <2>3 DEF JInv, Identified, Naming, Handing, Kept, Identity
  <1>9. CASE RemoveMarker
    <2>1. /\ op.kind = "retain" /\ op.pc = "unmark" /\ marker' = None /\ op' = Idle
          /\ UNCHANGED <<pending, retained, purging, snapshot>>
      BY <1>9 DEF RemoveMarker, In, At, Done
    <2>2. marker # None /\ purging = None /\ pending = None /\ retained = marker.id
      BY <2>1 DEF JInv, Handing
    <2>3. Kept
      BY <2>1, <2>2 DEF Kept, Identity
    <2>4. QED
      BY <2>1, <2>3, EndsNamed DEF JInv, Identified
  <1>10. CASE RemoveFromState \/ RemoveState
    <2>1. /\ op.kind = "purge" /\ op.pc = "state" /\ marker' \in {marker, None}
          /\ retained' \in {retained, None} /\ snapshot' \in {snapshot, None}
          /\ UNCHANGED <<pending, purging>>
      BY <1>10 DEF RemoveFromState, RemoveState, In, Halfway, At
    <2>2. purging # None /\ (marker # None => marker = purging)
      BY <2>1 DEF JInv, Handing
    <2>3. op'.kind = "purge" /\ op'.pc \in {"state", "log"}
      <3>1. CASE RemoveFromState
        BY <1>1, <1>2, <2>1, <3>1 DEF RemoveFromState, GoHalfway
      <3>2. CASE RemoveState
        <4>1. op' = [op EXCEPT !.pc = "log", !.half = FALSE]
          BY <3>2 DEF RemoveState, Goto, After
        <4>2. QED
          BY <1>3, <2>1, <4>1
      <3>3. QED
        BY <1>10, <3>1, <3>2
    <2>4. Kept
      BY <2>1, <2>2 DEF Kept, Identity
    <2>5. JInv'
      BY <2>1, <2>2, <2>3 DEF JInv, Identified, Naming, Handing
    <2>6. QED
      BY <2>4, <2>5
  <1>11. CASE ForgetPurge
    <2>1. /\ op.kind = "purge" /\ op.pc = "completed" /\ op' = Idle
          /\ UNCHANGED <<marker, pending, retained, snapshot>> /\ purging' = None
      BY <1>11 DEF ForgetPurge, In, At, Done
    <2>2. marker = None /\ retained = None /\ pending = None
      BY <2>1 DEF IInv, Removed, NoPending, NoUser, NoHome, NoEtc, NoState, NoLog
    <2>3. QED
      BY <2>1, <2>2, EndsNamed DEF Kept, Identity, JInv, Identified
  <1>12. QED
    BY <1>4, <1>5, <1>6, <1>7, <1>8, <1>9, <1>10, <1>11 DEF Uninstall

LEMMA RestNames ==
  ASSUME IInv, JInv, [Next]_vars, ~Converge, ~Uninstall PROVE JInv' /\ Kept
  <1>. USE DEF resources, world, seen
  <1>1. ASSUME NEW plan, Start(plan) PROVE JInv' /\ Kept
    <2>1. /\ op'.pc = "preflight" /\ op'.marked = (marker # None) /\ op'.snapped = FALSE
          /\ UNCHANGED <<records, snapshot>>
      BY <1>1 DEF Start
    <2>2. QED
      BY <2>1, SameRecords DEF JInv, Identified, Naming, Handing, records, Forgets
  <1>2. CASE (\E k \in Kinds : Call(k)) \/ Confirmed
    BY <1>1, <1>2 DEF Call, Confirmed
  <1>3. CASE \/ \E k \in Waiting : Ask(k)
             \/ Refused \/ SourceChanges \/ Expires \/ ForeignAppears \/ UNCHANGED vars
    <2>1. UNCHANGED <<records, snapshot, op>>
      BY <1>3 DEF Ask, Refused, SourceChanges, Expires, ForeignAppears, vars
    <2>2. QED
      BY <2>1, SameRecords DEF JInv, Identified, Naming, Handing, records
  <1>4. CASE Declined \/ Killed
    <2>1. op' = Idle /\ UNCHANGED <<records, snapshot>>
      BY <1>4 DEF Declined, Killed, Done
    <2>2. QED
      BY <2>1, EndsNamed, SameRecords DEF JInv, Identified, records
  <1>5. CASE Small
    <2>1. UNCHANGED <<records, snapshot>>
      BY <1>5 DEF Small, Stop, Suspend, StartForResume, Resume, Kill, Backup
    <2>2. op' = Idle \/ \E p : op' = [op EXCEPT !.pc = p, !.half = FALSE]
      BY <1>5 DEF Small, Stop, Suspend, StartForResume, Resume, Kill, Backup, Done, Goto
    <2>3. Busy /\ op.kind \notin {"converge", "retain", "purge"}
      BY <1>5 DEF Small, Stop, Suspend, StartForResume, Resume, Kill, Backup, In, At, Busy
    <2>4. CASE op' = Idle
      BY <2>1, <2>4, EndsNamed, SameRecords DEF JInv, Identified, records
    <2>5. CASE op' # Idle
      BY <2>1, <2>2, <2>3, <2>5, NameStays, SameRecords
    <2>6. QED
      BY <2>4, <2>5
  <1>6. ASSUME Exchanged, op' = Idle, snapshot.marker # None, snapshot.marker.id \in Ids,
               snapshot.retained \in Ids \cup {None},
               marker # None, snapshot.marker.id = marker.id
        PROVE  JInv' /\ Kept
    <2>1. /\ marker' = snapshot.marker /\ retained' = snapshot.retained
          /\ UNCHANGED <<pending, purging, snapshot>>
      BY <1>6 DEF Exchanged
    <2>2. Kept
      BY <1>6, <2>1 DEF Kept, Identity
    <2>3. QED
      BY <1>6, <2>1, <2>2, EndsNamed DEF JInv, Identified
  <1>7. CASE Rollback
    <2>1. Exchanged /\ op' = Idle /\ SnapshotAccepted
      BY <1>7 DEF Rollback, Committed, Done
    <2>2. QED
      BY <1>6, <2>1 DEF SnapshotAccepted, JInv, Identified
  <1>8. CASE StepFails
    <2>1. op' = Idle /\ Settle
      BY <1>8 DEF StepFails, Done
    <2>2. CASE UNCHANGED <<records, resources>>
      BY <2>1, <2>2, EndsNamed, SameRecords DEF JInv, Identified, records
    <2>3. CASE op.kind = "converge" /\ op.snapped /\ Exchanged
      <3>1. op.marked /\ marker # None /\ snapshot.marker.id = marker.id
        BY <2>3 DEF JInv, Naming
      <3>2. QED
        BY <1>6, <2>1, <2>3, <3>1 DEF JInv, Identified
    <2>4. QED
      BY <2>1, <2>2, <2>3
      DEF Settle, SettleConverge, Committed, Degraded, Reversed, CutShort
  <1>9. QED
    BY <1>2, <1>3, <1>4, <1>5, <1>7, <1>8 DEF Next

(* An installation keeps its identity until it is purged, in whichever     *)
(* record it is, and never takes another one's.                            *)
THEOREM IdentityStays == Spec => IdentityIsKept
  <1>1. IInv /\ JInv /\ [Next]_vars => JInv' /\ Kept
    BY ConvergeNames, UninstallNames, RestNames
  <1>2. IInv /\ JInv /\ [Next]_vars => [Kept]_vars
    BY <1>1
  <1>3. QED
    BY InitNaming, Invariance, <1>1, <1>2, PTL DEF Spec, IdentityIsKept, Kept

-------------------------------------------------------------------------------
(* Whatever was interrupted can be continued.                              *)

\* The places of a convergence where the log is there, and of a removal that
\* retains, where the host files and the runtime are gone.
WithLog    == {"node", "swap", "bridges", "bridged"} \cup WithNode
RetainHost == {"opt", "pending", "retain", "unmark"}
RetainOpt  == {"pending", "retain", "unmark"}

\* During a purge nothing but the purge goes on, and the two records agree.
Alone ==
    /\ purging # None /\ Busy /\ op.kind # "purge" => late
    /\ ~late /\ marker # None /\ purging # None => marker = purging

\* What there is without a marker is accounted for by another record.
Accounted ==
    /\ disk = [p \in Parts |-> disk[p]]
    /\ marker # None /\ purging = None => disk["log"] = "ours"
    /\ marker = None /\ purging = None =>
          /\ pending # None /\ retained # None => pending = retained
          /\ retained # None => disk["user"] = "ours"
          /\ retained # None /\ pending = None =>
                disk["opt"] = "none" /\ disk["host"] \in {"none", "foreign"}
          /\ pending # None => \A p \in Trees : disk[p] # "none" => disk["user"] = "ours"
          /\ pending = None /\ retained = None =>
                /\ \A p \in Parts \ {"user", "host"} : disk[p] = "none"
                /\ {disk["user"], disk["host"]} \subseteq {"none", "foreign"}

Working ==
    /\ op.kind = "converge" /\ op.pc \in WithLog => disk["log"] = "ours"
    /\ op.kind = "retain" =>
          /\ op.pc # "preflight" => disk["user"] = "ours"
          /\ op.pc \in RetainHost => disk["host"] = "none"
          /\ op.pc \in RetainOpt => disk["opt"] = "none"

KInv == Alone /\ Accounted /\ Working

LEMMA InitAccounted == Init => KInv
  BY DEF Init, KInv, Alone, Accounted, Working, Idle, Nothing, Busy, Parts, Trees

LEMMA EndsAccounted ==
  ASSUME op' = Idle, late' = late, Accounted',
         ~late /\ marker' # None /\ purging' # None => marker' = purging'
  PROVE  KInv'
  <1>1. op'.kind = "none"
    BY DEF Idle
  <1>2. QED
    BY <1>1 DEF KInv, Alone, Working, Busy

\* The records and the disk stay.
LEMMA SameAccounts ==
  ASSUME KInv, UNCHANGED <<records, disk>>
  PROVE  Accounted'
  BY DEF KInv, Accounted, records

\* A step of a convergence that writes to the disk, with the account there.
LEMMA WritesAccounted ==
  ASSUME IInv, JInv, KInv, op.kind = "converge", op'.kind = "converge",
         op.pc \notin {"preflight", "stop", "journal"}, op.pc \notin Forgets,
         UNCHANGED <<records, late>>, disk' = [p \in Parts |-> disk'[p]],
         disk'["user"] = "ours", disk'["log"] \in {disk["log"], "ours"},
         op'.pc \in WithLog => op.pc \in WithLog \/ disk'["log"] = "ours"
  PROVE  KInv'
  <1>1. marker = None => pending # None
    BY DEF JInv, Naming
  <1>2. Alone' /\ Working'
    BY DEF KInv, Alone, Working, Busy, records
  <1>3. Accounted'
    BY <1>1 DEF KInv, Accounted, records, Trees, Parts
  <1>4. QED
    BY <1>2, <1>3 DEF KInv

LEMMA ConvergeAccounts == ASSUME IInv, JInv, KInv, Converge PROVE KInv'
  <1>. USE DEF world, seen, resources
  <1>1. Busy /\ op.kind = "converge" /\ DOMAIN op = Fields /\ UNCHANGED late
    BY DEF Converge, ConvergePreflight, StopForConverge, JournalInstall, TakeSnapshot,
       EnsureIdentity, EnsureAccount, MakeHome, GiveHome, WriteSudoers,
       EnsureDirectories, Dependencies, NodeIsCurrent, StageNode, MoveNodeAway,
       PlaceNode, CopyBridges, RecordBridges, DeployRuntime, DeployConfiguration,
       DeployServices, BeginWriting, EndWriting, StartServices, WriteMarker, ForgetPending,
       ForgetRetained, In, Halfway, At, Busy, IInv, Shape
  <1>2. {"pc", "kind", "half", "id", "rev", "marked", "snapped"} \subseteq DOMAIN op
    BY <1>1 DEF Fields
  <1>3. ASSUME NEW p, NEW h, op' = [op EXCEPT !.pc = p, !.half = h]
        PROVE  op'.pc = p /\ op'.kind = "converge"
    BY <1>1, <1>2, <1>3
  <1>4. ASSUME op'.kind = "converge", op'.pc \in {"stop", "journal", "snapshot", "identity"},
               UNCHANGED <<records, disk>>
        PROVE  KInv'
    <2>1. Alone' /\ Working'
      BY <1>1, <1>4 DEF KInv, Alone, Working, Busy, records, WithLog, WithNode, WithOpt,
         WithCopy, WithEtc,
         WithHost
    <2>2. QED
      BY <1>4, <2>1, SameAccounts DEF KInv
  <1>5. CASE ConvergePreflight \/ StopForConverge \/ TakeSnapshot
    <2>1. UNCHANGED <<records, disk>>
      BY <1>5 DEF ConvergePreflight, StopForConverge, TakeSnapshot
    <2>2. op'.kind = "converge" /\ op'.pc \in {"stop", "journal", "identity"}
      <3>1. CASE ConvergePreflight
        BY <1>1, <1>2, <3>1 DEF ConvergePreflight
      <3>2. CASE StopForConverge
        BY <1>3, <3>2 DEF StopForConverge, Goto
      <3>3. CASE TakeSnapshot
        BY <1>1, <1>2, <3>3 DEF TakeSnapshot
      <3>4. QED
        BY <1>5, <3>1, <3>2, <3>3
    <2>3. QED
      BY <1>4, <2>1, <2>2
  <1>6. CASE JournalInstall
    <2>1. /\ op.pc = "journal" /\ UNCHANGED <<marker, retained, purging, disk>>
          /\ pending' = IF op.marked THEN pending ELSE op.id
      BY <1>6 DEF JournalInstall, Journalled, In, At
    <2>2. op'.kind = "converge" /\ op'.pc \in {"snapshot", "identity"}
      BY <1>3, <1>6 DEF JournalInstall, Goto
    <2>3. CASE op.marked
      BY <1>4, <2>1, <2>2, <2>3 DEF records
    <2>4. CASE ~op.marked
      <3>1. /\ marker = None /\ purging = None /\ op.id # None /\ pending' = op.id
            /\ pending # None => op.id = pending
            /\ pending = None /\ retained # None => op.id = retained
        BY <1>1, <2>1, <2>4 DEF JInv, Naming, Forgets
      <3>2. Alone' /\ Working'
        BY <1>1, <2>1, <2>2, <3>1 DEF KInv, Alone, Working, Busy, WithLog, WithNode, WithOpt,
           WithCopy, WithEtc, WithHost
      <3>3. \A p \in Trees : disk[p] # "none" => disk["user"] = "ours"
        BY <3>1 DEF KInv, Accounted, Trees, Parts
      <3>4. Accounted'
        BY <2>1, <3>1, <3>3 DEF KInv, Accounted
      <3>5. QED
        BY <3>2, <3>4 DEF KInv
    <2>5. QED
      BY <2>3, <2>4
  <1>7. CASE WriteMarker
    <2>1. /\ op.pc = "mark" /\ UNCHANGED <<purging, disk>>
          /\ marker' = [id |-> op.id, rev |-> op.rev]
      BY <1>7 DEF WriteMarker, In, At
    <2>2. op'.kind = "converge" /\ op'.pc = "forget pending"
      BY <1>3, <1>7 DEF WriteMarker, Goto
    <2>3. disk["log"] = "ours" /\ (~late => purging = None)
      BY <1>1, <2>1 DEF KInv, Alone, Working, WithLog, WithNode, WithOpt,
         WithCopy, WithEtc, WithHost
    <2>4. marker' # None
      <3>1. op.id \in Ids /\ op.rev \in Revs
        BY <1>1, <2>1 DEF JInv, Naming, IInv, Shape
      <3>2. QED
        BY <2>1, <3>1, NamesAssumption
    <2>5. QED
      BY <1>1, <2>1, <2>2, <2>3, <2>4
      DEF KInv, Alone, Accounted, Working, Busy, WithLog, WithNode, WithOpt,
         WithCopy, WithEtc, WithHost
  <1>8. CASE ForgetPending \/ ForgetRetained
    <2>1. marker # None /\ UNCHANGED <<marker, purging, disk>>
      BY <1>1, <1>8 DEF ForgetPending, ForgetRetained, In, At, JInv, Naming, Forgets
    <2>2. Accounted'
      BY <2>1 DEF KInv, Accounted
    <2>3. CASE ForgetPending
      <3>1. op'.kind = "converge" /\ op'.pc = "forget retained"
        BY <1>3, <2>3 DEF ForgetPending, Goto
      <3>2. QED
        BY <1>1, <2>1, <2>2, <3>1
        DEF KInv, Alone, Working, Busy, WithLog, WithNode, WithOpt, WithCopy, WithEtc, WithHost
    <2>4. CASE ForgetRetained
      BY <1>1, <2>1, <2>2, <2>4, EndsAccounted DEF ForgetRetained, Done, KInv, Alone
    <2>5. QED
      BY <1>8, <2>3, <2>4
  <1>9. CASE EnsureIdentity
    <2>1. /\ op.pc \in {"identity", "home", "owner", "sudoers"} /\ UNCHANGED records
          /\ \/ op.pc = "identity" /\ disk' = [disk EXCEPT !["user"] = "ours"]
             \/ /\ op.pc # "identity"
                /\ \E c : \E p \in {"home", "host"} : disk' = [disk EXCEPT ![p] = c]
      BY <1>9 DEF EnsureIdentity, EnsureAccount, MakeHome, GiveHome, WriteSudoers, Put, In, At
    <2>2. op'.kind = "converge" /\ op'.pc \in {"home", "owner", "sudoers", "directories"}
      BY <1>3, <1>9 DEF EnsureIdentity, EnsureAccount, MakeHome, GiveHome, WriteSudoers, Goto
    <2>3. op.pc # "identity" => disk["user"] = "ours"
      BY <1>1, <2>1 DEF IInv, Written, WithUser
    <2>4. /\ disk' = [p \in Parts |-> disk'[p]] /\ disk'["user"] = "ours"
          /\ disk'["log"] = disk["log"]
      BY <2>1, <2>3 DEF KInv, Accounted, Parts, Trees
    <2>5. QED
      BY <1>1, <2>1, <2>2, <2>4, WritesAccounted
      DEF Forgets, WithLog, WithNode, WithOpt, WithCopy, WithEtc, WithHost
  <1>10. CASE EnsureDirectories
    <2>1. /\ op.pc = "directories" /\ UNCHANGED records
          /\ disk' = [p \in Parts |->
                        IF p \in {"state", "log"} THEN "ours"
                        ELSE IF p \in {"opt", "etc"} /\ disk[p] = "none" THEN "mixed"
                        ELSE disk[p]]
      BY <1>10 DEF EnsureDirectories, In, At
    <2>2. op'.kind = "converge" /\ op'.pc = "node"
      BY <1>3, <1>10 DEF EnsureDirectories, Goto
    <2>3. disk["user"] = "ours"
      BY <1>1, <2>1 DEF IInv, Written, WithUser
    <2>4. /\ disk' = [p \in Parts |-> disk'[p]] /\ disk'["user"] = "ours"
          /\ disk'["log"] = "ours"
      BY <2>1, <2>3 DEF Parts, Trees
    <2>5. QED
      BY <1>1, <2>1, <2>2, <2>4, WritesAccounted DEF Forgets
  <1>11. CASE \/ Dependencies \/ DeployRuntime \/ DeployConfiguration \/ DeployServices
              \/ StartServices
    <2>1. op.pc \in WithLog /\ UNCHANGED records
      BY <1>11 DEF Dependencies, NodeIsCurrent, StageNode,
         MoveNodeAway, PlaceNode, CopyBridges, RecordBridges, DeployRuntime,
         DeployConfiguration, DeployServices, StartServices, BeginWriting, EndWriting,
         In, Halfway, At, WithLog, WithNode, WithOpt, WithCopy, WithEtc, WithHost
    <2>2. /\ op.pc \in WithUser /\ op.pc \notin Forgets
          /\ op.pc \notin {"preflight", "stop", "journal"}
      BY <2>1 DEF WithLog, WithUser, WithNode, WithOpt, WithCopy, WithEtc, WithHost, Forgets
    <2>3. disk["user"] = "ours"
      BY <1>1, <2>2 DEF IInv, Written
    <2>4. \/ disk' = disk
          \/ \E c : \E p \in {"node", "opt", "product", "etc", "host"} :
                   disk' = [disk EXCEPT ![p] = c]
      BY <1>11 DEF Dependencies, NodeIsCurrent, StageNode,
         MoveNodeAway, PlaceNode, CopyBridges, RecordBridges, DeployRuntime,
         DeployConfiguration, DeployServices, StartServices, BeginWriting, EndWriting, Put
    <2>5. /\ disk' = [p \in Parts |-> disk'[p]] /\ disk'["user"] = "ours"
          /\ disk'["log"] = disk["log"]
      BY <2>3, <2>4 DEF KInv, Accounted, Parts, Trees
    <2>6. op'.kind = "converge"
      <3>1. (\E p, h : op' = [op EXCEPT !.pc = p, !.half = h]) \/ op' = [op EXCEPT !.half = TRUE]
        BY <1>11 DEF Dependencies, NodeIsCurrent, StageNode,
           MoveNodeAway, PlaceNode, CopyBridges, RecordBridges, DeployRuntime,
           DeployConfiguration, DeployServices, StartServices, BeginWriting, Goto, GoHalfway
      <3>2. QED
        BY <1>1, <1>2, <1>3, <3>1
    <2>7. QED
      BY <1>1, <2>1, <2>2, <2>5, <2>6, WritesAccounted
  <1>12. QED
    BY <1>5, <1>6, <1>7, <1>8, <1>9, <1>10, <1>11 DEF Converge

LEMMA UninstallAccounts == ASSUME IInv, JInv, KInv, Uninstall PROVE KInv'
  <1>. USE DEF world, seen, resources
  <1>1. /\ Busy /\ op.kind \in {"retain", "purge"} /\ DOMAIN op = Fields /\ UNCHANGED late
        /\ DOMAIN disk = Parts
    BY DEF Uninstall, UninstallPreflight, RecordPurge, StopForUninstall, BeginRemoval,
       EndRemoval, RemovePending, Retain, RemoveMarker, RemoveUser, RemoveTree, RemoveFromState,
       RemoveState, ForgetPurge, In, Halfway, At, Uninstalls, Busy, IInv, Shape
  <1>2. {"pc", "kind", "half"} \subseteq DOMAIN op
    BY <1>1 DEF Fields
  <1>3. ASSUME NEW p, NEW h, op' = [op EXCEPT !.pc = p, !.half = h]
        PROVE  op'.pc = p /\ op'.kind = op.kind
    BY <1>1, <1>2, <1>3
  <1>4. After("host") = "opt" /\ After("opt") = "pending"
    BY DEF After
  <1>5. CASE UninstallPreflight
    <2>1. /\ UNCHANGED records /\ UninstallAccepted(op.kind)
          /\ disk' = IF purging # None THEN [disk EXCEPT !["log"] = "ours"] ELSE disk
      BY <1>5 DEF UninstallPreflight, Put, Resumed
    <2>2. PICK p \in {"record", "stop"} : op' = [op EXCEPT !.pc = p, !.half = FALSE]
      BY <1>5 DEF UninstallPreflight, Goto
    <2>3. op'.pc = p /\ op'.kind = op.kind
      BY <1>3, <2>2
    <2>4. /\ (marker # None \/ purging # None)
          /\ disk' = [q \in Parts |-> disk'[q]]
          /\ disk'["user"] = disk["user"] /\ (purging = None => disk' = disk)
      BY <2>1 DEF UninstallAccepted, KInv, Accounted, Parts, Trees
    <2>5. Accounted'
      BY <2>1, <2>4 DEF KInv, Accounted, records
    <2>6. Alone' /\ Working'
      BY <1>1, <2>1, <2>3, <2>4
      DEF KInv, Alone, Working, Busy, records, RetainHost, RetainOpt, UninstallAccepted
    <2>7. QED
      BY <2>5, <2>6 DEF KInv
  <1>6. ASSUME op.kind = "retain", op.pc # "preflight", UNCHANGED <<marker, purging>>,
               op'.kind = "retain", op'.pc # "preflight",
               disk' = [p \in Parts |-> disk'[p]],
               disk'["user"] = disk["user"], disk'["log"] = disk["log"],
               op'.pc \in RetainHost => disk'["host"] = "none",
               op'.pc \in RetainOpt => disk'["opt"] = "none"
        PROVE  KInv'
    <2>1. marker # None /\ purging = None
      BY <1>6 DEF JInv, Handing
    <2>2. Accounted' /\ Alone' /\ Working'
      BY <1>1, <1>6, <2>1 DEF KInv, Accounted, Alone, Working, Busy
    <2>3. QED
      BY <2>2 DEF KInv
  <1>7. ASSUME op.kind = "purge", op.pc \notin {"preflight", "record"}, UNCHANGED purging,
               marker' \in {marker, None}, op'.kind = "purge",
               disk' = [p \in Parts |-> disk'[p]]
        PROVE  KInv'
    <2>1. purging # None /\ (marker # None => marker = purging)
      BY <1>7 DEF JInv, Handing
    <2>2. Accounted' /\ Alone' /\ Working'
      BY <1>1, <1>7, <2>1 DEF KInv, Accounted, Alone, Working, Busy
    <2>3. QED
      BY <2>2 DEF KInv
  <1>8. CASE RecordPurge
    <2>1. /\ op.kind = "purge" /\ op.pc = "record" /\ purging' = marker
          /\ UNCHANGED <<marker, disk>>
          /\ op' = [op EXCEPT !.pc = "stop", !.half = FALSE]
      BY <1>8 DEF RecordPurge, In, At, Goto
    <2>2. marker # None
      BY <2>1 DEF JInv, Handing
    <2>3. op'.pc = "stop" /\ op'.kind = "purge"
      BY <1>3, <2>1
    <2>4. QED
      BY <1>1, <2>1, <2>2, <2>3 DEF KInv, Accounted, Alone, Working
  <1>9. CASE StopForUninstall \/ RemovePending \/ Retain
    <2>1. /\ op.pc \in {"stop", "pending", "retain"} /\ UNCHANGED <<marker, purging, disk>>
      BY <1>9 DEF StopForUninstall, RemovePending, Retain, In, At, records, resources
    <2>2. PICK p \in {"host", "retain", "user", "unmark"} :
             /\ op' = [op EXCEPT !.pc = p, !.half = FALSE]
             /\ p # "host" => op.pc \in {"pending", "retain"}
      BY <1>9 DEF StopForUninstall, RemovePending, Retain, Goto, In, At
    <2>3. op'.pc = p /\ op'.kind = op.kind
      BY <1>3, <2>2
    <2>4. disk' = [q \in Parts |-> disk'[q]]
      BY <2>1 DEF KInv, Accounted
    <2>5. CASE op.kind = "retain"
      BY <1>6, <2>1, <2>2, <2>3, <2>4, <2>5 DEF KInv, Working, RetainHost, RetainOpt
    <2>6. CASE op.kind = "purge"
      BY <1>7, <2>1, <2>3, <2>4, <2>6
    <2>7. QED
      BY <1>1, <2>5, <2>6
  <1>10. CASE BeginRemoval
    <2>1. PICK p \in {"host", "opt"} :
             /\ op.pc = p /\ UNCHANGED records /\ op' = [op EXCEPT !.half = TRUE]
             /\ disk' = [q \in Parts |->
                           IF q \in With(p) /\ Present(disk, q) THEN "mixed" ELSE disk[q]]
      BY <1>10 DEF BeginRemoval, In, At, GoHalfway
    <2>2. op'.pc = p /\ op'.kind = op.kind
      BY <1>1, <1>2, <2>1
    <2>3. /\ disk' = [q \in Parts |-> disk'[q]] /\ disk'["user"] = disk["user"]
          /\ disk'["log"] = disk["log"] /\ (p = "opt" => disk'["host"] = disk["host"])
      BY <2>1 DEF With, Parts, Trees
    <2>4. CASE op.kind = "retain"
      BY <1>6, <2>1, <2>2, <2>3, <2>4 DEF KInv, Working, RetainHost, RetainOpt, records
    <2>5. CASE op.kind = "purge"
      BY <1>7, <2>1, <2>2, <2>3, <2>5 DEF records
    <2>6. QED
      BY <1>1, <2>4, <2>5
  <1>11. CASE EndRemoval
    <2>1. PICK p \in {"host", "opt"} :
             /\ op.pc = p /\ UNCHANGED records /\ op' = [op EXCEPT !.pc = After(p), !.half = FALSE]
             /\ disk' = [q \in Parts |-> IF q \in With(p) THEN "none" ELSE disk[q]]
      BY <1>11 DEF EndRemoval, Halfway, At, Goto
    <2>2. op'.pc = After(p) /\ op'.kind = op.kind
      BY <1>3, <2>1
    <2>3. /\ disk' = [q \in Parts |-> disk'[q]] /\ disk'["user"] = disk["user"]
          /\ disk'["log"] = disk["log"] /\ (p = "opt" => disk'["host"] = disk["host"])
          /\ disk'[p] = "none"
      BY <2>1 DEF With, Parts, Trees
    <2>4. CASE op.kind = "retain"
      BY <1>4, <1>6, <2>1, <2>2, <2>3, <2>4 DEF KInv, Working, RetainHost, RetainOpt, records
    <2>5. CASE op.kind = "purge"
      BY <1>7, <2>1, <2>2, <2>3, <2>5 DEF records
    <2>6. QED
      BY <1>1, <2>4, <2>5
  <1>12. CASE RemoveMarker
    <2>1. /\ op.kind = "retain" /\ op.pc = "unmark" /\ marker' = None /\ op' = Idle
          /\ UNCHANGED <<pending, retained, purging, disk>>
      BY <1>12 DEF RemoveMarker, In, At, Done
    <2>2. marker # None /\ purging = None /\ pending = None /\ retained = marker.id
      BY <2>1 DEF JInv, Handing
    <2>3. retained # None
      BY <2>2, NamesAssumption DEF JInv, Identified
    <2>4. disk["user"] = "ours" /\ disk["host"] = "none" /\ disk["opt"] = "none"
      BY <2>1 DEF KInv, Working, RetainHost, RetainOpt
    <2>5. Accounted'
      BY <2>1, <2>2, <2>3, <2>4 DEF KInv, Accounted
    <2>6. QED
      BY <1>1, <2>1, <2>5, EndsAccounted
  <1>13. CASE RemoveUser \/ RemoveTree \/ RemoveFromState \/ RemoveState
    <2>1. /\ op.kind = "purge" /\ op.pc \notin {"preflight", "record"} /\ UNCHANGED purging
          /\ marker' \in {marker, None}
      BY <1>13 DEF RemoveUser, RemoveTree, RemoveFromState, RemoveState, In, Halfway, At, records
    <2>2. op'.kind = "purge"
      <3>1. (\E p, h : op' = [op EXCEPT !.pc = p, !.half = h]) \/ op' = [op EXCEPT !.half = TRUE]
        BY <1>13 DEF RemoveUser, RemoveTree, RemoveFromState, RemoveState, Goto, GoHalfway
      <3>2. QED
        BY <1>1, <1>2, <1>3, <2>1, <3>1
    <2>3. disk' = [p \in Parts |-> disk'[p]]
      <3>1. disk = [p \in Parts |-> disk[p]]
        BY DEF KInv, Accounted
      <3>2. CASE RemoveUser
        <4>1. PICK left : disk' = [disk EXCEPT !["user"] = "none", !["home"] = left]
          BY <3>2 DEF RemoveUser
        <4>2. QED
          BY <3>1, <4>1
      <3>3. CASE RemoveTree
        <4>1. PICK p : disk' = [disk EXCEPT ![p] = "none"]
          BY <3>3 DEF RemoveTree, Put
        <4>2. QED
          BY <3>1, <4>1
      <3>4. CASE RemoveFromState
        BY <3>1, <3>4 DEF RemoveFromState
      <3>5. CASE RemoveState
        BY <3>1, <3>5 DEF RemoveState, Put
      <3>6. QED
        BY <1>13, <3>2, <3>3, <3>4, <3>5
    <2>4. QED
      BY <1>7, <2>1, <2>2, <2>3
  <1>14. CASE ForgetPurge
    <2>1. /\ op.kind = "purge" /\ op.pc = "completed" /\ op' = Idle
          /\ UNCHANGED <<marker, pending, retained, disk>> /\ purging' = None
      BY <1>14 DEF ForgetPurge, In, At, Done
    <2>2. /\ marker = None /\ retained = None /\ pending = None
          /\ \A p \in Parts : disk[p] = "none"
      BY <2>1 DEF IInv, Removed, NoHost, NoOpt, NoPending, NoUser, NoHome, NoEtc, NoState, NoLog,
         Parts, Trees
    <2>3. Accounted'
      BY <2>1, <2>2 DEF KInv, Accounted, Parts
    <2>4. QED
      BY <1>1, <2>1, <2>3, EndsAccounted
  <1>15. QED
    BY <1>5, <1>8, <1>9, <1>10, <1>11, <1>12, <1>13, <1>14 DEF Uninstall

LEMMA RestAccounts ==
  ASSUME IInv, JInv, KInv, [Next]_vars, ~Converge, ~Uninstall PROVE KInv'
  <1>. USE DEF world, seen, resources
  <1>1. ASSUME NEW plan, Start(plan) PROVE KInv'
    <2>1. /\ op'.pc = "preflight" /\ op'.kind = plan.kind /\ UNCHANGED <<records, disk>>
          /\ late' = (late \/ (purging # None /\ plan.kind # "purge"))
      BY <1>1 DEF Start
    <2>2. Alone' /\ Working'
      BY <2>1 DEF KInv, Alone, Working, records, WithLog, WithNode, WithOpt,
         WithCopy, WithEtc, WithHost,
         RetainHost, RetainOpt
    <2>3. QED
      BY <2>1, <2>2, SameAccounts DEF KInv
  <1>2. CASE (\E k \in Kinds : Call(k)) \/ Confirmed
    BY <1>1, <1>2 DEF Call, Confirmed
  <1>3. CASE \/ \E k \in Waiting : Ask(k)
             \/ Refused \/ SourceChanges \/ Expires \/ UNCHANGED vars
    <2>1. UNCHANGED <<records, disk, op, late>>
      BY <1>3 DEF Ask, Refused, SourceChanges, Expires, vars
    <2>2. Alone' /\ Working'
      BY <2>1 DEF KInv, Alone, Working, Busy, records
    <2>3. QED
      BY <2>1, <2>2, SameAccounts DEF KInv
  <1>4. CASE Declined \/ Killed
    <2>1. op' = Idle /\ UNCHANGED <<records, disk, late>>
      BY <1>4 DEF Declined, Killed, Done
    <2>2. QED
      BY <2>1, SameAccounts, EndsAccounted DEF KInv, Alone, records
  <1>5. CASE ForeignAppears
    <2>1. PICK p \in {"user", "host"} :
             /\ disk[p] = "none" /\ disk' = [disk EXCEPT ![p] = "foreign"] /\ op = Idle
             /\ UNCHANGED <<records, op, late>>
      BY <1>5 DEF ForeignAppears, Put
    <2>2. op.kind = "none"
      BY <2>1 DEF Idle
    <2>3. Alone' /\ Working'
      BY <2>1, <2>2 DEF KInv, Alone, Working, Busy, records
    <2>4. /\ disk' = [q \in Parts |-> disk'[q]] /\ p \in Parts /\ disk'[p] = "foreign"
          /\ \A q \in Parts : q # p => disk'[q] = disk[q]
      BY <2>1 DEF KInv, Accounted, Parts
    <2>5. Accounted'
      BY <2>1, <2>4 DEF KInv, Accounted, records, Parts, Trees
    <2>6. QED
      BY <2>3, <2>5 DEF KInv
  <1>6. CASE Small
    <2>1. UNCHANGED <<records, disk, late>>
      BY <1>6 DEF Small, Stop, Suspend, StartForResume, Resume, Kill, Backup
    <2>2. op' = Idle \/ \E p : op' = [op EXCEPT !.pc = p, !.half = FALSE]
      BY <1>6 DEF Small, Stop, Suspend, StartForResume, Resume, Kill, Backup, Done, Goto
    <2>3. Busy /\ op.kind \notin {"converge", "retain", "purge"}
      BY <1>6 DEF Small, Stop, Suspend, StartForResume, Resume, Kill, Backup, In, At, Busy
    <2>4. CASE op' = Idle
      BY <2>1, <2>4, SameAccounts, EndsAccounted DEF KInv, Alone, records
    <2>5. ASSUME NEW p, op' = [op EXCEPT !.pc = p, !.half = FALSE] PROVE KInv'
      <3>1. op'.kind = op.kind
        BY <2>3, <2>5 DEF IInv, Shape, Fields
      <3>2. QED
        BY <2>1, <2>3, <3>1, SameAccounts DEF KInv, Alone, Working, Busy, records
    <2>6. QED
      BY <2>2, <2>4, <2>5
  <1>7. ASSUME Exchanged, op' = Idle, snapshot.marker # None, marker # None, Busy,
               op.kind # "purge", UNCHANGED late
        PROVE  KInv'
    <2>1. /\ marker' # None /\ UNCHANGED purging /\ disk'["log"] = disk["log"]
          /\ disk' = [p \in Parts |-> disk'[p]]
      BY <1>7 DEF Exchanged, Parts, Trees
    <2>2. ~late => purging = None
      BY <1>7 DEF KInv, Alone
    <2>3. Accounted'
      BY <1>7, <2>1 DEF KInv, Accounted
    <2>4. QED
      BY <1>7, <2>1, <2>2, <2>3, EndsAccounted
  <1>8. CASE Rollback
    <2>1. /\ Exchanged /\ op' = Idle /\ SnapshotAccepted /\ UNCHANGED late
          /\ Busy /\ op.kind # "purge"
      BY <1>8 DEF Rollback, Committed, Done, In, At, Busy
    <2>2. QED
      BY <1>7, <2>1 DEF SnapshotAccepted, JInv, Identified
  <1>9. CASE StepFails
    <2>1. op' = Idle /\ Settle /\ UNCHANGED late
      BY <1>9 DEF StepFails, Done
    <2>2. CASE UNCHANGED <<records, resources>>
      BY <2>1, <2>2, SameAccounts, EndsAccounted DEF KInv, Alone, records
    <2>3. CASE op.kind = "converge" /\ op.snapped /\ Exchanged
      BY <1>7, <2>1, <2>3 DEF JInv, Naming, Identified, Busy
    <2>4. QED
      BY <2>1, <2>2, <2>3
      DEF Settle, SettleConverge, Committed, Degraded, Reversed, CutShort
  <1>10. QED
    BY <1>2, <1>3, <1>4, <1>5, <1>6, <1>8, <1>9 DEF Next

(* Whatever was interrupted, an operation that continues it is accepted.   *)
THEOREM AlwaysContinued == Spec => []CanBeContinued
  <1>1. IInv /\ JInv /\ [Next]_vars => JInv'
    BY ConvergeNames, UninstallNames, RestNames
  <1>2. IInv /\ JInv /\ KInv /\ [Next]_vars => KInv'
    BY ConvergeAccounts, UninstallAccounts, RestAccounts
  <1>3. IInv /\ KInv => CanBeContinued
    <2>1. SUFFICES ASSUME IInv, KInv, ~late, disk["home"] # "rooted",
                          \A p \in Parts : disk[p] # "foreign"
                   PROVE  IF marker # None \/ purging # None THEN UninstallAccepted("purge")
                          ELSE ConvergeAccepted
      BY DEF CanBeContinued
    <2>2. {"user", "host", "opt"} \subseteq Parts
      BY DEF Parts, Trees
    <2>3. CASE marker # None \/ purging # None
      BY <2>1, <2>2, <2>3
      DEF KInv, Alone, Accounted, UninstallAccepted, AgreesWithPurge
    <2>4. CASE marker = None /\ purging = None
      <3>1. pending # None => PendingFits
        BY <2>1, <2>2, <2>4 DEF KInv, Accounted, PendingFits, Present
      <3>2. retained # None => RetainedFits
        BY <2>1, <2>2, <2>4 DEF KInv, Accounted, RetainedFits, Present
      <3>3. pending = None /\ retained = None => disk = Nothing
        <4>1. SUFFICES ASSUME pending = None, retained = None PROVE disk = Nothing
          OBVIOUS
        <4>2. \A p \in Parts : disk[p] = "none"
          BY <2>1, <2>2, <2>4, <4>1 DEF KInv, Accounted
        <4>3. QED
          BY <2>1, <4>2 DEF KInv, Accounted, Nothing
      <3>4. QED
        BY <2>1, <2>4, <3>1, <3>2, <3>3 DEF KInv, Accounted, ConvergeAccepted
    <2>5. QED
      BY <2>3, <2>4
  <1>4. QED
    BY InitNaming, InitAccounted, Invariance, <1>1, <1>2, <1>3, PTL DEF Spec

-------------------------------------------------------------------------------
(***************************************************************************)
(* The swap transaction by which a snapshot is put back (module Rollback), *)
(* for any number of swaps, any of them present before or in the snapshot, *)
(* and any failing rename.                                                 *)
(***************************************************************************)

USE NAssumption, InStateAssumption

\* RollbackInit establishes the invariant.
LEMMA InductiveInit == RollbackInit => Inductive
<1> SUFFICES ASSUME RollbackInit PROVE Inductive
  OBVIOUS
<1> USE DEF RollbackInit, Swaps
<1>1. TypeOK
  <2>1. /\ target \in [Swaps -> Contents] /\ staged \in [Swaps -> Contents]
        /\ previous \in [Swaps -> Contents]
    BY DEF Nowhere, FoundAt, Contents
  <2>2. at \in 0..N + 1
    OBVIOUS
  <2> QED BY <2>1, <2>2 DEF TypeOK, Phases, Outcomes
<1>2. \A i \in Swaps : Untouched(i) BY DEF Untouched, Nowhere
<1>3. SwapsInv BY <1>1, <1>2 DEF SwapsInv
<1>4. PhaseInv BY <1>2 DEF PhaseInv
<1>5. /\ FilesFitOutcome /\ OldIsKept /\ StrayIsNamed /\ MixNeverServes
  BY <1>1 DEF FilesFitOutcome, OldIsKept, StrayIsNamed, MixNeverServes, FoundAt
<1> QED BY <1>1, <1>3, <1>4, <1>5 DEF Inductive

\* Every step keeps the types.
LEMMA TypeStep == Inductive /\ [RollbackNext]_rollbackVars => TypeOK'
<1> SUFFICES ASSUME TypeOK, SwapsInv, PhaseInv, [RollbackNext]_rollbackVars PROVE TypeOK'
  BY DEF Inductive
<1> USE DEF TypeOK, Swaps, Contents, Phases, Outcomes, record, files, flags
<1>1. CASE Stage BY <1>1 DEF Stage, SavedAt
<1>2. CASE AllStaged BY <1>2 DEF AllStaged
<1>3. CASE StageFails BY <1>3 DEF StageFails
<1>4. CASE StopServices BY <1>4 DEF StopServices
<1>5. CASE StopFails BY <1>5 DEF StopFails, Undo
<1>6. CASE Away BY <1>6 DEF Away
<1>7. CASE Place
  <2>1. at \in 1..N /\ staged[at] \in Contents BY <1>7 DEF Place
  <2>2. target' \in [Swaps -> Contents] /\ staged' \in [Swaps -> Contents]
    BY <1>7, <2>1 DEF Place
  <2>3. placed' \in SUBSET Swaps BY <1>7, <2>1 DEF Place
  <2> QED BY <1>7, <2>1, <2>2, <2>3 DEF Place
<1>8. CASE AllPlaced BY <1>8 DEF AllPlaced
<1>9. CASE ApplyFails BY <1>9 DEF ApplyFails, Undo
<1>10. CASE Finish BY <1>10 DEF Finish
<1>11. CASE CompletionHolds BY <1>11 DEF CompletionHolds
<1>12. CASE CompletionFails BY <1>12 DEF CompletionFails, Undo
<1>13. CASE Unplace BY <1>13 DEF Unplace, Unplaced
<1>14. CASE Unmove BY <1>14 DEF Unmove
<1>15. CASE UndoFails BY <1>15 DEF UndoFails, Noted
<1>16. CASE Undone BY <1>16 DEF Undone
<1>17. CASE Unrestored BY <1>17 DEF Unrestored
<1>18. CASE Restored BY <1>18 DEF Restored, CleanedUp
<1>19. CASE Commit BY <1>19 DEF Commit
<1>20. CASE UNCHANGED rollbackVars BY <1>20 DEF rollbackVars
<1> QED
  BY <1>1, <1>2, <1>3, <1>4, <1>5, <1>6, <1>7, <1>8, <1>9, <1>10, <1>11, <1>12, <1>13,
     <1>14, <1>15, <1>16, <1>17, <1>18, <1>19, <1>20 DEF RollbackNext, Forward, Backward

\* Every step takes each swap where the phase says it is.
LEMMA SwapsStep == Inductive /\ [RollbackNext]_rollbackVars => SwapsInv'
<1> SUFFICES ASSUME TypeOK, SwapsInv, PhaseInv, [RollbackNext]_rollbackVars PROVE SwapsInv'
  BY DEF Inductive
<1> USE DEF TypeOK, Swaps, Contents, Phases, Outcomes, record, files, flags
<1> USE DEF Ready, Untouched, Vacant, Aside, Swapped, Applied, Back, FoundAt, SavedAt, SwapsInv
<1>1. CASE Stage BY <1>1 DEF Stage
<1>2. CASE AllStaged BY <1>2 DEF AllStaged
<1>3. CASE StageFails BY <1>3 DEF StageFails
<1>4. CASE StopServices BY <1>4 DEF StopServices
<1>5. CASE StopFails BY <1>5 DEF StopFails, Undo
<1>6. CASE Away BY <1>6 DEF Away
<1>7. CASE Place BY <1>7 DEF Place
<1>8. CASE AllPlaced BY <1>8 DEF AllPlaced
<1>9. CASE ApplyFails BY <1>9 DEF ApplyFails, Undo
<1>10. CASE Finish BY <1>10 DEF Finish
<1>11. CASE CompletionHolds BY <1>11 DEF CompletionHolds
<1>12. CASE CompletionFails BY <1>12 DEF CompletionFails, Undo
<1>13. CASE Unplace BY <1>13 DEF Unplace, Unplaced
<1>14. CASE Unmove BY <1>14 DEF Unmove
<1>15. CASE UndoFails BY <1>15 DEF UndoFails, Noted
<1>16. CASE Undone BY <1>16 DEF Undone
<1>17. CASE Unrestored BY <1>17 DEF Unrestored
<1>18. CASE Restored BY <1>18 DEF Restored, CleanedUp
<1>19. CASE Commit BY <1>19 DEF Commit
<1>20. CASE UNCHANGED rollbackVars BY <1>20 DEF rollbackVars
<1> QED
  BY <1>1, <1>2, <1>3, <1>4, <1>5, <1>6, <1>7, <1>8, <1>9, <1>10, <1>11, <1>12, <1>13,
     <1>14, <1>15, <1>16, <1>17, <1>18, <1>19, <1>20 DEF RollbackNext, Forward, Backward

\* Services and outcome fit the phase.
LEMMA PhaseStep == Inductive /\ [RollbackNext]_rollbackVars => PhaseInv'
<1> SUFFICES ASSUME TypeOK, SwapsInv, PhaseInv, [RollbackNext]_rollbackVars PROVE PhaseInv'
  BY DEF Inductive
<1> USE DEF TypeOK, Swaps, record, files, flags, PhaseInv, Untouched, FoundAt
<1>1. CASE Stage BY <1>1 DEF Stage
<1>2. CASE AllStaged BY <1>2 DEF AllStaged
<1>3. CASE StageFails BY <1>3 DEF StageFails
<1>4. CASE StopServices BY <1>4 DEF StopServices
<1>5. CASE StopFails BY <1>5 DEF StopFails, Undo, SwapsInv
<1>6. CASE Away BY <1>6 DEF Away
<1>7. CASE Place BY <1>7 DEF Place
<1>8. CASE AllPlaced BY <1>8 DEF AllPlaced
<1>9. CASE ApplyFails BY <1>9 DEF ApplyFails, Undo
<1>10. CASE Finish BY <1>10 DEF Finish
<1>11. CASE CompletionHolds BY <1>11 DEF CompletionHolds
<1>12. CASE CompletionFails BY <1>12 DEF CompletionFails, Undo
<1>13. CASE Unplace BY <1>13 DEF Unplace, Unplaced
<1>14. CASE Unmove BY <1>14 DEF Unmove
<1>15. CASE UndoFails BY <1>15 DEF UndoFails, Noted
<1>16. CASE Undone BY <1>16 DEF Undone
<1>17. CASE Unrestored BY <1>17 DEF Unrestored
<1>18. CASE Restored BY <1>18 DEF Restored, CleanedUp
<1>19. CASE Commit BY <1>19 DEF Commit
<1>20. CASE UNCHANGED rollbackVars BY <1>20 DEF rollbackVars
<1> QED
  BY <1>1, <1>2, <1>3, <1>4, <1>5, <1>6, <1>7, <1>8, <1>9, <1>10, <1>11, <1>12, <1>13,
     <1>14, <1>15, <1>16, <1>17, <1>18, <1>19, <1>20 DEF RollbackNext, Forward, Backward

\* The four safety properties come with the phases.
LEMMA SafetyStep ==
    Inductive /\ [RollbackNext]_rollbackVars
        => FilesFitOutcome' /\ OldIsKept' /\ StrayIsNamed' /\ MixNeverServes'
<1> SUFFICES ASSUME Inductive, [RollbackNext]_rollbackVars
             PROVE  FilesFitOutcome' /\ OldIsKept' /\ StrayIsNamed' /\ MixNeverServes'
  OBVIOUS
<1>1. TypeOK' /\ SwapsInv' /\ PhaseInv' BY TypeStep, SwapsStep, PhaseStep
<1>2. (pc' # "over") => OldIsKept' /\ MixNeverServes' /\ FilesFitOutcome' /\ StrayIsNamed'
  <2> SUFFICES ASSUME pc' # "over"
               PROVE  OldIsKept' /\ MixNeverServes' /\ FilesFitOutcome' /\ StrayIsNamed'
    OBVIOUS
  <2>1. \A i \in Swaps : Applied(i)' \/ Vacant(i)' \/ Back(i)'
    BY <1>1 DEF TypeOK, SwapsInv, Phases, Swaps, Applied
  <2>2. OldIsKept'
    BY <1>1, <2>1 DEF OldIsKept, Applied, Vacant, Back, Untouched, Aside, Swapped, FoundAt, TypeOK
  <2>3. MixNeverServes'
    BY <1>1 DEF MixNeverServes, PhaseInv, SwapsInv, Untouched, Swapped
  <2>4. FilesFitOutcome' /\ StrayIsNamed'
    BY <1>1 DEF PhaseInv, FilesFitOutcome, StrayIsNamed
  <2> QED BY <2>2, <2>3, <2>4
<1>3. (pc' = "over") => StageFails \/ Unrestored \/ Restored \/ Commit \/ UNCHANGED rollbackVars
  BY DEF Inductive, TypeOK, RollbackNext, Forward, Backward, Stage, AllStaged, StopServices,
     StopFails,
     Undo, Away, Place, AllPlaced, ApplyFails, Finish, CompletionHolds, CompletionFails,
     Unplace, Unmove,
     UndoFails, Undone, rollbackVars
<1>t. prior \subseteq Swaps BY DEF Inductive, TypeOK
<1> USE DEF record, files, flags, FilesFitOutcome, OldIsKept, StrayIsNamed, MixNeverServes
<1>4. CASE StageFails
  <2>1. \A i \in Swaps : target[i] = FoundAt(i)
    BY <1>4 DEF StageFails, Inductive, SwapsInv, Untouched
  <2>2. units = "as_found" BY <1>4 DEF StageFails, Inductive, PhaseInv
  <2> QED BY <1>4, <1>t, <2>1, <2>2 DEF StageFails, FoundAt
<1>5. CASE Unrestored
  <2>1. \A i \in Swaps : Back(i)
    BY <1>5 DEF Unrestored, Inductive, SwapsInv
  <2>2. OldIsKept' BY <1>5, <1>t, <2>1 DEF Unrestored, Back, FoundAt
  <2>3. StrayIsNamed' BY <1>5, <2>1 DEF Unrestored, Back, FoundAt
  <2>4. FilesFitOutcome' /\ MixNeverServes' BY <1>5 DEF Unrestored
  <2> QED BY <2>2, <2>3, <2>4
<1>6. CASE Restored
  <2>1. \A i \in Swaps : target[i] = FoundAt(i)
    BY <1>6 DEF Restored, MustKeep, Inductive, SwapsInv, Back
  <2> QED BY <1>6, <1>t, <2>1 DEF Restored, FoundAt
<1>7. CASE Commit
  <2>1. \A i \in Swaps : target[i] = SavedAt(i)
    BY <1>7 DEF Commit, Inductive, SwapsInv, Swapped
  <2>2. units \in {"as_saved", "stopped"}
    BY <1>7 DEF Commit, Inductive, PhaseInv
  <2> QED BY <1>7, <2>1, <2>2 DEF Commit, SavedAt
<1>8. CASE UNCHANGED rollbackVars BY <1>8 DEF rollbackVars, Inductive, FoundAt, SavedAt
<1> QED BY <1>2, <1>3, <1>4, <1>5, <1>6, <1>7, <1>8

LEMMA InductiveStep == Inductive /\ [RollbackNext]_rollbackVars => Inductive'
  BY TypeStep, SwapsStep, PhaseStep, SafetyStep DEF Inductive

\* The inductive invariant of the transaction, for any number of swaps.
THEOREM RollbackInvariance == RollbackSpec => []Inductive
  BY InductiveInit, InductiveStep, PTL DEF RollbackSpec

\* A failure that is reported as restored has put every target back, and a
\* rollback that stands has put every copy in its place.
THEOREM FilesFit == RollbackSpec => []FilesFitOutcome
<1>1. Inductive => FilesFitOutcome BY DEF Inductive
<1> QED BY <1>1, RollbackInvariance, PTL

\* No installed file is lost before a rollback stands, wherever it is killed.
THEOREM OldKept == RollbackSpec => []OldIsKept
<1>1. Inductive => OldIsKept BY DEF Inductive
<1> QED BY <1>1, RollbackInvariance, PTL

\* The error of a failed reversal names every swap that is not as it was found.
THEOREM StraysNamed == RollbackSpec => []StrayIsNamed
<1>1. Inductive => StrayIsNamed BY DEF Inductive
<1> QED BY <1>1, RollbackInvariance, PTL

\* Services never run on a mixture of old and restored files.
THEOREM NoMixServes == RollbackSpec => []MixNeverServes
<1>1. Inductive => MixNeverServes BY DEF Inductive
<1> QED BY <1>1, RollbackInvariance, PTL
===============================================================================
