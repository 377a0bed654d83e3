-------------------------- MODULE LlamaManager_proofs --------------------------
(***************************************************************************)
(* What an operation of Llama's manager leaves behind wherever it ends,    *)
(* for any releases, identities, failures, kills and restarts.  Nothing is *)
(* undone, so the argument is about places: what an operation has written  *)
(* (Written), restored (Restores) or removed (Removes) by then, and which  *)
(* record covers it (Covered).  An installation is as its marker says, or  *)
(* the snapshot of that version is there, or there is nothing to leave     *)
(* (Intact): so an update that is repeated finds or takes a sound one.     *)
(***************************************************************************)
EXTENDS LlamaManager, TLAPS

Fields == {"kind", "pc", "half", "rev", "id", "boot", "changed", "kept"}

Busy == op.kind # "none"

Shape ==
    /\ marker \in Markers \cup {None} /\ pending \in Ids \cup {None}
    /\ snapshot \in Snapshots \cup {None}
    /\ disk \in [Parts -> States] /\ suspended \in BOOLEAN
    /\ service \in BOOLEAN /\ boot \in BOOLEAN /\ source \in Versions /\ cut \in BOOLEAN
    /\ asked # Idle => asked.kind \in Kinds /\ asked.rev \in Versions
    /\ ~Busy => op = Idle
    /\ Busy => /\ op.kind \in Kinds /\ DOMAIN op = Fields
               /\ op.rev \in Versions /\ op.boot \in BOOLEAN

Files == (\A p \in Contents \ {"product"} : Present(p)) /\ disk["user"] = "ours"

\* A snapshot is of what a marker named, and would start a server only where there
\* is what the server needs.
Snapped ==
    snapshot # None =>
        /\ snapshot.rev = snapshot.marker.rev
        /\ snapshot.sound => \A p \in Copied : snapshot.parts[p] = snapshot.rev
        /\ snapshot.boot =>
              snapshot.parts["host"] # "none" /\ Present("model") /\ disk["user"] = "ours"

\* The places of a convergence after it has written, in turn, the configuration,
\* the model, the runtime, the product, the account, the transaction.
Marked      == {"forget pending", "forget retained"}
WithConfig  == Marked \cup {"service", "check"}
WithModel   == WithConfig \cup {"config"}
WithRuntime == WithModel \cup {"model"}
WithProduct == WithRuntime \cup {"runtime"}
WithUser    == WithProduct \cup {"product"}
Journal     == WithUser \cup {"account"}

Written ==
    op.kind \in Converges =>
        /\ op.pc \in WithUser => disk["user"] = "ours"
        /\ op.pc \in WithProduct => disk["product"] = source
        /\ op.pc \in WithRuntime => disk["runtime"] = op.rev
        /\ op.pc \in WithModel => disk["model"] = "ours"
        /\ op.pc \in WithConfig => disk["config"] = Settings /\ disk["host"] = source

\* The places of a rollback after it has restored, in turn, the runtime, the host
\* files, the configuration, the product; and those where the server is down.
WithOldRuntime == {"suspension", "service", "forget"}
WithOldHost    == WithOldRuntime \cup {"runtime"}
WithOldConfig  == WithOldHost \cup {"host"}
WithOldProduct == WithOldConfig \cup {"config"}

Restores ==
    op.kind = "rollback" =>
        /\ op.pc # "preflight" => RollbackAccepted
        /\ op.pc \notin {"preflight", "forget"} => ~service /\ ~boot
        /\ op.pc \in WithOldProduct => disk["product"] = snapshot.parts["product"]
        /\ op.pc \in WithOldConfig => disk["config"] = snapshot.parts["config"]
        /\ op.pc \in WithOldHost =>
              disk["host"] = snapshot.parts["host"] /\ marker = snapshot.marker
        /\ op.pc \in WithOldRuntime => disk["runtime"] = snapshot.parts["runtime"]

\* The places of a removal after the install root, the configuration, the host files
\* are gone.
NoOpt    == {"keep", "retain", "state", "user"}
NoConfig == NoOpt \cup {"product"}
NoHost   == NoConfig \cup {"config"}

Removes ==
    op.kind \in Uninstalls =>
        /\ op.pc \notin {"preflight", "stop"} => ~service /\ ~boot
        /\ op.pc \in NoHost => disk["host"] = "none"
        /\ op.pc \in NoConfig => disk["config"] = "none"
        /\ op.pc \in NoOpt =>
              /\ snapshot = None
              /\ \A p \in {"product", "runtime", "opt"} : disk[p] = "none"
        /\ op.pc = "user" => disk["model"] = "none"

\* The record that covers what an operation is at.
Covered ==
    /\ op.kind \in Converges =>
          /\ op.pc # "preflight" => op.id \in Ids
          /\ op.pc \in Journal => marker # None \/ pending # None
          /\ op.pc = "snapshot" => marker # None
          /\ op.pc \in Marked => marker # None
    /\ op.kind \in Uninstalls /\ op.pc # "preflight" =>
          /\ op.pc = "user" => marker = None
          /\ op.pc # "user" => marker # None \/ (op.pc = "state" /\ op.half)

Leaving ==
    \/ op.kind \in Converges /\ op.pc \notin {"preflight", "snapshot"}
    \/ op.kind \in Uninstalls \cup {"rollback"} /\ op.pc # "preflight"

SnapshotFits == snapshot # None /\ snapshot.rev = marker.rev

Intact ==
    /\ ~cut /\ marker # None /\ ~Leaving =>
          \/ \A p \in Copied : disk[p] = marker.rev
          \/ SnapshotFits
          \/ disk["opt"] = "none"
    /\ op.kind \in Converges /\ Leaving /\ marker # None =>
          marker.rev = op.rev \/ SnapshotFits
    /\ op.kind \in Converges /\ op.pc \in Marked => marker.rev = op.rev

Starts ==
    /\ ServiceHasItsFiles
    /\ op.kind = "resume" /\ op.pc # "preflight" => Files

IInv ==
    /\ Shape /\ Snapped /\ Written /\ Restores /\ Removes /\ Covered /\ Intact /\ Starts
    /\ NothingIsOrphaned

-------------------------------------------------------------------------------
LEMMA InitInv == Init => IInv
  <1>1. SUFFICES ASSUME Init PROVE IInv
    OBVIOUS
  <1>2. \A p \in Parts : disk[p] \in {"none", "foreign"}
    BY <1>1 DEF Init
  <1>3. Contents \subseteq Parts
    BY DEF Parts
  <1>4. NothingIsOrphaned
    BY <1>2, <1>3 DEF NothingIsOrphaned
  <1>5. disk \in [Parts -> States]
    BY <1>1 DEF Init, States
  <1>6. Shape
    BY <1>1, <1>5 DEF Init, Shape, Busy, Idle
  <1>7. QED
    BY <1>1, <1>4, <1>6
    DEF Init, IInv, Snapped, Written, Restores, Removes, Covered, Intact, Starts,
        ServiceHasItsFiles, Idle, Converges, Uninstalls

\* The fields of the operation that a step which only goes on leaves alone.
LEMMA OpGoesOn ==
  ASSUME Shape, Busy, NEW p, NEW h, op' = [op EXCEPT !.pc = p, !.half = h]
  PROVE  /\ op'.pc = p /\ op'.half = h /\ DOMAIN op' = Fields /\ op'.kind = op.kind
         /\ op'.rev = op.rev /\ op'.boot = op.boot /\ op'.id = op.id /\ Busy'
  BY DEF Shape, Busy, Fields

LEMMA ConvergeOps ==
  ASSUME IInv, Converge
  PROVE  /\ op.kind \in Converges /\ Busy
         /\ \/ op' = Idle
            \/ /\ DOMAIN op' = Fields /\ op'.kind = op.kind /\ op'.rev = op.rev
               /\ op'.boot = op.boot /\ (op.pc # "preflight" => op'.id = op.id)
  BY DEF IInv, Shape, Busy, Converges, Fields, Idle,
         Converge, Preflight, TakeSnapshot, EnsureRoots, EnsureTransaction, EnsureAccount,
         MoveProduct, DeployProduct, InstallRuntime, InstallModel, BeginConfiguration,
         EndConfiguration, StartService, WriteMarker, ForgetPending, ForgetRetained,
         In, Halfway, Goto, GoHalfway

LEMMA StatesAre ==
  /\ {"none", "ours", "mixed", "foreign"} \subseteq States /\ Versions \subseteq States
  /\ Copied \subseteq Parts /\ {"user", "opt", "log", "model"} \subseteq Parts
  BY DEF States, Copied, Parts, Contents, Roots

LEMMA MarkerIsRecord ==
  ASSUME NEW i \in Ids, NEW v \in Versions
  PROVE  [id |-> i, rev |-> v] \in Markers /\ [id |-> i, rev |-> v] # None
  BY RecordsAssumption DEF Markers

LEMMA SavedIsRecord ==
  ASSUME Shape, marker # None
  PROVE  Saved \in Snapshots /\ Saved # None
  <1>1. marker \in Markers /\ marker.rev \in Versions
    BY DEF Shape, Markers
  <1>2. [q \in Copied |-> disk[q]] \in [Copied -> States]
    BY StatesAre DEF Shape
  <1>3. Saved \in Snapshots
    BY <1>1, <1>2 DEF Saved, Snapshots, Shape
  <1>4. QED
    BY <1>3, RecordsAssumption

LEMMA ConvergeShape ==
  ASSUME IInv, Converge
  PROVE  Shape'
  <1>1. CASE Preflight
    BY <1>1, ConvergeOps, StatesAre
    DEF Preflight, IInv, Shape, Busy, Idle, Put, records, unit, world, In, Halfway,
       Goto, GoHalfway, Identities, Covered, Converges
  <1>2. CASE TakeSnapshot
    <2>1. Saved \in Snapshots
      BY <1>2, SavedIsRecord DEF TakeSnapshot, In, IInv, Covered
    <2>2. QED
      BY <1>2, <2>1, ConvergeOps
      DEF TakeSnapshot, IInv, Shape, Busy, Idle, records, unit, world, In, Goto
  <1>3. CASE EnsureRoots
    BY <1>3, ConvergeOps, StatesAre
    DEF EnsureRoots, IInv, Shape, Busy, Idle, Put, records, unit, world, In,
       Halfway, Goto, GoHalfway
  <1>4. CASE EnsureTransaction
    BY <1>4, ConvergeOps, StatesAre
    DEF EnsureTransaction, IInv, Shape, Busy, Idle, Put, records, unit, world, In,
       Halfway, Goto, GoHalfway, Journalled, Covered
  <1>5. CASE EnsureAccount
    BY <1>5, ConvergeOps, StatesAre
    DEF EnsureAccount, IInv, Shape, Busy, Idle, Put, records, unit, world, In,
       Halfway, Goto, GoHalfway
  <1>6. CASE MoveProduct
    BY <1>6, ConvergeOps, StatesAre
    DEF MoveProduct, IInv, Shape, Busy, Idle, Put, records, unit, world, In,
       Halfway, Goto, GoHalfway
  <1>7. CASE DeployProduct
    BY <1>7, ConvergeOps, StatesAre
    DEF DeployProduct, IInv, Shape, Busy, Idle, Put, records, unit, world, In,
       Halfway, Goto, GoHalfway
  <1>8. CASE InstallRuntime
    BY <1>8, ConvergeOps, StatesAre
    DEF InstallRuntime, IInv, Shape, Busy, Idle, Put, records, unit, world, In,
       Halfway, Goto, GoHalfway
  <1>9. CASE InstallModel
    BY <1>9, ConvergeOps, StatesAre
    DEF InstallModel, IInv, Shape, Busy, Idle, Put, records, unit, world, In,
       Halfway, Goto, GoHalfway
  <1>10. CASE BeginConfiguration
    BY <1>10, ConvergeOps, StatesAre
    DEF BeginConfiguration, IInv, Shape, Busy, Idle, Put, records, unit, world, In,
       Halfway, Goto, GoHalfway
  <1>11. CASE EndConfiguration
    BY <1>11, ConvergeOps, StatesAre
    DEF EndConfiguration, Settings, IInv, Shape, Busy, Idle, Put, records, unit, world, In,
       Halfway, Goto, GoHalfway
  <1>12. CASE StartService
    BY <1>12, ConvergeOps, StatesAre
    DEF StartService, IInv, Shape, Busy, Idle, Put, records, unit, world, In,
       Halfway, Goto, GoHalfway, ApplyService, Wanted
  <1>13. CASE WriteMarker
    BY <1>13, ConvergeOps, StatesAre
    DEF WriteMarker, IInv, Shape, Busy, Idle, Put, records, unit, world, In,
       Halfway, Goto, GoHalfway, Markers, Covered, Marked, WithConfig, WithModel,
       WithRuntime, WithProduct, WithUser, Journal
  <1>14. CASE ForgetPending
    BY <1>14, ConvergeOps, StatesAre
    DEF ForgetPending, IInv, Shape, Busy, Idle, Put, records, unit, world, In,
       Halfway, Goto, GoHalfway
  <1>15. CASE ForgetRetained
    BY <1>15, ConvergeOps, StatesAre
    DEF ForgetRetained, IInv, Shape, Busy, Idle, Put, records, unit, world, In,
       Halfway, Goto, GoHalfway
  <1>16. QED
    BY <1>1, <1>2, <1>3, <1>4, <1>5, <1>6, <1>7, <1>8, <1>9, <1>10, <1>11, <1>12,
       <1>13, <1>14, <1>15 DEF Converge

LEMMA ConvergeOther ==
  ASSUME IInv, Converge
  PROVE  Restores' /\ Removes'
  BY ConvergeOps DEF Restores, Removes, Converges, Uninstalls, Idle

LEMMA ConvergeSnapped ==
  ASSUME IInv, Converge
  PROVE  Snapped'
  <1>1. CASE Preflight
    BY <1>1, ConvergeOps, NamesAssumption
    DEF Preflight, IInv, Shape, Snapped, Present, Put, records, Parts, Contents,
       Roots, In, Halfway, Goto, GoHalfway
  <1>2. CASE TakeSnapshot
    <2>1. UNCHANGED disk /\ marker # None /\ ~Leaving /\ op.pc = "snapshot"
      BY <1>2, ConvergeOps
      DEF TakeSnapshot, IInv, Covered, Leaving, Converges, Uninstalls, In
    <2>2. CASE SnapshotKept
      BY <1>2, <2>1, <2>2 DEF TakeSnapshot, IInv, Snapped, Present
    <2>3. CASE ~SnapshotKept
      <3>1. snapshot' = Saved /\ disk["opt"] # "none" /\ ~SnapshotFits
        BY <1>2, <2>3 DEF TakeSnapshot, SnapshotKept, SnapshotFits, Present
      <3>2. cut \/ \A p \in Copied : disk[p] = marker.rev
        BY <2>1, <3>1 DEF IInv, Intact
      <3>3. boot => disk["host"] # "none" /\ Present("model") /\ disk["user"] = "ours"
        BY DEF IInv, Starts, ServiceHasItsFiles, Contents, Present
      <3>4. "host" \in Copied
        BY DEF Copied
      <3>5. QED
        BY <2>1, <3>1, <3>2, <3>3, <3>4 DEF Snapped, Saved, Present
    <2>4. QED
      BY <2>2, <2>3
  <1>3. CASE EnsureRoots
    BY <1>3, ConvergeOps, NamesAssumption
    DEF EnsureRoots, IInv, Shape, Snapped, Present, Put, records, Parts, Contents,
       Roots, In, Halfway, Goto, GoHalfway
  <1>4. CASE EnsureTransaction
    BY <1>4, ConvergeOps, NamesAssumption
    DEF EnsureTransaction, IInv, Shape, Snapped, Present, Put, records, Parts,
       Contents, Roots, In, Halfway, Goto, GoHalfway
  <1>5. CASE EnsureAccount
    BY <1>5, ConvergeOps, NamesAssumption
    DEF EnsureAccount, IInv, Shape, Snapped, Present, Put, records, Parts, Contents,
       Roots, In, Halfway, Goto, GoHalfway
  <1>6. CASE MoveProduct
    BY <1>6, ConvergeOps, NamesAssumption
    DEF MoveProduct, IInv, Shape, Snapped, Present, Put, records, Parts, Contents,
       Roots, In, Halfway, Goto, GoHalfway
  <1>7. CASE DeployProduct
    BY <1>7, ConvergeOps, NamesAssumption
    DEF DeployProduct, IInv, Shape, Snapped, Present, Put, records, Parts, Contents,
       Roots, In, Halfway, Goto, GoHalfway
  <1>8. CASE InstallRuntime
    BY <1>8, ConvergeOps, NamesAssumption
    DEF InstallRuntime, IInv, Shape, Snapped, Present, Put, records, Parts,
       Contents, Roots, In, Halfway, Goto, GoHalfway
  <1>9. CASE InstallModel
    BY <1>9, ConvergeOps, NamesAssumption
    DEF InstallModel, IInv, Shape, Snapped, Present, Put, records, Parts, Contents,
       Roots, In, Halfway, Goto, GoHalfway
  <1>10. CASE BeginConfiguration
    BY <1>10, ConvergeOps, NamesAssumption
    DEF BeginConfiguration, IInv, Shape, Snapped, Present, Put, records, Parts,
       Contents, Roots, In, Halfway, Goto, GoHalfway
  <1>11. CASE EndConfiguration
    BY <1>11, ConvergeOps, NamesAssumption
    DEF EndConfiguration, IInv, Shape, Snapped, Present, Put, records, Parts,
       Contents, Roots, In, Halfway, Goto, GoHalfway
  <1>12. CASE StartService
    BY <1>12, ConvergeOps, NamesAssumption
    DEF StartService, IInv, Shape, Snapped, Present, Put, records, Parts, Contents,
       Roots, In, Halfway, Goto, GoHalfway
  <1>13. CASE WriteMarker
    BY <1>13, ConvergeOps, NamesAssumption
    DEF WriteMarker, IInv, Shape, Snapped, Present, Put, records, Parts, Contents,
       Roots, In, Halfway, Goto, GoHalfway
  <1>14. CASE ForgetPending
    BY <1>14, ConvergeOps, NamesAssumption
    DEF ForgetPending, IInv, Shape, Snapped, Present, Put, records, Parts, Contents,
       Roots, In, Halfway, Goto, GoHalfway
  <1>15. CASE ForgetRetained
    BY <1>15, ConvergeOps, NamesAssumption
    DEF ForgetRetained, IInv, Shape, Snapped, Present, Put, records, Parts,
       Contents, Roots, In, Halfway, Goto, GoHalfway
  <1>16. QED
    BY <1>1, <1>2, <1>3, <1>4, <1>5, <1>6, <1>7, <1>8, <1>9, <1>10, <1>11, <1>12,
       <1>13, <1>14, <1>15 DEF Converge

LEMMA ConvergeStarts ==
  ASSUME IInv, Converge
  PROVE  Starts'
  <1>1. CASE Preflight
    BY <1>1, ConvergeOps, NamesAssumption
    DEF Preflight, IInv, Shape, Starts, ServiceHasItsFiles, Files, Present,
       Converges, Contents, Parts, Roots, Put, records, unit, Idle, In, Halfway,
       Goto, GoHalfway
  <1>2. CASE TakeSnapshot
    BY <1>2, ConvergeOps, NamesAssumption
    DEF TakeSnapshot, IInv, Shape, Starts, ServiceHasItsFiles, Files, Present,
       Converges, Contents, Parts, Roots, Put, records, unit, Idle, In, Halfway,
       Goto, GoHalfway
  <1>3. CASE EnsureRoots
    BY <1>3, ConvergeOps, NamesAssumption
    DEF EnsureRoots, IInv, Shape, Starts, ServiceHasItsFiles, Files, Present,
       Converges, Contents, Parts, Roots, Put, records, unit, Idle, In, Halfway,
       Goto, GoHalfway
  <1>4. CASE EnsureTransaction
    BY <1>4, ConvergeOps, NamesAssumption
    DEF EnsureTransaction, IInv, Shape, Starts, ServiceHasItsFiles, Files, Present,
       Converges, Contents, Parts, Roots, Put, records, unit, Idle, In, Halfway,
       Goto, GoHalfway
  <1>5. CASE EnsureAccount
    BY <1>5, ConvergeOps, NamesAssumption
    DEF EnsureAccount, IInv, Shape, Starts, ServiceHasItsFiles, Files, Present,
       Converges, Contents, Parts, Roots, Put, records, unit, Idle, In, Halfway,
       Goto, GoHalfway
  <1>6. CASE MoveProduct
    BY <1>6, ConvergeOps, NamesAssumption
    DEF MoveProduct, IInv, Shape, Starts, ServiceHasItsFiles, Files, Present,
       Converges, Contents, Parts, Roots, Put, records, unit, Idle, In, Halfway,
       Goto, GoHalfway
  <1>7. CASE DeployProduct
    BY <1>7, ConvergeOps, NamesAssumption
    DEF DeployProduct, IInv, Shape, Starts, ServiceHasItsFiles, Files, Present,
       Converges, Contents, Parts, Roots, Put, records, unit, Idle, In, Halfway,
       Goto, GoHalfway
  <1>8. CASE InstallRuntime
    BY <1>8, ConvergeOps, NamesAssumption
    DEF InstallRuntime, IInv, Shape, Starts, ServiceHasItsFiles, Files, Present,
       Converges, Contents, Parts, Roots, Put, records, unit, Idle, In, Halfway,
       Goto, GoHalfway
  <1>9. CASE InstallModel
    BY <1>9, ConvergeOps, NamesAssumption
    DEF InstallModel, IInv, Shape, Starts, ServiceHasItsFiles, Files, Present,
       Converges, Contents, Parts, Roots, Put, records, unit, Idle, In, Halfway,
       Goto, GoHalfway
  <1>10. CASE BeginConfiguration
    BY <1>10, ConvergeOps, NamesAssumption
    DEF BeginConfiguration, IInv, Shape, Starts, ServiceHasItsFiles, Files, Present,
       Converges, Contents, Parts, Roots, Put, records, unit, Idle, In, Halfway,
       Goto, GoHalfway
  <1>11. CASE EndConfiguration
    BY <1>11, ConvergeOps, NamesAssumption
    DEF EndConfiguration, Settings, IInv, Shape, Starts, ServiceHasItsFiles, Files, Present,
       Converges, Contents, Parts, Roots, Put, records, unit, Idle, In, Halfway,
       Goto, GoHalfway
  <1>12. CASE StartService
    BY <1>12, ConvergeOps, NamesAssumption
    DEF StartService, Settings, IInv, Shape, Starts, ServiceHasItsFiles, Files, Present,
       Converges, Contents, Parts, Roots, Put, records, unit, Idle, In, Halfway,
       Goto, GoHalfway, ApplyService, Wanted, Written, Marked, WithConfig,
       WithModel, WithRuntime, WithProduct, WithUser
  <1>13. CASE WriteMarker
    BY <1>13, ConvergeOps, NamesAssumption
    DEF WriteMarker, IInv, Shape, Starts, ServiceHasItsFiles, Files, Present,
       Converges, Contents, Parts, Roots, Put, records, unit, Idle, In, Halfway,
       Goto, GoHalfway
  <1>14. CASE ForgetPending
    BY <1>14, ConvergeOps, NamesAssumption
    DEF ForgetPending, IInv, Shape, Starts, ServiceHasItsFiles, Files, Present,
       Converges, Contents, Parts, Roots, Put, records, unit, Idle, In, Halfway,
       Goto, GoHalfway
  <1>15. CASE ForgetRetained
    BY <1>15, ConvergeOps, NamesAssumption
    DEF ForgetRetained, IInv, Shape, Starts, ServiceHasItsFiles, Files, Present,
       Converges, Contents, Parts, Roots, Put, records, unit, Idle, In, Halfway,
       Goto, GoHalfway
  <1>16. QED
    BY <1>1, <1>2, <1>3, <1>4, <1>5, <1>6, <1>7, <1>8, <1>9, <1>10, <1>11, <1>12,
       <1>13, <1>14, <1>15 DEF Converge

LEMMA ConvergeCovers ==
  ASSUME IInv, Converge
  PROVE  NothingIsOrphaned'
  <1>1. CASE Preflight
    BY <1>1, ConvergeOps, NamesAssumption
    DEF Preflight, IInv, Shape, NothingIsOrphaned, Covered, Contents, Parts, Roots,
       Put, records, Marked, WithConfig, WithModel, WithRuntime, WithProduct,
       WithUser, Journal, In, Halfway, Goto, GoHalfway
  <1>2. CASE TakeSnapshot
    BY <1>2, ConvergeOps, NamesAssumption
    DEF TakeSnapshot, IInv, Shape, NothingIsOrphaned, Covered, Contents, Parts,
       Roots, Put, records, Marked, WithConfig, WithModel, WithRuntime, WithProduct,
       WithUser, Journal, In, Halfway, Goto, GoHalfway
  <1>3. CASE EnsureRoots
    BY <1>3, ConvergeOps, NamesAssumption
    DEF EnsureRoots, IInv, Shape, NothingIsOrphaned, Covered, Contents, Parts,
       Roots, Put, records, Marked, WithConfig, WithModel, WithRuntime, WithProduct,
       WithUser, Journal, In, Halfway, Goto, GoHalfway
  <1>4. CASE EnsureTransaction
    BY <1>4, ConvergeOps, NamesAssumption
    DEF EnsureTransaction, IInv, Shape, NothingIsOrphaned, Covered, Contents, Parts,
       Roots, Put, records, Marked, WithConfig, WithModel, WithRuntime, WithProduct,
       WithUser, Journal, In, Halfway, Goto, GoHalfway, Journalled
  <1>5. CASE EnsureAccount
    BY <1>5, ConvergeOps, NamesAssumption
    DEF EnsureAccount, IInv, Shape, NothingIsOrphaned, Covered, Contents, Parts,
       Roots, Put, records, Marked, WithConfig, WithModel, WithRuntime, WithProduct,
       WithUser, Journal, In, Halfway, Goto, GoHalfway
  <1>6. CASE MoveProduct
    BY <1>6, ConvergeOps, NamesAssumption
    DEF MoveProduct, IInv, Shape, NothingIsOrphaned, Covered, Contents, Parts,
       Roots, Put, records, Marked, WithConfig, WithModel, WithRuntime, WithProduct,
       WithUser, Journal, In, Halfway, Goto, GoHalfway
  <1>7. CASE DeployProduct
    BY <1>7, ConvergeOps, NamesAssumption
    DEF DeployProduct, IInv, Shape, NothingIsOrphaned, Covered, Contents, Parts,
       Roots, Put, records, Marked, WithConfig, WithModel, WithRuntime, WithProduct,
       WithUser, Journal, In, Halfway, Goto, GoHalfway
  <1>8. CASE InstallRuntime
    BY <1>8, ConvergeOps, NamesAssumption
    DEF InstallRuntime, IInv, Shape, NothingIsOrphaned, Covered, Contents, Parts,
       Roots, Put, records, Marked, WithConfig, WithModel, WithRuntime, WithProduct,
       WithUser, Journal, In, Halfway, Goto, GoHalfway
  <1>9. CASE InstallModel
    BY <1>9, ConvergeOps, NamesAssumption
    DEF InstallModel, IInv, Shape, NothingIsOrphaned, Covered, Contents, Parts,
       Roots, Put, records, Marked, WithConfig, WithModel, WithRuntime, WithProduct,
       WithUser, Journal, In, Halfway, Goto, GoHalfway
  <1>10. CASE BeginConfiguration
    BY <1>10, ConvergeOps, NamesAssumption
    DEF BeginConfiguration, IInv, Shape, NothingIsOrphaned, Covered, Contents,
       Parts, Roots, Put, records, Marked, WithConfig, WithModel, WithRuntime,
       WithProduct, WithUser, Journal, In, Halfway, Goto, GoHalfway
  <1>11. CASE EndConfiguration
    BY <1>11, ConvergeOps, NamesAssumption
    DEF EndConfiguration, IInv, Shape, NothingIsOrphaned, Covered, Contents, Parts,
       Roots, Put, records, Marked, WithConfig, WithModel, WithRuntime, WithProduct,
       WithUser, Journal, In, Halfway, Goto, GoHalfway
  <1>12. CASE StartService
    BY <1>12, ConvergeOps, NamesAssumption
    DEF StartService, IInv, Shape, NothingIsOrphaned, Covered, Contents, Parts,
       Roots, Put, records, Marked, WithConfig, WithModel, WithRuntime, WithProduct,
       WithUser, Journal, In, Halfway, Goto, GoHalfway
  <1>13. CASE WriteMarker
    <2>1. marker' # None
      BY <1>13, ConvergeOps, MarkerIsRecord DEF WriteMarker, IInv, Shape, Covered, In
    <2>2. QED
      BY <2>1 DEF NothingIsOrphaned
  <1>14. CASE ForgetPending
    BY <1>14, ConvergeOps, NamesAssumption
    DEF ForgetPending, IInv, Shape, NothingIsOrphaned, Covered, Contents, Parts,
       Roots, Put, records, Marked, WithConfig, WithModel, WithRuntime, WithProduct,
       WithUser, Journal, In, Halfway, Goto, GoHalfway
  <1>15. CASE ForgetRetained
    BY <1>15, ConvergeOps, NamesAssumption
    DEF ForgetRetained, IInv, Shape, NothingIsOrphaned, Covered, Contents, Parts,
       Roots, Put, records, Marked, WithConfig, WithModel, WithRuntime, WithProduct,
       WithUser, Journal, In, Halfway, Goto, GoHalfway
  <1>16. QED
    BY <1>1, <1>2, <1>3, <1>4, <1>5, <1>6, <1>7, <1>8, <1>9, <1>10, <1>11, <1>12,
       <1>13, <1>14, <1>15 DEF Converge

LEMMA ConvergePlaces ==
  ASSUME IInv, Converge
  PROVE  Written' /\ Covered' /\ Intact'
  <1> USE DEF records, In, Halfway, Goto, GoHalfway
  <1>1. /\ op.kind \in Converges /\ DOMAIN op = Fields /\ disk \in [Parts -> States]
        /\ op' = Idle \/ (op'.kind = op.kind /\ op'.rev = op.rev)
        /\ op.pc # "preflight" /\ op' # Idle => op'.id = op.id
    BY ConvergeOps DEF IInv, Shape, Busy
  <1>2. op.kind \notin Uninstalls \cup {"rollback"}
    BY <1>1 DEF Converges, Uninstalls
  <1>3. CASE Preflight
    <2>1. op.pc = "preflight" /\ op'.pc \in {"snapshot", "roots"} /\ op' # Idle
      BY <1>3, <1>1 DEF Preflight, Fields, Idle
    <2>2. Written'
      BY <1>3, <1>1, <2>1
      DEF Preflight, IInv, Written, Settings, Unchanged, world, Shape, Put, Parts,
         Contents, Roots, Deployed, Marked,
         WithConfig, WithModel, WithRuntime, WithProduct, WithUser
    <2>3. Covered'
      BY <1>3, <1>1, <1>2, <2>1, NamesAssumption
      DEF Preflight, IInv, Shape, Markers, Covered, Journal, Accepted, Identities, TakesSnapshot,
         Marked, WithConfig, WithModel, WithRuntime, WithProduct, WithUser
    <2>4. Intact'
      BY <1>3, <1>1, <1>2, <2>1
      DEF Preflight, IInv, Intact, Leaving, SnapshotFits, Marked, Accepted, TakesSnapshot,
         Converges
    <2>5. QED
      BY <2>2, <2>3, <2>4
  <1>4. CASE TakeSnapshot
    <2>1. op.pc = "snapshot" /\ op'.pc = "roots" /\ op' # Idle
      BY <1>4, <1>1 DEF TakeSnapshot, Fields, Idle
    <2>2. Written'
      BY <1>4, <1>1, <2>1
      DEF TakeSnapshot, IInv, Written, Settings, Unchanged, world, Shape, Put, Parts,
         Contents, Roots, Deployed,
         Marked, WithConfig, WithModel, WithRuntime, WithProduct, WithUser
    <2>3. Covered'
      BY <1>4, <1>1, <1>2, <2>1
      DEF TakeSnapshot, IInv, Covered, Journal, Marked, WithConfig, WithModel,
         WithRuntime, WithProduct, WithUser
    <2>4. Intact'
      <3>1. marker # None /\ UNCHANGED marker /\ snapshot' # None
        BY <1>4, <1>1, <2>1, SavedIsRecord DEF TakeSnapshot, IInv, Covered, SnapshotKept
      <3>2. QED
        BY <1>4, <1>1, <1>2, <2>1, <3>1
        DEF TakeSnapshot, IInv, Intact, Leaving, SnapshotFits, SnapshotKept, Saved, Marked
    <2>5. QED
      BY <2>2, <2>3, <2>4
  <1>5. CASE EnsureRoots
    <2>1. op.pc = "roots" /\ op'.pc = "transaction" /\ op' # Idle
      BY <1>5, <1>1 DEF EnsureRoots, Fields, Idle
    <2>2. Written'
      BY <1>5, <1>1, <2>1
      DEF EnsureRoots, IInv, Written, Settings, Unchanged, world, Shape, Put, Parts,
         Contents, Roots, Deployed, Marked,
         WithConfig, WithModel, WithRuntime, WithProduct, WithUser
    <2>3. Covered'
      BY <1>5, <1>1, <1>2, <2>1
      DEF EnsureRoots, IInv, Covered, Journal, Marked, WithConfig, WithModel,
         WithRuntime, WithProduct, WithUser
    <2>4. Intact'
      BY <1>5, <1>1, <1>2, <2>1 DEF EnsureRoots, IInv, Intact, Leaving, SnapshotFits, Marked
    <2>5. QED
      BY <2>2, <2>3, <2>4
  <1>6. CASE EnsureTransaction
    <2>1. op.pc = "transaction" /\ op'.pc = "account" /\ op' # Idle
      BY <1>6, <1>1 DEF EnsureTransaction, Fields, Idle
    <2>2. Written'
      BY <1>6, <1>1, <2>1
      DEF EnsureTransaction, IInv, Written, Settings, Unchanged, world, Shape, Put, Parts,
         Contents, Roots, Deployed,
         Marked, WithConfig, WithModel, WithRuntime, WithProduct, WithUser
    <2>3. Covered'
      BY <1>6, <1>1, <1>2, <2>1, NamesAssumption
      DEF EnsureTransaction, IInv, Covered, Journal, Journalled, Marked, WithConfig,
         WithModel, WithRuntime, WithProduct, WithUser
    <2>4. Intact'
      BY <1>6, <1>1, <1>2, <2>1
      DEF EnsureTransaction, IInv, Intact, Leaving, SnapshotFits, Marked
    <2>5. QED
      BY <2>2, <2>3, <2>4
  <1>7. CASE EnsureAccount
    <2>1. op.pc = "account" /\ op'.pc = "product" /\ op' # Idle
      BY <1>7, <1>1 DEF EnsureAccount, Fields, Idle
    <2>2. Written'
      BY <1>7, <1>1, <2>1
      DEF EnsureAccount, IInv, Written, Settings, Unchanged, world, Shape, Put, Parts,
         Contents, Roots, Deployed,
         Marked, WithConfig, WithModel, WithRuntime, WithProduct, WithUser
    <2>3. Covered'
      BY <1>7, <1>1, <1>2, <2>1
      DEF EnsureAccount, IInv, Covered, Journal, Marked, WithConfig, WithModel,
         WithRuntime, WithProduct, WithUser
    <2>4. Intact'
      BY <1>7, <1>1, <1>2, <2>1 DEF EnsureAccount, IInv, Intact, Leaving, SnapshotFits, Marked
    <2>5. QED
      BY <2>2, <2>3, <2>4
  <1>8. CASE MoveProduct
    <2>1. /\ op.pc = "product" /\ op'.pc \in {"product", "runtime"} /\ op' # Idle
          /\ op'.pc = "runtime" => disk["product"] = source /\ UNCHANGED disk
      BY <1>8, <1>1 DEF MoveProduct, Fields, Idle
    <2>2. Written'
      BY <1>8, <1>1, <2>1
      DEF MoveProduct, IInv, Written, Settings, Unchanged, world, Shape, Put, Parts,
         Contents, Roots, Deployed, Marked,
         WithConfig, WithModel, WithRuntime, WithProduct, WithUser
    <2>3. Covered'
      BY <1>8, <1>1, <1>2, <2>1
      DEF MoveProduct, IInv, Covered, Journal, Marked, WithConfig, WithModel,
         WithRuntime, WithProduct, WithUser
    <2>4. Intact'
      BY <1>8, <1>1, <1>2, <2>1 DEF MoveProduct, IInv, Intact, Leaving, SnapshotFits, Marked
    <2>5. QED
      BY <2>2, <2>3, <2>4
  <1>9. CASE DeployProduct
    <2>1. op.pc = "product" /\ op'.pc = "runtime" /\ op' # Idle
      BY <1>9, <1>1 DEF DeployProduct, Fields, Idle
    <2>2. Written'
      BY <1>9, <1>1, <2>1
      DEF DeployProduct, IInv, Written, Settings, Unchanged, world, Shape, Put, Parts,
         Contents, Roots, Deployed,
         Marked, WithConfig, WithModel, WithRuntime, WithProduct, WithUser
    <2>3. Covered'
      BY <1>9, <1>1, <1>2, <2>1
      DEF DeployProduct, IInv, Covered, Journal, Marked, WithConfig, WithModel,
         WithRuntime, WithProduct, WithUser
    <2>4. Intact'
      BY <1>9, <1>1, <1>2, <2>1 DEF DeployProduct, IInv, Intact, Leaving, SnapshotFits, Marked
    <2>5. QED
      BY <2>2, <2>3, <2>4
  <1>10. CASE InstallRuntime
    <2>1. op.pc = "runtime" /\ op'.pc = "model" /\ op' # Idle
      BY <1>10, <1>1 DEF InstallRuntime, Fields, Idle
    <2>2. Written'
      BY <1>10, <1>1, <2>1
      DEF InstallRuntime, IInv, Written, Settings, Unchanged, world, Shape, Put, Parts,
         Contents, Roots, Deployed,
         Marked, WithConfig, WithModel, WithRuntime, WithProduct, WithUser
    <2>3. Covered'
      BY <1>10, <1>1, <1>2, <2>1
      DEF InstallRuntime, IInv, Covered, Journal, Marked, WithConfig, WithModel,
         WithRuntime, WithProduct, WithUser
    <2>4. Intact'
      BY <1>10, <1>1, <1>2, <2>1
      DEF InstallRuntime, IInv, Intact, Leaving, SnapshotFits, Marked
    <2>5. QED
      BY <2>2, <2>3, <2>4
  <1>11. CASE InstallModel
    <2>1. op.pc = "model" /\ op'.pc = "config" /\ op' # Idle
      BY <1>11, <1>1 DEF InstallModel, Fields, Idle
    <2>2. Written'
      BY <1>11, <1>1, <2>1
      DEF InstallModel, IInv, Written, Settings, Unchanged, world, Shape, Put, Parts,
         Contents, Roots, Deployed,
         Marked, WithConfig, WithModel, WithRuntime, WithProduct, WithUser
    <2>3. Covered'
      BY <1>11, <1>1, <1>2, <2>1
      DEF InstallModel, IInv, Covered, Journal, Marked, WithConfig, WithModel,
         WithRuntime, WithProduct, WithUser
    <2>4. Intact'
      BY <1>11, <1>1, <1>2, <2>1 DEF InstallModel, IInv, Intact, Leaving, SnapshotFits, Marked
    <2>5. QED
      BY <2>2, <2>3, <2>4
  <1>12. CASE BeginConfiguration
    <2>1. /\ op.pc = "config" /\ op'.pc \in {"config", "service"} /\ op' # Idle
          /\ op'.pc = "service" => Deployed /\ UNCHANGED disk
      BY <1>12, <1>1 DEF BeginConfiguration, Fields, Idle, Deployed
    <2>2. Written'
      BY <1>12, <1>1, <2>1
      DEF BeginConfiguration, IInv, Written, Settings, Unchanged, world, Shape, Put, Parts,
         Contents, Roots, Deployed,
         Marked, WithConfig, WithModel, WithRuntime, WithProduct, WithUser
    <2>3. Covered'
      BY <1>12, <1>1, <1>2, <2>1
      DEF BeginConfiguration, IInv, Covered, Journal, Marked, WithConfig, WithModel,
         WithRuntime, WithProduct, WithUser
    <2>4. Intact'
      BY <1>12, <1>1, <1>2, <2>1
      DEF BeginConfiguration, IInv, Intact, Leaving, SnapshotFits, Marked
    <2>5. QED
      BY <2>2, <2>3, <2>4
  <1>13. CASE EndConfiguration
    <2>1. op.pc = "config" /\ op'.pc = "service" /\ op' # Idle
      BY <1>13, <1>1 DEF EndConfiguration, Fields, Idle
    <2>2. Written'
      BY <1>13, <1>1, <2>1
      DEF EndConfiguration, IInv, Written, Settings, Unchanged, world, Shape, Put, Parts,
         Contents, Roots, Deployed,
         Marked, WithConfig, WithModel, WithRuntime, WithProduct, WithUser
    <2>3. Covered'
      BY <1>13, <1>1, <1>2, <2>1
      DEF EndConfiguration, IInv, Covered, Journal, Marked, WithConfig, WithModel,
         WithRuntime, WithProduct, WithUser
    <2>4. Intact'
      BY <1>13, <1>1, <1>2, <2>1
      DEF EndConfiguration, IInv, Intact, Leaving, SnapshotFits, Marked
    <2>5. QED
      BY <2>2, <2>3, <2>4
  <1>14. CASE StartService
    <2>1. op.pc = "service" /\ op'.pc = "check" /\ op' # Idle
      BY <1>14, <1>1 DEF StartService, Fields, Idle
    <2>2. Written'
      BY <1>14, <1>1, <2>1
      DEF StartService, IInv, Written, Settings, Unchanged, world, Shape, Put, Parts,
         Contents, Roots, Deployed,
         Marked, WithConfig, WithModel, WithRuntime, WithProduct, WithUser
    <2>3. Covered'
      BY <1>14, <1>1, <1>2, <2>1
      DEF StartService, IInv, Covered, Journal, Marked, WithConfig, WithModel,
         WithRuntime, WithProduct, WithUser
    <2>4. Intact'
      BY <1>14, <1>1, <1>2, <2>1 DEF StartService, IInv, Intact, Leaving, SnapshotFits, Marked
    <2>5. QED
      BY <2>2, <2>3, <2>4
  <1>15. CASE WriteMarker
    <2>1. op.pc = "check" /\ op'.pc = "forget pending" /\ op' # Idle
      BY <1>15, <1>1 DEF WriteMarker, Fields, Idle
    <2>2. Written'
      BY <1>15, <1>1, <2>1
      DEF WriteMarker, IInv, Written, Settings, Unchanged, world, Shape, Put, Parts,
         Contents, Roots, Deployed, Marked,
         WithConfig, WithModel, WithRuntime, WithProduct, WithUser
    <2>3. Covered'
      <3>1. marker' # None
        BY <1>15, <1>1, <2>1, MarkerIsRecord, ConvergeOps DEF WriteMarker, IInv, Shape, Covered
      <3>2. QED
        BY <1>15, <1>1, <1>2, <2>1, <3>1 DEF WriteMarker, IInv, Covered, Journal, Marked
    <2>4. Intact'
      BY <1>15, <1>1, <1>2, <2>1 DEF WriteMarker, IInv, Intact, Leaving, SnapshotFits, Marked
    <2>5. QED
      BY <2>2, <2>3, <2>4
  <1>16. CASE ForgetPending
    <2>1. op.pc = "forget pending" /\ op'.pc = "forget retained" /\ op' # Idle
      BY <1>16, <1>1 DEF ForgetPending, Fields, Idle
    <2>2. Written'
      BY <1>16, <1>1, <2>1
      DEF ForgetPending, IInv, Written, Settings, Unchanged, world, Shape, Put, Parts,
         Contents, Roots, Deployed,
         Marked, WithConfig, WithModel, WithRuntime, WithProduct, WithUser
    <2>3. Covered'
      BY <1>16, <1>1, <1>2, <2>1
      DEF ForgetPending, IInv, Covered, Journal, Marked, WithConfig, WithModel,
         WithRuntime, WithProduct, WithUser
    <2>4. Intact'
      BY <1>16, <1>1, <1>2, <2>1
      DEF ForgetPending, IInv, Intact, Leaving, SnapshotFits, Marked
    <2>5. QED
      BY <2>2, <2>3, <2>4
  <1>17. CASE ForgetRetained
    <2>1. op' = Idle /\ op.pc \in Marked /\ UNCHANGED <<marker, disk, snapshot>>
      BY <1>17 DEF ForgetRetained, Marked
    <2>2. Written' /\ Covered'
      BY <2>1 DEF IInv, Written, Covered, Idle, Converges, Uninstalls
    <2>3. Intact'
      <3>1. op.kind \in Converges /\ marker # None /\ marker.rev = op.rev
        BY <1>1, <2>1 DEF IInv, Covered, Intact
      <3>2. /\ disk["product"] = source /\ disk["runtime"] = op.rev
            /\ disk["config"] = Settings /\ disk["host"] = source
        BY <2>1, <3>1
        DEF IInv, Written, Marked, WithConfig, WithModel, WithRuntime, WithProduct
      <3>3. cut' = (op.rev # source)
        BY <1>17 DEF ForgetRetained, Unchanged
      <3>4. ~cut' => \A p \in Copied : disk[p] = marker.rev
        BY <3>1, <3>2, <3>3 DEF Settings, Unchanged, Copied
      <3>5. QED
        BY <2>1, <3>4 DEF Intact, Idle, Converges, Uninstalls
    <2>4. QED
      BY <2>2, <2>3
  <1>18. QED
    BY <1>3, <1>4, <1>5, <1>6, <1>7, <1>8, <1>9, <1>10, <1>11, <1>12, <1>13, <1>14,
       <1>15, <1>16, <1>17 DEF Converge

LEMMA RollbackOps ==
  ASSUME IInv, Rollback
  PROVE  /\ op.kind = "rollback" /\ Busy /\ marker # None /\ snapshot # None
         /\ \/ op' = Idle
            \/ /\ DOMAIN op' = Fields /\ op'.kind = op.kind /\ op'.rev = op.rev
               /\ op'.boot = op.boot /\ op'.pc # "preflight"
  <1>1. op.kind = "rollback" /\ Busy /\ (op.pc = "preflight" => RollbackAccepted)
    BY
    DEF Busy, Rollback, StopForRollback, BeginRestore, EndRestore, BeginRestoreHost,
       EndRestoreHost, RestoreRuntime, RestoreSuspension, RestoreService,
       ForgetSnapshot, In, Halfway, Goto, GoHalfway, Restored
  <1>2. RollbackAccepted
    BY <1>1 DEF IInv, Restores
  <1>3. \/ op' = Idle
        \/ /\ DOMAIN op' = Fields /\ op'.kind = op.kind /\ op'.rev = op.rev
           /\ op'.boot = op.boot /\ op'.pc # "preflight"
    <2>1. DOMAIN op = Fields /\ {"pc", "half"} \subseteq DOMAIN op
      BY <1>1 DEF IInv, Shape, Fields
    <2>2. CASE BeginRestore
      BY <2>1, <2>2 DEF BeginRestore, GoHalfway, Fields, In, Restored
    <2>3. CASE \E r \in DOMAIN Restored : EndRestore(r)
      BY <2>1, <2>3 DEF EndRestore, Goto, Fields, Restored
    <2>4. CASE BeginRestoreHost \/ EndRestoreHost \/ StopForRollback \/ RestoreRuntime
               \/ RestoreSuspension \/ RestoreService \/ ForgetSnapshot
      BY <2>1, <2>4
      DEF BeginRestoreHost, EndRestoreHost, StopForRollback, RestoreRuntime, RestoreSuspension,
          RestoreService, ForgetSnapshot, Goto, GoHalfway, In, Fields
    <2>5. QED
      BY <2>2, <2>3, <2>4 DEF Rollback
  <1>4. QED
    BY <1>1, <1>2, <1>3 DEF RollbackAccepted

LEMMA RollbackOther ==
  ASSUME IInv, Rollback
  PROVE  Written' /\ Removes' /\ Covered'
  BY RollbackOps DEF Written, Removes, Covered, Converges, Uninstalls, Idle

LEMMA RollbackShape ==
  ASSUME IInv, Rollback
  PROVE  Shape'
  <1>1. CASE StopForRollback
    BY <1>1, RollbackOps, StatesAre
    DEF StopForRollback, IInv, Shape, Busy, Idle, Put, records, unit, world, In,
       Halfway, Goto, GoHalfway
  <1>2. CASE BeginRestore
    <2>1. PICK left \in {"none", "mixed"} : disk' = [disk EXCEPT ![op.pc] = left]
      BY <1>2 DEF BeginRestore, Put
    <2>2. disk' \in [Parts -> States]
      BY <2>1, StatesAre DEF IInv, Shape
    <2>3. QED
      BY <1>2, <2>2, RollbackOps DEF BeginRestore, IInv, Shape, Busy, Idle, records, unit, world
  <1>3. CASE \E p \in DOMAIN Restored : EndRestore(p)
    BY <1>3, RollbackOps, StatesAre
    DEF EndRestore, Snapshots, Copied, IInv, Shape, Busy, Idle, Put, records, unit,
       world, In, Halfway, Goto, GoHalfway, Restored
  <1>4. CASE BeginRestoreHost
    BY <1>4, RollbackOps, StatesAre
    DEF BeginRestoreHost, IInv, Shape, Busy, Idle, Put, records, unit, world, In,
       Halfway, Goto, GoHalfway
  <1>5. CASE EndRestoreHost
    BY <1>5, RollbackOps, StatesAre
    DEF EndRestoreHost, Snapshots, Copied, IInv, Shape, Busy, Idle, Put, records,
       unit, world, In, Halfway, Goto, GoHalfway
  <1>6. CASE RestoreRuntime
    BY <1>6, RollbackOps, StatesAre
    DEF RestoreRuntime, Snapshots, Copied, IInv, Shape, Busy, Idle, Put, records,
       unit, world, In, Halfway, Goto, GoHalfway
  <1>7. CASE RestoreSuspension
    BY <1>7, RollbackOps, StatesAre
    DEF RestoreSuspension, Snapshots, IInv, Shape, Busy, Idle, Put, records, unit,
       world, In, Halfway, Goto, GoHalfway
  <1>8. CASE RestoreService
    BY <1>8, RollbackOps, StatesAre
    DEF RestoreService, ApplyService, Wanted, Snapshots, IInv, Shape, Busy, Idle,
       Put, records, unit, world, In, Halfway, Goto, GoHalfway
  <1>9. CASE ForgetSnapshot
    BY <1>9, RollbackOps, StatesAre
    DEF ForgetSnapshot, IInv, Shape, Busy, Idle, Put, records, unit, world, In,
       Halfway, Goto, GoHalfway
  <1>10. QED
    BY <1>1, <1>2, <1>3, <1>4, <1>5, <1>6, <1>7, <1>8, <1>9 DEF Rollback

LEMMA RollbackSnapped ==
  ASSUME IInv, Rollback
  PROVE  Snapped'
  <1>1. CASE StopForRollback
    BY <1>1, RollbackOps, StatesAre
    DEF StopForRollback, IInv, Shape, Snapped, Present, Put, records, In, Halfway,
       Goto, GoHalfway
  <1>2. CASE BeginRestore
    BY <1>2, RollbackOps, StatesAre
    DEF BeginRestore, IInv, Shape, Snapped, Present, Put, records, In, Halfway,
       Goto, GoHalfway, Restored
  <1>3. CASE \E p \in DOMAIN Restored : EndRestore(p)
    BY <1>3, RollbackOps, StatesAre
    DEF EndRestore, IInv, Shape, Snapped, Present, Put, records, In, Halfway, Goto,
       GoHalfway, Restored
  <1>4. CASE BeginRestoreHost
    BY <1>4, RollbackOps, StatesAre
    DEF BeginRestoreHost, IInv, Shape, Snapped, Present, Put, records, In, Halfway,
       Goto, GoHalfway
  <1>5. CASE EndRestoreHost
    BY <1>5, RollbackOps, StatesAre
    DEF EndRestoreHost, IInv, Shape, Snapped, Present, Put, records, In, Halfway,
       Goto, GoHalfway
  <1>6. CASE RestoreRuntime
    BY <1>6, RollbackOps, StatesAre
    DEF RestoreRuntime, IInv, Shape, Snapped, Present, Put, records, In, Halfway,
       Goto, GoHalfway
  <1>7. CASE RestoreSuspension
    BY <1>7, RollbackOps, StatesAre
    DEF RestoreSuspension, IInv, Shape, Snapped, Present, Put, records, In, Halfway,
       Goto, GoHalfway
  <1>8. CASE RestoreService
    BY <1>8, RollbackOps, StatesAre
    DEF RestoreService, IInv, Shape, Snapped, Present, Put, records, In, Halfway,
       Goto, GoHalfway
  <1>9. CASE ForgetSnapshot
    BY <1>9, RollbackOps, StatesAre
    DEF ForgetSnapshot, IInv, Shape, Snapped, Present, Put, records, In, Halfway,
       Goto, GoHalfway
  <1>10. QED
    BY <1>1, <1>2, <1>3, <1>4, <1>5, <1>6, <1>7, <1>8, <1>9 DEF Rollback

LEMMA RollbackStarts ==
  ASSUME IInv, Rollback
  PROVE  Starts'
  <1>1. CASE StopForRollback
    BY <1>1, RollbackOps, StatesAre
    DEF StopForRollback, IInv, Shape, Starts, ServiceHasItsFiles, Restores, records,
       unit, Idle, In, Halfway, Goto, GoHalfway
  <1>2. CASE BeginRestore
    BY <1>2, RollbackOps, StatesAre
    DEF BeginRestore, IInv, Shape, Starts, ServiceHasItsFiles, Restores, records,
       unit, Idle, In, Halfway, Goto, GoHalfway, Restored
  <1>3. CASE \E p \in DOMAIN Restored : EndRestore(p)
    BY <1>3, RollbackOps, StatesAre
    DEF EndRestore, IInv, Shape, Starts, ServiceHasItsFiles, Restores, records,
       unit, Idle, In, Halfway, Goto, GoHalfway, Restored
  <1>4. CASE BeginRestoreHost
    BY <1>4, RollbackOps, StatesAre
    DEF BeginRestoreHost, IInv, Shape, Starts, ServiceHasItsFiles, Restores,
       records, unit, Idle, In, Halfway, Goto, GoHalfway
  <1>5. CASE EndRestoreHost
    BY <1>5, RollbackOps, StatesAre
    DEF EndRestoreHost, IInv, Shape, Starts, ServiceHasItsFiles, Restores, records,
       unit, Idle, In, Halfway, Goto, GoHalfway
  <1>6. CASE RestoreRuntime
    BY <1>6, RollbackOps, StatesAre
    DEF RestoreRuntime, IInv, Shape, Starts, ServiceHasItsFiles, Restores, records,
       unit, Idle, In, Halfway, Goto, GoHalfway
  <1>7. CASE RestoreSuspension
    BY <1>7, RollbackOps, StatesAre
    DEF RestoreSuspension, IInv, Shape, Starts, ServiceHasItsFiles, Restores,
       records, unit, Idle, In, Halfway, Goto, GoHalfway
  <1>8. CASE RestoreService
    BY <1>8, RollbackOps, StatesAre
    DEF RestoreService, ApplyService, Wanted, Snapped, Snapshots, RollbackAccepted,
       Present, Contents, WithOldRuntime, WithOldHost, WithOldConfig, IInv, Shape,
       Starts, ServiceHasItsFiles, Restores, records, unit, Idle, In, Halfway, Goto,
       GoHalfway
  <1>9. CASE ForgetSnapshot
    BY <1>9, RollbackOps, StatesAre
    DEF ForgetSnapshot, Present, IInv, Shape, Starts, ServiceHasItsFiles, Restores,
       records, unit, Idle, In, Halfway, Goto, GoHalfway
  <1>10. QED
    BY <1>1, <1>2, <1>3, <1>4, <1>5, <1>6, <1>7, <1>8, <1>9 DEF Rollback

LEMMA RollbackCovers ==
  ASSUME IInv, Rollback
  PROVE  NothingIsOrphaned'
  <1>1. CASE StopForRollback
    BY <1>1, RollbackOps, RecordsAssumption
    DEF StopForRollback, IInv, NothingIsOrphaned, records, In, Halfway, Goto,
       GoHalfway
  <1>2. CASE BeginRestore
    BY <1>2, RollbackOps, RecordsAssumption
    DEF BeginRestore, IInv, NothingIsOrphaned, records, In, Halfway, Goto,
       GoHalfway, Restored
  <1>3. CASE \E p \in DOMAIN Restored : EndRestore(p)
    BY <1>3, RollbackOps, RecordsAssumption
    DEF EndRestore, IInv, NothingIsOrphaned, records, In, Halfway, Goto, GoHalfway,
       Restored
  <1>4. CASE BeginRestoreHost
    BY <1>4, RollbackOps, RecordsAssumption
    DEF BeginRestoreHost, IInv, NothingIsOrphaned, records, In, Halfway, Goto,
       GoHalfway
  <1>5. CASE EndRestoreHost
    BY <1>5, RollbackOps, RecordsAssumption
    DEF EndRestoreHost, Shape, Snapshots, IInv, NothingIsOrphaned, records, In,
       Halfway, Goto, GoHalfway
  <1>6. CASE RestoreRuntime
    BY <1>6, RollbackOps, RecordsAssumption
    DEF RestoreRuntime, IInv, NothingIsOrphaned, records, In, Halfway, Goto,
       GoHalfway
  <1>7. CASE RestoreSuspension
    BY <1>7, RollbackOps, RecordsAssumption
    DEF RestoreSuspension, IInv, NothingIsOrphaned, records, In, Halfway, Goto,
       GoHalfway
  <1>8. CASE RestoreService
    BY <1>8, RollbackOps, RecordsAssumption
    DEF RestoreService, IInv, NothingIsOrphaned, records, In, Halfway, Goto,
       GoHalfway
  <1>9. CASE ForgetSnapshot
    BY <1>9, RollbackOps, RecordsAssumption
    DEF ForgetSnapshot, IInv, NothingIsOrphaned, records, In, Halfway, Goto,
       GoHalfway
  <1>10. QED
    BY <1>1, <1>2, <1>3, <1>4, <1>5, <1>6, <1>7, <1>8, <1>9 DEF Rollback

LEMMA RollbackPlaces ==
  ASSUME IInv, Rollback
  PROVE  Restores' /\ Intact'
  <1>1. /\ op.kind = "rollback" /\ DOMAIN op = Fields /\ disk \in [Parts -> States]
        /\ snapshot \in Snapshots /\ marker # None
        /\ op.pc # "preflight" => RollbackAccepted
        /\ op' = Idle \/ (op'.kind = op.kind /\ op'.pc # "preflight")
    BY RollbackOps DEF IInv, Shape, Busy, Restores
  <1>2. op.kind \notin Converges \cup Uninstalls
    BY <1>1 DEF Converges, Uninstalls
  <1>3. ASSUME op' # Idle
        PROVE  Intact'
    BY <1>1, <1>2, <1>3 DEF Intact, Leaving
  <1>4. snapshot.marker # None /\ {"pc", "half"} \subseteq DOMAIN op
    BY <1>1, RecordsAssumption DEF Snapshots, Fields
  <1>5. CASE StopForRollback
    <2>1. op.pc = "preflight" /\ op'.pc = "product" /\ op' # Idle
      BY <1>5, <1>4, <1>1
      DEF StopForRollback, Fields, Idle, In, Halfway, Goto, GoHalfway
    <2>2. Restores'
      BY <1>5, <1>1, <1>4, StatesAre, <2>1
      DEF IInv, Restores, RollbackAccepted, Parts, Contents, Roots, StopForRollback,
         Put, records, unit, WithOldRuntime, WithOldHost, WithOldConfig,
         WithOldProduct
    <2>3. QED
      BY <1>3, <2>2, <2>1
  <1>6. CASE BeginRestore
    <2>1. PICK p \in DOMAIN Restored, left \in {"none", "mixed"} : op.pc = p /\ disk' = [disk EXCEPT ![p] = left]
      BY <1>6 DEF BeginRestore, In, Put
    <2>2. op'.pc = op.pc /\ op' # Idle /\ op.pc \in {"product", "config"}
      BY <1>6, <1>4, <1>1, <2>1 DEF BeginRestore, GoHalfway, Fields, Idle, Restored
    <2>3. Restores'
      BY <1>6, <1>1, <1>4, StatesAre, <2>1, <2>2
      DEF IInv, Restores, RollbackAccepted, Parts, Contents, Roots, BeginRestore,
         records, unit, WithOldRuntime, WithOldHost, WithOldConfig, WithOldProduct
    <2>4. QED
      BY <1>3, <2>3, <2>2
  <1>7. CASE \E p \in DOMAIN Restored : EndRestore(p)
    <2>1. PICK p \in DOMAIN Restored : EndRestore(p)
      BY <1>7
    <2>2. op.pc = p /\ op'.pc = Restored[p] /\ op' # Idle /\ p \in {"product", "config"}
      BY <1>4, <1>1, <2>1 DEF EndRestore, Halfway, Goto, Fields, Idle, Restored
    <2>3. Restores'
      BY <1>7, <1>1, <1>4, StatesAre, <2>1, <2>2
      DEF IInv, Restores, RollbackAccepted, Parts, Contents, Roots, EndRestore, Put,
         Restored, records, unit, WithOldRuntime, WithOldHost, WithOldConfig,
         WithOldProduct
    <2>4. QED
      BY <1>3, <2>3, <2>2
  <1>8. CASE BeginRestoreHost
    <2>1. op.pc = "host" /\ op'.pc = "host" /\ op' # Idle
      BY <1>8, <1>4, <1>1
      DEF BeginRestoreHost, Fields, Idle, In, Halfway, Goto, GoHalfway
    <2>2. Restores'
      BY <1>8, <1>1, <1>4, StatesAre, <2>1
      DEF IInv, Restores, RollbackAccepted, Parts, Contents, Roots,
         BeginRestoreHost, Put, records, unit, WithOldRuntime, WithOldHost,
         WithOldConfig, WithOldProduct
    <2>3. QED
      BY <1>3, <2>2, <2>1
  <1>9. CASE EndRestoreHost
    <2>1. op.pc = "host" /\ op'.pc = "runtime" /\ op' # Idle
      BY <1>9, <1>4, <1>1 DEF EndRestoreHost, Fields, Idle, In, Halfway, Goto, GoHalfway
    <2>2. Restores'
      BY <1>9, <1>1, <1>4, StatesAre, <2>1
      DEF IInv, Restores, RollbackAccepted, Parts, Contents, Roots, EndRestoreHost,
         Put, records, unit, WithOldRuntime, WithOldHost, WithOldConfig,
         WithOldProduct
    <2>3. QED
      BY <1>3, <2>2, <2>1
  <1>10. CASE RestoreRuntime
    <2>1. op.pc = "runtime" /\ op'.pc = "suspension" /\ op' # Idle
      BY <1>10, <1>4, <1>1
      DEF RestoreRuntime, Fields, Idle, In, Halfway, Goto, GoHalfway
    <2>2. Restores'
      BY <1>10, <1>1, <1>4, StatesAre, <2>1
      DEF IInv, Restores, RollbackAccepted, Parts, Contents, Roots, RestoreRuntime,
         Put, records, unit, WithOldRuntime, WithOldHost, WithOldConfig,
         WithOldProduct
    <2>3. QED
      BY <1>3, <2>2, <2>1
  <1>11. CASE RestoreSuspension
    <2>1. op.pc = "suspension" /\ op'.pc = "service" /\ op' # Idle
      BY <1>11, <1>4, <1>1
      DEF RestoreSuspension, Fields, Idle, In, Halfway, Goto, GoHalfway
    <2>2. Restores'
      BY <1>11, <1>1, <1>4, StatesAre, <2>1
      DEF IInv, Restores, RollbackAccepted, Parts, Contents, Roots,
         RestoreSuspension, Put, records, unit, WithOldRuntime, WithOldHost,
         WithOldConfig, WithOldProduct
    <2>3. QED
      BY <1>3, <2>2, <2>1
  <1>12. CASE RestoreService
    <2>1. op.pc = "service" /\ op'.pc = "forget" /\ op' # Idle
      BY <1>12, <1>4, <1>1
      DEF RestoreService, Fields, Idle, In, Halfway, Goto, GoHalfway
    <2>2. Restores'
      BY <1>12, <1>1, <1>4, StatesAre, <2>1
      DEF IInv, Restores, RollbackAccepted, Parts, Contents, Roots, RestoreService,
         Put, records, unit, WithOldRuntime, WithOldHost, WithOldConfig,
         WithOldProduct
    <2>3. QED
      BY <1>3, <2>2, <2>1
  <1>13. CASE ForgetSnapshot
    <2>1. op' = Idle /\ op.pc = "forget" /\ UNCHANGED <<marker, disk>> /\ cut' = (cut \/ ~snapshot.sound)
      BY <1>13 DEF ForgetSnapshot, records, In
    <2>2. Restores'
      BY <2>1 DEF Restores, Idle
    <2>3. snapshot.sound => \A p \in Copied : disk[p] = marker.rev
      BY <1>1, <2>1, RollbackOps
      DEF IInv, Snapped, Restores, Copied, WithOldRuntime, WithOldHost,
         WithOldConfig, WithOldProduct
    <2>4. QED
      BY <2>1, <2>2, <2>3, <1>1 DEF Intact, Idle, Converges, Shape, IInv
  <1>14. QED
    BY <1>5, <1>6, <1>7, <1>8, <1>9, <1>10, <1>11, <1>12, <1>13 DEF Rollback

LEMMA SmallStep ==
  ASSUME IInv, Small
  PROVE  IInv'
  <1> USE DEF Small, Backup, StopForSuspend, Suspend, ForgetSuspension, Resume, In, Goto
  <1>1. /\ op.kind \in {"backup", "suspend", "resume"} /\ DOMAIN op = Fields
        /\ UNCHANGED <<marker, pending, disk, snapshot, asked, boot, source, cut>>
        /\ suspended' \in BOOLEAN /\ service' \in BOOLEAN
    BY DEF IInv, Shape, Busy, records, unit, world
  <1>2. op' = Idle \/ (op'.kind = op.kind /\ op'.rev = op.rev /\ op'.boot = op.boot
                        /\ DOMAIN op' = Fields)
    BY <1>1 DEF Fields
  <1>3. {op.kind, op'.kind} \cap (Converges \cup Uninstalls \cup {"rollback"}) = {}
    BY <1>1, <1>2 DEF Converges, Uninstalls, Idle
  <1>4. Shape'
    BY <1>1, <1>2 DEF IInv, Shape, Busy, Idle
  <1>5. Written' /\ Restores' /\ Removes' /\ Covered' /\ Intact' /\ Snapped'
    BY <1>1, <1>3
    DEF IInv, Written, Restores, Removes, Covered, Intact, Leaving, SnapshotFits, Snapped, Present
  <1>8. NothingIsOrphaned'
    BY <1>1, <1>3 DEF IInv, NothingIsOrphaned, Halfway, Uninstalls
  <1>6. Starts'
    <2>1. CASE Backup \/ StopForSuspend \/ Suspend
      BY <1>1, <1>2, <2>1 DEF IInv, Shape, Starts, ServiceHasItsFiles, Present, Idle, unit, records
    <2>2. CASE ForgetSuspension
      <3>1. Files
        BY <2>2, NamesAssumption
        DEF ResumeAccepted, HostFilesValid, AccountValid, ConfigurationPathsValid,
            RuntimeValid, Files, Contents, Present, IInv, Shape, Busy
      <3>2. QED
        BY <1>1, <2>2, <3>1 DEF IInv, Starts, ServiceHasItsFiles, Files, Present, unit
    <2>3. CASE Resume
      BY <1>1, <2>3 DEF IInv, Starts, ServiceHasItsFiles, Files, Present, Idle
    <2>4. QED
      BY <2>1, <2>2, <2>3
  <1>7. QED
    BY <1>4, <1>5, <1>6, <1>8 DEF IInv

LEMMA UninstallOps ==
  ASSUME IInv, Uninstall
  PROVE  /\ op.kind \in Uninstalls /\ Busy /\ DOMAIN op = Fields /\ disk \in [Parts -> States]
         /\ \/ op' = Idle
            \/ /\ DOMAIN op' = Fields /\ op'.kind = op.kind /\ op'.rev = op.rev
               /\ op'.boot = op.boot /\ op'.pc # "preflight"
  <1>1. op.kind \in Uninstalls /\ Busy
    BY
    DEF Uninstall, Uninstalls, Busy, UninstallPreflight, StopForUninstall,
       RemoveSome, RemoveHost, RemoveConfiguration, RemoveInstallRoot,
       KeepConfiguration, Retain, RemoveFromState, RemoveState, RemoveAccount, In,
       Halfway
  <1>2. DOMAIN op = Fields /\ disk \in [Parts -> States]
    BY <1>1 DEF IInv, Shape
  <1>3. \/ op' = Idle
        \/ /\ DOMAIN op' = Fields /\ op'.kind = op.kind /\ op'.rev = op.rev
           /\ op'.boot = op.boot /\ op'.pc # "preflight"
    <2>1. {"pc", "half", "kept", "kind", "rev", "boot"} \subseteq DOMAIN op
      BY <1>2 DEF Fields
    <2>2. CASE \E p \in {"host", "config", "product"} : RemoveSome(p)
      BY <1>2, <2>1, <2>2 DEF RemoveSome, GoHalfway, In
    <2>3. CASE UninstallPreflight
      BY <1>2, <2>1, <2>3 DEF UninstallPreflight
    <2>4. CASE StopForUninstall \/ RemoveHost \/ RemoveConfiguration \/ KeepConfiguration
               \/ Retain
      BY <1>2, <2>1, <2>4
      DEF StopForUninstall, RemoveHost, RemoveConfiguration, KeepConfiguration, Retain, Goto
    <2>5. CASE RemoveInstallRoot
      BY <1>2, <2>1, <2>5 DEF RemoveInstallRoot, Goto
    <2>6. CASE RemoveFromState \/ RemoveState \/ RemoveAccount
      BY <1>2, <2>1, <2>6 DEF RemoveFromState, RemoveState, RemoveAccount, Goto, GoHalfway, In
    <2>7. QED
      BY <1>1, <2>2, <2>3, <2>4, <2>5, <2>6 DEF Uninstall
  <1>4. QED
    BY <1>1, <1>2, <1>3

LEMMA UninstallOther ==
  ASSUME IInv, Uninstall
  PROVE  Written' /\ Restores'
  BY UninstallOps DEF Written, Restores, Converges, Uninstalls, Idle

LEMMA UninstallShape ==
  ASSUME IInv, Uninstall
  PROVE  Shape'
  <1>1. CASE UninstallPreflight
    BY <1>1, UninstallOps, StatesAre
    DEF UninstallPreflight, Kinds, IInv, Shape, Busy, Idle, Put, records, unit,
       world, In, Halfway, Goto, GoHalfway
  <1>2. CASE StopForUninstall
    BY <1>2, UninstallOps, StatesAre
    DEF StopForUninstall, Stopped, IInv, Shape, Busy, Idle, Put, records, unit,
       world, In, Halfway, Goto, GoHalfway
  <1>3. CASE \E p \in {"host", "config", "product"} : RemoveSome(p)
    <2>1. PICK q \in {"host", "config", "product"} : RemoveSome(q)
      BY <1>3
    <2>2. PICK left \in {"mixed", "none"} : disk' = [disk EXCEPT ![q] = left]
      BY <2>1 DEF RemoveSome, Put
    <2>3. disk' \in [Parts -> States]
      BY <2>2, StatesAre DEF IInv, Shape
    <2>4. QED
      BY <2>1, <2>3, UninstallOps DEF RemoveSome, IInv, Shape, Busy, Idle, records, unit, world
  <1>4. CASE RemoveHost
    BY <1>4, UninstallOps, StatesAre
    DEF RemoveHost, IInv, Shape, Busy, Idle, Put, records, unit, world, In, Halfway,
       Goto, GoHalfway
  <1>5. CASE RemoveConfiguration
    BY <1>5, UninstallOps, StatesAre
    DEF RemoveConfiguration, IInv, Shape, Busy, Idle, Put, records, unit, world, In,
       Halfway, Goto, GoHalfway
  <1>6. CASE RemoveInstallRoot
    BY <1>6, UninstallOps, StatesAre
    DEF RemoveInstallRoot, IInv, Shape, Busy, Idle, Put, records, unit, world, In,
       Halfway, Goto, GoHalfway
  <1>7. CASE KeepConfiguration
    BY <1>7, UninstallOps, StatesAre
    DEF KeepConfiguration, IInv, Shape, Busy, Idle, Put, records, unit, world, In,
       Halfway, Goto, GoHalfway
  <1>8. CASE Retain
    BY <1>8, UninstallOps, StatesAre
    DEF Retain, IInv, Shape, Busy, Idle, Put, records, unit, world, In, Halfway,
       Goto, GoHalfway
  <1>9. CASE RemoveFromState
    <2>1. disk' \in [Parts -> States]
      BY <1>9, StatesAre DEF RemoveFromState, Put, IInv, Shape
    <2>2. /\ suspended' \in BOOLEAN /\ marker' \in {marker, None}
          /\ pending' \in {pending, None}
          /\ UNCHANGED <<snapshot, service, boot, source, cut, asked>>
      BY <1>9 DEF RemoveFromState, IInv, Shape, unit, world
    <2>3. QED
      BY <2>1, <2>2, UninstallOps DEF IInv, Shape, Busy, Idle
  <1>10. CASE RemoveState
    BY <1>10, UninstallOps, StatesAre
    DEF RemoveState, IInv, Shape, Busy, Idle, Put, records, unit, world, In,
       Halfway, Goto, GoHalfway
  <1>11. CASE RemoveAccount
    BY <1>11, UninstallOps, StatesAre
    DEF RemoveAccount, IInv, Shape, Busy, Idle, Put, records, unit, world, In,
       Halfway, Goto, GoHalfway
  <1>12. QED
    BY <1>1, <1>2, <1>3, <1>4, <1>5, <1>6, <1>7, <1>8, <1>9, <1>10, <1>11 DEF Uninstall

LEMMA UninstallSnapped ==
  ASSUME IInv, Uninstall
  PROVE  Snapped'
  <1>1. CASE UninstallPreflight
    BY <1>1, UninstallOps, StatesAre
    DEF UninstallPreflight, IInv, Snapped, Present, Put, records, Parts, Contents,
       Roots, In, Halfway, Goto, GoHalfway
  <1>2. CASE StopForUninstall
    BY <1>2, UninstallOps, StatesAre
    DEF StopForUninstall, IInv, Snapped, Present, Put, records, Parts, Contents,
       Roots, In, Halfway, Goto, GoHalfway
  <1>3. CASE \E p \in {"host", "config", "product"} : RemoveSome(p)
    BY <1>3, UninstallOps, StatesAre
    DEF RemoveSome, IInv, Snapped, Present, Put, records, Parts, Contents, Roots,
       In, Halfway, Goto, GoHalfway
  <1>4. CASE RemoveHost
    BY <1>4, UninstallOps, StatesAre
    DEF RemoveHost, IInv, Snapped, Present, Put, records, Parts, Contents, Roots,
       In, Halfway, Goto, GoHalfway
  <1>5. CASE RemoveConfiguration
    BY <1>5, UninstallOps, StatesAre
    DEF RemoveConfiguration, IInv, Snapped, Present, Put, records, Parts, Contents,
       Roots, In, Halfway, Goto, GoHalfway
  <1>6. CASE RemoveInstallRoot
    BY <1>6, UninstallOps, StatesAre
    DEF RemoveInstallRoot, IInv, Snapped, Present, Put, records, Parts, Contents,
       Roots, In, Halfway, Goto, GoHalfway
  <1>7. CASE KeepConfiguration
    BY <1>7, UninstallOps, StatesAre
    DEF KeepConfiguration, IInv, Snapped, Present, Put, records, Parts, Contents,
       Roots, In, Halfway, Goto, GoHalfway
  <1>8. CASE Retain
    BY <1>8, UninstallOps, StatesAre
    DEF Retain, IInv, Snapped, Present, Put, records, Parts, Contents, Roots, In,
       Halfway, Goto, GoHalfway
  <1>9. CASE RemoveFromState
    BY <1>9, UninstallOps, StatesAre
    DEF RemoveFromState, Removes, NoOpt, NoConfig, NoHost, IInv, Snapped, Present,
       Put, records, Parts, Contents, Roots, In, Halfway, Goto, GoHalfway
  <1>10. CASE RemoveState
    BY <1>10, UninstallOps, StatesAre
    DEF RemoveState, Removes, NoOpt, NoConfig, NoHost, IInv, Snapped, Present, Put,
       records, Parts, Contents, Roots, In, Halfway, Goto, GoHalfway
  <1>11. CASE RemoveAccount
    BY <1>11, UninstallOps, StatesAre
    DEF RemoveAccount, Removes, NoOpt, NoConfig, NoHost, IInv, Snapped, Present,
       Put, records, Parts, Contents, Roots, In, Halfway, Goto, GoHalfway
  <1>12. QED
    BY <1>1, <1>2, <1>3, <1>4, <1>5, <1>6, <1>7, <1>8, <1>9, <1>10, <1>11 DEF Uninstall

LEMMA UninstallStarts ==
  ASSUME IInv, Uninstall
  PROVE  Starts'
  <1>1. op'.kind # "resume"
    BY UninstallOps DEF Uninstalls, Idle
  <1>2. CASE UninstallPreflight
    BY <1>1, <1>2, UninstallOps, StatesAre
    DEF UninstallPreflight, IInv, Starts, ServiceHasItsFiles, Present, Put, Contents, unit
  <1>3. CASE ~UninstallPreflight
    <2>1. ~service' /\ ~boot'
      <3>1. CASE StopForUninstall
        BY <3>1 DEF StopForUninstall, Stopped
      <3>2. CASE \E p \in {"host", "config", "product"} : RemoveSome(p)
        BY <3>2, UninstallOps DEF RemoveSome, IInv, Removes, unit, In
      <3>3. CASE RemoveHost \/ RemoveConfiguration \/ RemoveInstallRoot \/ KeepConfiguration
                 \/ Retain \/ RemoveFromState \/ RemoveState \/ RemoveAccount
        <4>1. op.kind \in Uninstalls /\ op.pc \notin {"preflight", "stop"} /\ UNCHANGED unit
          BY <3>3, UninstallOps
          DEF RemoveHost, RemoveConfiguration, RemoveInstallRoot, KeepConfiguration,
              Retain, RemoveFromState, RemoveState, RemoveAccount, In, Halfway
        <4>2. QED
          BY <4>1 DEF IInv, Removes, unit
      <3>4. QED
        BY <1>3, <3>1, <3>2, <3>3 DEF Uninstall
    <2>2. QED
      BY <1>1, <2>1 DEF Starts, ServiceHasItsFiles
  <1>4. QED
    BY <1>2, <1>3

LEMMA UninstallPlaces ==
  ASSUME IInv, Uninstall
  PROVE  Removes' /\ Covered' /\ Intact' /\ NothingIsOrphaned'
  <1>1. /\ op.kind \in Uninstalls /\ DOMAIN op = Fields /\ disk \in [Parts -> States]
        /\ op' = Idle \/ (op'.kind = op.kind /\ op'.pc # "preflight")
        /\ {"pc", "half", "kept"} \subseteq DOMAIN op
    BY UninstallOps DEF Fields
  <1>2. op.kind \notin Converges
    BY <1>1 DEF Converges, Uninstalls
  <1>3. ASSUME op' # Idle
        PROVE  Intact'
    BY <1>1, <1>2, <1>3 DEF Intact, Leaving
  <1>4. CASE UninstallPreflight
    <2>1. op.pc = "preflight" /\ op'.pc = "stop" /\ op' # Idle
      BY <1>4, <1>1 DEF UninstallPreflight, Fields, Idle, In, Halfway, Goto, GoHalfway
    <2>2. Removes'
      BY <1>4, <1>1, <2>1
      DEF UninstallPreflight, IInv, Removes, Put, Parts, Contents, Roots, unit, In,
         Halfway, NoOpt, NoConfig, NoHost
    <2>3. Covered'
      BY <1>4, <1>1, <1>2, <2>1
      DEF UninstallPreflight, IInv, Covered, records, In, Halfway
    <2>4. NothingIsOrphaned'
      BY <1>4, <1>1, <2>1, <2>2, <2>3
      DEF UninstallPreflight, IInv, NothingIsOrphaned, Covered, Removes, Put,
         Contents, Parts, Roots, records, NoOpt, NoConfig, NoHost
    <2>5. QED
      BY <1>3, <2>1, <2>2, <2>3, <2>4
  <1>5. CASE StopForUninstall
    <2>1. op.pc = "stop" /\ op'.pc = "host" /\ op' # Idle
      BY <1>5, <1>1 DEF StopForUninstall, Fields, Idle, In, Halfway, Goto, GoHalfway
    <2>2. Removes'
      BY <1>5, <1>1, <2>1
      DEF StopForUninstall, Stopped, IInv, Removes, Put, Parts, Contents, Roots,
         unit, In, Halfway, NoOpt, NoConfig, NoHost
    <2>3. Covered'
      BY <1>5, <1>1, <1>2, <2>1
      DEF StopForUninstall, IInv, Covered, records, In, Halfway
    <2>4. NothingIsOrphaned'
      BY <1>5, <1>1, <2>1, <2>2, <2>3
      DEF StopForUninstall, IInv, NothingIsOrphaned, Covered, Removes, Put,
         Contents, Parts, Roots, records, NoOpt, NoConfig, NoHost
    <2>5. QED
      BY <1>3, <2>1, <2>2, <2>3, <2>4
  <1>6. CASE \E p \in {"host", "config", "product"} : RemoveSome(p)
    <2>1. op.pc = op'.pc /\ op.pc \in {"host", "config", "product"} /\ op' # Idle
      BY <1>6, <1>1 DEF RemoveSome, Fields, Idle, In, Halfway, Goto, GoHalfway
    <2>2. Removes'
      BY <1>6, <1>1, <2>1
      DEF RemoveSome, IInv, Removes, Put, Parts, Contents, Roots, unit, In, Halfway,
         NoOpt, NoConfig, NoHost
    <2>3. Covered'
      BY <1>6, <1>1, <1>2, <2>1 DEF RemoveSome, IInv, Covered, records, In, Halfway
    <2>4. NothingIsOrphaned'
      BY <1>6, <1>1, <2>1, <2>2, <2>3
      DEF RemoveSome, IInv, NothingIsOrphaned, Covered, Removes, Put, Contents,
         Parts, Roots, records, NoOpt, NoConfig, NoHost
    <2>5. QED
      BY <1>3, <2>1, <2>2, <2>3, <2>4
  <1>7. CASE RemoveHost
    <2>1. op.pc = "host" /\ op'.pc = "config" /\ op' # Idle
      BY <1>7, <1>1 DEF RemoveHost, Fields, Idle, In, Halfway, Goto, GoHalfway
    <2>2. Removes'
      BY <1>7, <1>1, <2>1
      DEF RemoveHost, IInv, Removes, Put, Parts, Contents, Roots, unit, In, Halfway,
         NoOpt, NoConfig, NoHost
    <2>3. Covered'
      BY <1>7, <1>1, <1>2, <2>1 DEF RemoveHost, IInv, Covered, records, In, Halfway
    <2>4. NothingIsOrphaned'
      BY <1>7, <1>1, <2>1, <2>2, <2>3
      DEF RemoveHost, IInv, NothingIsOrphaned, Covered, Removes, Put, Contents,
         Parts, Roots, records, NoOpt, NoConfig, NoHost
    <2>5. QED
      BY <1>3, <2>1, <2>2, <2>3, <2>4
  <1>8. CASE RemoveConfiguration
    <2>1. op.pc = "config" /\ op'.pc = "product" /\ op' # Idle
      BY <1>8, <1>1 DEF RemoveConfiguration, Fields, Idle, In, Halfway, Goto, GoHalfway
    <2>2. Removes'
      BY <1>8, <1>1, <2>1
      DEF RemoveConfiguration, IInv, Removes, Put, Parts, Contents, Roots, unit, In,
         Halfway, NoOpt, NoConfig, NoHost
    <2>3. Covered'
      BY <1>8, <1>1, <1>2, <2>1
      DEF RemoveConfiguration, IInv, Covered, records, In, Halfway
    <2>4. NothingIsOrphaned'
      BY <1>8, <1>1, <2>1, <2>2, <2>3
      DEF RemoveConfiguration, IInv, NothingIsOrphaned, Covered, Removes, Put,
         Contents, Parts, Roots, records, NoOpt, NoConfig, NoHost
    <2>5. QED
      BY <1>3, <2>1, <2>2, <2>3, <2>4
  <1>9. CASE RemoveInstallRoot
    <2>1. op.pc = "product" /\ op'.pc \in {"keep", "state"} /\ ~op'.half /\ op' # Idle
      BY <1>9, <1>1 DEF RemoveInstallRoot, Fields, Idle, In, Halfway, Goto, GoHalfway
    <2>2. Removes'
      BY <1>9, <1>1, <2>1
      DEF RemoveInstallRoot, IInv, Removes, Put, Parts, Contents, Roots, unit, In,
         Halfway, NoOpt, NoConfig, NoHost
    <2>3. Covered'
      BY <1>9, <1>1, <1>2, <2>1
      DEF RemoveInstallRoot, IInv, Covered, records, In, Halfway
    <2>4. NothingIsOrphaned'
      BY <1>9, <1>1, <2>1, <2>2, <2>3
      DEF RemoveInstallRoot, IInv, NothingIsOrphaned, Covered, Removes, Put,
         Contents, Parts, Roots, records, NoOpt, NoConfig, NoHost
    <2>5. QED
      BY <1>3, <2>1, <2>2, <2>3, <2>4
  <1>10. CASE KeepConfiguration
    <2>1. op.pc = "keep" /\ op'.pc = "retain" /\ op' # Idle
      BY <1>10, <1>1 DEF KeepConfiguration, Fields, Idle, In, Halfway, Goto, GoHalfway
    <2>2. Removes'
      BY <1>10, <1>1, <2>1
      DEF KeepConfiguration, IInv, Removes, Put, Parts, Contents, Roots, unit, In,
         Halfway, NoOpt, NoConfig, NoHost
    <2>3. Covered'
      BY <1>10, <1>1, <1>2, <2>1
      DEF KeepConfiguration, IInv, Covered, records, In, Halfway
    <2>4. NothingIsOrphaned'
      BY <1>10, <1>1, <2>1, <2>2, <2>3
      DEF KeepConfiguration, IInv, NothingIsOrphaned, Covered, Removes, Put,
         Contents, Parts, Roots, records, NoOpt, NoConfig, NoHost
    <2>5. QED
      BY <1>3, <2>1, <2>2, <2>3, <2>4
  <1>11. CASE Retain
    <2>1. op' = Idle /\ op.pc = "retain" /\ UNCHANGED <<marker, pending>>
      BY <1>11 DEF Retain, In, records
    <2>2. Removes' /\ Covered'
      BY <2>1 DEF Removes, Covered, Idle, Uninstalls, Converges
    <2>3. Intact'
      BY <1>11, <1>1, <2>1
      DEF Retain, IInv, Removes, Covered, Intact, Leaving, Idle, Converges, In,
         NoOpt, NoConfig, NoHost
    <2>4. NothingIsOrphaned'
      BY <1>1, <2>1 DEF IInv, NothingIsOrphaned, Covered
    <2>5. QED
      BY <2>2, <2>3, <2>4
  <1>12. CASE RemoveFromState
    <2>1. op.pc = "state" /\ op'.pc = "state" /\ op'.half /\ op' # Idle
      BY <1>12, <1>1 DEF RemoveFromState, Fields, Idle, In, Halfway, Goto, GoHalfway
    <2>2. Removes'
      BY <1>12, <1>1, <2>1
      DEF RemoveFromState, IInv, Removes, Put, Parts, Contents, Roots, unit, In,
         Halfway, NoOpt, NoConfig, NoHost
    <2>3. Covered'
      BY <1>12, <1>1, <1>2, <2>1
      DEF RemoveFromState, IInv, Covered, records, In, Halfway
    <2>4. NothingIsOrphaned'
      <3>1. \A p \in Contents \ {"model"} : disk'[p] = "none"
        BY <1>12, <1>1, <2>1
        DEF RemoveFromState, IInv, Removes, Put, Contents, NoOpt, NoConfig, NoHost
      <3>2. op'.kind = "purge"
        BY <1>12, <1>1, <2>1 DEF RemoveFromState, In, Idle
      <3>3. QED
        BY <2>1, <3>1, <3>2 DEF NothingIsOrphaned, Halfway
    <2>5. QED
      BY <1>3, <2>1, <2>2, <2>3, <2>4
  <1>13. CASE RemoveState
    <2>1. op.pc = "state" /\ op'.pc = "user" /\ op' # Idle
      BY <1>13, <1>1 DEF RemoveState, Fields, Idle, In, Halfway, Goto, GoHalfway
    <2>2. Removes'
      BY <1>13, <1>1, <2>1
      DEF RemoveState, IInv, Removes, Put, Parts, Contents, Roots, unit, In,
         Halfway, NoOpt, NoConfig, NoHost
    <2>3. Covered'
      BY <1>13, <1>1, <1>2, <2>1 DEF RemoveState, IInv, Covered, records, In, Halfway
    <2>4. NothingIsOrphaned'
      BY <1>13, <1>1, <2>1, <2>2, <2>3
      DEF RemoveState, IInv, NothingIsOrphaned, Covered, Removes, Put, Contents,
         Parts, Roots, records, NoOpt, NoConfig, NoHost
    <2>5. QED
      BY <1>3, <2>1, <2>2, <2>3, <2>4
  <1>14. CASE RemoveAccount
    <2>1. op' = Idle /\ op.pc = "user" /\ UNCHANGED <<marker, pending>>
      BY <1>14 DEF RemoveAccount, In, records
    <2>2. Removes' /\ Covered'
      BY <2>1 DEF Removes, Covered, Idle, Uninstalls, Converges
    <2>3. Intact'
      BY <1>14, <1>1, <2>1
      DEF RemoveAccount, IInv, Removes, Covered, Intact, Leaving, Idle, Converges,
         In, NoOpt, NoConfig, NoHost
    <2>4. NothingIsOrphaned'
      BY <1>14, <1>1, <2>1
      DEF RemoveAccount, IInv, NothingIsOrphaned, Removes, Put, Contents, Parts,
         Roots, In, NoOpt, NoConfig, NoHost
    <2>5. QED
      BY <2>2, <2>3, <2>4
  <1>15. QED
    BY <1>4, <1>5, <1>6, <1>7, <1>8, <1>9, <1>10, <1>11, <1>12, <1>13, <1>14
    DEF Uninstall

-------------------------------------------------------------------------------
\* An operation begins.
LEMMA Starting ==
  ASSUME IInv, NEW plan, plan.kind \in Kinds, plan.rev \in Versions,
         Start(plan), asked' \in {asked, Idle}
  PROVE  IInv'
  <1>1. /\ op'.pc = "preflight" /\ op'.kind \in Kinds /\ DOMAIN op' = Fields /\ op'.rev \in Versions
        /\ op'.boot \in BOOLEAN /\ op = Idle
        /\ UNCHANGED <<records, disk, snapshot, unit, world, cut>>
    <2>1. PICK b \in Boots(plan.kind) :
            op' = [kind |-> plan.kind, pc |-> "preflight", half |-> FALSE, rev |-> plan.rev,
                   id |-> None, boot |-> b, changed |-> FALSE, kept |-> FALSE]
      BY DEF Start
    <2>2. b \in BOOLEAN
      BY DEF Boots
    <2>3. QED
      BY <2>1, <2>2 DEF Start, Fields
  <1>2. ~Leaving /\ ~Leaving' /\ op'.pc \notin Journal \cup Marked
    BY <1>1 DEF Leaving, Idle, Converges, Uninstalls, Journal, Marked, WithConfig, WithModel,
                WithRuntime, WithProduct, WithUser
  <1>3. Shape'
    BY <1>1 DEF IInv, Shape, Busy, Idle, records, unit, world, Kinds, Converges, Uninstalls
  <1>4. Written' /\ Restores' /\ Removes'
    BY <1>1 DEF Written, Restores, Removes, Marked, WithConfig, WithModel, WithRuntime,
                WithProduct, WithUser, WithOldRuntime, WithOldHost, WithOldConfig,
                WithOldProduct, NoOpt, NoConfig, NoHost
  <1>5. Covered' /\ Intact' /\ Starts' /\ Snapped' /\ NothingIsOrphaned'
    BY <1>1, <1>2
    DEF IInv, Covered, Intact, SnapshotFits, Starts, ServiceHasItsFiles, Snapped, Present,
        NothingIsOrphaned, Halfway, Idle, records, unit, Journal
  <1>6. QED
    BY <1>3, <1>4, <1>5 DEF IInv

\* An operation ends where it is, whole or not.
LEMMA Ending ==
  ASSUME IInv, op' = Idle, asked' = asked, UNCHANGED <<records, disk, snapshot, boot, source>>,
         service' \in {service, FALSE},
         cut' = cut \/ cut' = (cut \/ (op.pc # "preflight" /\ Rewrites)),
         cut' = cut => ~Leaving \/ cut \/ ~Rewrites
  PROVE  IInv'
  <1>1. Shape'
    BY DEF IInv, Shape, Busy, Idle, records, unit
  <1>2. Written' /\ Restores' /\ Removes' /\ Covered' /\ Snapped'
    BY DEF IInv, Written, Restores, Removes, Covered, Snapped, Present,
           Idle, Converges, Uninstalls, records
  <1>6. NothingIsOrphaned'
    <2>1. Halfway({"purge"}, "state") => op.pc # "preflight" /\ Leaving /\ Rewrites
      BY DEF Halfway, Leaving, Rewrites, Uninstalls
    <2>3. cut \/ Halfway({"purge"}, "state") => cut'
      <3>1. cut \in BOOLEAN
        BY DEF IInv, Shape
      <3>2. CASE cut' = cut
        BY <2>1, <3>2
      <3>3. CASE cut' = (cut \/ (op.pc # "preflight" /\ Rewrites))
        BY <2>1, <3>3
      <3>4. QED
        BY <3>2, <3>3
    <2>2. QED
      BY <2>3 DEF IInv, NothingIsOrphaned, records
  <1>3. Starts'
    <2>1. service' \/ boot' => service \/ boot
      BY DEF IInv, Shape
    <2>2. QED
      BY <2>1 DEF IInv, Starts, ServiceHasItsFiles, Present, Idle
  <1>4. Intact'
    BY DEF IInv, Shape, Intact, SnapshotFits, Leaving, Rewrites, Idle, Converges, Uninstalls, records
  <1>5. QED
    BY <1>1, <1>2, <1>3, <1>4, <1>6 DEF IInv

LEMMA OthersKeep ==
  ASSUME IInv,
         \/ \E k \in Waiting : Ask(k)
         \/ Refused \/ Reboot \/ SourceChanges \/ AccountAppears \/ UNCHANGED vars
  PROVE  IInv'
  <1>1. /\ UNCHANGED <<records, snapshot, boot, op, cut>> /\ source' \in Versions
        /\ UNCHANGED disk \/ AccountAppears
        /\ service' \in {service, boot}
    BY DEF Ask, Refused, Reboot, SourceChanges, AccountAppears, vars, records, unit, world, IInv,
           Shape
  <1>2. disk' \in [Parts -> States] /\ \A p \in Parts \ {"user"} : disk'[p] = disk[p]
    BY <1>1, StatesAre DEF AccountAppears, Put, IInv, Shape
  <1>3. disk'["user"] = disk["user"] \/ (op = Idle /\ disk["user"] = "none")
    BY <1>1 DEF AccountAppears
  <1>4. asked' # Idle => asked'.kind \in Kinds /\ asked'.rev \in Versions
    BY WaitingAssumption
    DEF Ask, Plan, Refused, Reboot, SourceChanges, AccountAppears, vars, IInv, Shape
  <1>5. Shape'
    BY <1>1, <1>2, <1>4 DEF IInv, Shape, Busy, records
  <1>6. Copied \cup Contents \cup Roots \subseteq Parts \ {"user"}
    BY DEF Copied, Parts, Contents, Roots
  <1>7. Snapped' /\ Starts'
    BY <1>1, <1>2, <1>3, <1>6 DEF IInv, Snapped, Starts, Shape, ServiceHasItsFiles, Present, Contents,
         Files, Idle
  <1>11. UNCHANGED source \/ op = Idle
    BY DEF Ask, Refused, Reboot, SourceChanges, AccountAppears, vars, world
  <1>12. Written'
    BY <1>1, <1>2, <1>3, <1>6, <1>11, StatesAre
    DEF IInv, Written, Settings, Unchanged, Contents, Idle, Converges
  <1>8. Restores' /\ Removes' /\ Covered'
    BY <1>1, <1>2, <1>3, <1>6, StatesAre
    DEF IInv, Restores, RollbackAccepted, Removes, Covered, records, Contents, Roots, Idle,
        Converges, Uninstalls
  <1>9. Intact' /\ NothingIsOrphaned'
    BY <1>1, <1>2, <1>6
    DEF IInv, Intact, SnapshotFits, Leaving, NothingIsOrphaned, Halfway, records, Roots
  <1>10. QED
    BY <1>5, <1>7, <1>8, <1>9, <1>12 DEF IInv

LEMMA NextInv == IInv /\ [Next]_vars => IInv'
  <1>1. SUFFICES ASSUME IInv, [Next]_vars PROVE IInv'
    OBVIOUS
  <1>2. CASE Converge
    BY <1>1, <1>2, ConvergeShape, ConvergeOther, ConvergeSnapped, ConvergeStarts, ConvergeCovers,
       ConvergePlaces DEF IInv
  <1>3. CASE Rollback
    BY <1>1, <1>3, RollbackShape, RollbackOther, RollbackSnapped, RollbackStarts, RollbackCovers,
       RollbackPlaces DEF IInv
  <1>4. CASE Uninstall
    BY <1>1, <1>4, UninstallShape, UninstallOther, UninstallSnapped, UninstallStarts,
       UninstallPlaces DEF IInv
  <1>5. CASE Small
    BY <1>1, <1>5, SmallStep
  <1>6. CASE \E k \in Kinds : Call(k)
    <2>1. PICK k \in Kinds : Start(Plan(k)) /\ asked' = asked
      BY <1>6 DEF Call
    <2>2. Plan(k).kind \in Kinds /\ Plan(k).rev \in Versions
      BY <1>1 DEF Plan, IInv, Shape
    <2>3. QED
      BY <1>1, <2>1, <2>2, Starting
  <1>7. CASE Confirmed
    BY <1>1, <1>7, Starting DEF Confirmed, IInv, Shape
  <1>8. CASE Declined
    BY <1>1, <1>8, Ending DEF Declined, unit, world, Leaving
  <1>9. CASE StepFails
    <2>1. cut' = cut => ~Leaving \/ cut \/ ~Rewrites
      BY <1>1, <1>9 DEF StepFails, Leaving, IInv, Shape
    <2>2. service' \in {service, FALSE}
      BY <1>9 DEF StepFails
    <2>3. QED
      BY <1>1, <1>9, <2>1, <2>2, Ending DEF StepFails
  <1>10. QED
    BY <1>1, <1>2, <1>3, <1>4, <1>5, <1>6, <1>7, <1>8, <1>9, OthersKeep DEF Next

(* The inductive invariant of Llama's manager.                             *)
THEOREM Invariance == Spec => []IInv
  BY InitInv, NextInv, PTL DEF Spec

(* What has been put into the roots and on the host is covered by a record *)
(* at every step and after every failure and kill.                         *)
THEOREM AlwaysCovered == Spec => []NothingIsOrphaned
  <1>1. IInv => NothingIsOrphaned
    BY DEF IInv
  <1>2. QED
    BY <1>1, Invariance, PTL

(* A snapshot taken of a whole installation is, and stays, whole and of the *)
(* version its marker names, however often an update is cut short.         *)
THEOREM SnapshotIsWhole == Spec => []RollbackGoesBack
  <1>1. IInv => RollbackGoesBack
    BY DEF IInv, Shape, Snapped, Snapshots, RollbackGoesBack
  <1>2. QED
    BY <1>1, Invariance, PTL

(* The server runs, or would start with the host, only where its unit,     *)
(* runtime, settings, model and account are.                               *)
THEOREM FilesAreThere == Spec => []ServiceHasItsFiles
  <1>1. IInv => ServiceHasItsFiles
    BY DEF IInv, Starts
  <1>2. QED
    BY <1>1, Invariance, PTL
=============================================================================
