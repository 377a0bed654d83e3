------------------------- MODULE ForgejoManager_proofs -------------------------
(***************************************************************************)
(* Three properties of Forgejo's manager, for any releases and any number  *)
(* of failures.                                                            *)
(*                                                                         *)
(* The runner never runs without its server: an operation stops the runner *)
(* first and leaves it stopped until the server is started again (Still);  *)
(* where it is started, the server runs or was not to run either           *)
(* (Started); and what is remembered of the services in a record, an       *)
(* archive or by the operation itself never has the runner without the     *)
(* server (Remembered).                                                    *)
(*                                                                         *)
(* The database is archived before it is replaced (Archived), and what is  *)
(* suspended stays down (SInv): a rollback may restore a suspension, for   *)
(* the archive says that nothing is started at boot (Archives, Copied).    *)
(***************************************************************************)
EXTENDS ForgejoManager, TLAPS

Fields == {"kind", "pc", "half", "rev", "boot", "safe", "server", "runner", "taken"}

Busy == op.kind # "none"

Shape ==
    /\ {"server", "runner"} \subseteq DOMAIN unit
    /\ unit.server \in BOOLEAN /\ unit.runner \in BOOLEAN
    /\ ~Busy => op = Idle
    /\ Busy => /\ op.kind \in Kinds /\ DOMAIN op = Fields
               /\ op.half \in BOOLEAN /\ op.server \in BOOLEAN /\ op.runner \in BOOLEAN

\* A record of what ran, if it is one.
Fair(r) ==
    r # None => r.server \in BOOLEAN /\ r.runner \in BOOLEAN /\ (r.runner => r.server)

Remembered ==
    /\ Busy => (op.runner => op.server)
    /\ Fair(suspended)
    /\ snapshot # None => Fair(snapshot.suspended)
    /\ op.kind = "suspend" => Fair(op.taken)
    /\ op.kind \in {"update", "rollback"} /\ op.taken # None => Fair(op.taken.suspended)
    /\ op.kind = "rollback" /\ op.pc # "preflight" => snapshot # None
    /\ op.kind = "resume" /\ op.pc # "preflight" => suspended # None

\* Where the runner has been stopped, and not started again.
StillPcs ==
    {"dump", "restart", "disable", "account", "layout", "transaction", "product", "host",
     "binary", "database", "app", "route", "migrate", "admin", "activate", "settle",
     "drop", "load", "remove etc", "remove state", "copy etc", "copy state", "runtime",
     "start"}

Still ==
    Busy /\ op.kind # "resume"
         /\ (op.pc \in StillPcs \/ (op.half /\ op.pc \in {"back up", "stop"}))
    => ~unit.runner

Started ==
    Busy =>
        /\ op.pc = "settle" => unit.server
        /\ op.pc = "restart" /\ op.half => (Restarts => unit.server)
        /\ op.kind = "rollback" /\ op.pc = "start" /\ op.half =>
              (snapshot.suspended = None => unit.server)
        /\ op.kind = "resume" /\ op.half => (suspended.server => unit.server)

IInv == Shape /\ Remembered /\ Still /\ Started /\ RunnerNeedsServer

-------------------------------------------------------------------------------
LEMMA InitInv == Init => IInv
  BY DEF Init, IInv, Shape, Busy, Idle, Remembered, Fair, Still, Started, RunnerNeedsServer

\* A step to p that touches neither the services nor what is remembered of them.
LEMMA GoesOn ==
  ASSUME IInv, Busy, NEW p, p # "settle",
         p \in StillPcs /\ op.kind # "resume" => op.pc \in StillPcs,
         op.kind = "rollback" => snapshot # None,
         op.kind = "resume" => suspended # None,
         op' = [op EXCEPT !.pc = p, !.half = FALSE],
         UNCHANGED <<unit, suspended, snapshot>>
  PROVE  IInv'
  <1>1. /\ DOMAIN op = Fields /\ op'.pc = p /\ op'.half = FALSE /\ DOMAIN op' = Fields
        /\ \A f \in Fields : f \notin {"pc", "half"} => op'[f] = op[f]
    BY DEF IInv, Shape, Fields
  <1>2. /\ op'.kind = op.kind /\ op'.server = op.server /\ op'.runner = op.runner
        /\ op'.taken = op.taken
    BY <1>1 DEF Fields
  <1>3. Shape'
    BY <1>1, <1>2 DEF IInv, Shape, Busy
  <1>4. Remembered'
    BY <1>1, <1>2 DEF IInv, Remembered, Busy
  <1>5. Still' /\ Started' /\ RunnerNeedsServer'
    BY <1>1, <1>2 DEF IInv, Still, Started, Busy, RunnerNeedsServer
  <1>6. QED
    BY <1>3, <1>4, <1>5 DEF IInv

\* A step with which the operation ends.
LEMMA Ends ==
  ASSUME IInv, op' = Idle, Fair(suspended'),
         snapshot' # None => Fair(snapshot'.suspended),
         {"server", "runner"} \subseteq DOMAIN unit',
         unit'.server \in BOOLEAN, unit'.runner \in BOOLEAN, unit'.runner => unit'.server
  PROVE  IInv'
  <1>1. op'.kind = "none"
    BY DEF Idle
  <1>2. QED
    BY <1>1 DEF IInv, Shape, Busy, Remembered, Still, Started, RunnerNeedsServer

\* The same, where the services change.
LEMMA GoesOnWith ==
  ASSUME IInv, Busy, NEW p, NEW h \in BOOLEAN, NEW u,
         op' = [op EXCEPT !.pc = p, !.half = h], unit' = u,
         UNCHANGED <<suspended, snapshot>>,
         op.kind = "rollback" => snapshot # None,
         op.kind = "resume" => suspended # None,
         {"server", "runner"} \subseteq DOMAIN u,
         u.server \in BOOLEAN, u.runner \in BOOLEAN, u.runner => u.server,
         op.kind # "resume" /\ (p \in StillPcs \/ (h /\ p \in {"back up", "stop"})) => ~u.runner,
         p = "settle" => u.server,
         p = "restart" /\ h => (Restarts => u.server),
         op.kind = "rollback" /\ p = "start" /\ h => (snapshot.suspended = None => u.server),
         op.kind = "resume" /\ h => (suspended.server => u.server)
  PROVE  IInv'
  <1>1. /\ DOMAIN op = Fields /\ op'.pc = p /\ op'.half = h /\ DOMAIN op' = Fields
        /\ \A f \in Fields : f \notin {"pc", "half"} => op'[f] = op[f]
    BY DEF IInv, Shape, Fields
  <1>2. /\ op'.kind = op.kind /\ op'.server = op.server /\ op'.runner = op.runner
        /\ op'.taken = op.taken
    BY <1>1 DEF Fields
  <1>3. Shape'
    BY <1>1, <1>2 DEF IInv, Shape, Busy
  <1>4. Remembered'
    BY <1>1, <1>2 DEF IInv, Remembered, Busy
  <1>5. Still' /\ RunnerNeedsServer'
    BY <1>1, <1>2 DEF IInv, Still, Busy, RunnerNeedsServer
  <1>6. Started'
    BY <1>1, <1>2 DEF IInv, Started, Busy, Restarts
  <1>7. QED
    BY <1>3, <1>4, <1>5, <1>6 DEF IInv

\* The same, where the runner may run from here on.
LEMMA RunnerRuns ==
  ASSUME IInv, Busy, NEW p, p \notin StillPcs,
         op' = [op EXCEPT !.pc = p, !.half = FALSE],
         UNCHANGED <<suspended, snapshot>>,
         op.kind = "rollback" => snapshot # None,
         op.kind = "resume" => suspended # None,
         {"server", "runner"} \subseteq DOMAIN unit',
         unit'.server \in BOOLEAN, unit'.runner \in BOOLEAN, unit'.runner => unit'.server
  PROVE  IInv'
  <1>1. p # "settle"
    BY DEF StillPcs
  <1>2. QED
    BY <1>1, GoesOnWith

-------------------------------------------------------------------------------
(* Stopping, and the backup.                                               *)

LEMMA StopsFirst == ASSUME IInv, BeginStop PROVE IInv'
  <1>1. /\ Busy /\ op.pc \in {"back up", "stop"} /\ op.kind # "resume"
        /\ op' = [op EXCEPT !.half = TRUE, !.server = unit.server, !.runner = unit.runner]
        /\ unit' = [unit EXCEPT !.runner = FALSE]
        /\ UNCHANGED <<suspended, snapshot>>
    BY DEF BeginStop, In, Busy, BacksUp, Stops, Converges, Uninstalls, FirstStopped, records
  <1>2. /\ op'.pc = op.pc /\ op'.kind = op.kind /\ op'.half = TRUE /\ op'.taken = op.taken
        /\ op'.server = unit.server /\ op'.runner = unit.runner /\ DOMAIN op' = Fields
    BY <1>1 DEF IInv, Shape, Fields
  <1>3. /\ unit'.server = unit.server /\ unit'.runner = FALSE
        /\ DOMAIN unit' = DOMAIN unit
    BY <1>1 DEF IInv, Shape
  <1>4. Shape'
    BY <1>1, <1>2, <1>3 DEF IInv, Shape, Busy
  <1>5. Remembered'
    BY <1>1, <1>2, <1>3 DEF IInv, Remembered, Busy, RunnerNeedsServer
  <1>6. Still' /\ Started' /\ RunnerNeedsServer'
    BY <1>1, <1>2, <1>3 DEF IInv, Still, Started, Busy, RunnerNeedsServer
  <1>7. QED
    BY <1>4, <1>5, <1>6 DEF IInv

LEMMA StopsBoth == ASSUME IInv, EndStop PROVE IInv'
  <1>1. /\ Busy /\ op.pc \in {"back up", "stop"} /\ op.kind # "resume"
        /\ op' = [op EXCEPT !.pc = AfterStop, !.half = FALSE, !.kind = AfterAll]
        /\ unit' = [unit EXCEPT !.server = FALSE, !.runner = FALSE]
        /\ UNCHANGED <<suspended, snapshot>>
    BY DEF EndStop, Halfway, Busy, BacksUp, Stops, Converges, Uninstalls, records
  <1>2. /\ op'.pc = AfterStop /\ op'.kind = AfterAll /\ op'.half = FALSE
        /\ op'.taken = op.taken /\ op'.server = op.server /\ op'.runner = op.runner
        /\ DOMAIN op' = Fields
    BY <1>1 DEF IInv, Shape, Fields
  <1>3. /\ unit'.server = FALSE /\ unit'.runner = FALSE /\ DOMAIN unit' = DOMAIN unit
    BY <1>1 DEF IInv, Shape
  <1>4. AfterStop # "settle" /\ AfterStop # "restart"
    BY <1>1 DEF AfterStop
  <1>5. /\ AfterAll \in Kinds /\ AfterAll # "none" /\ AfterAll # "resume"
        /\ AfterAll \in {op.kind, "install"}
    BY <1>1 DEF AfterAll, IInv, Shape, Busy, Kinds, Converges
  <1>6. Shape'
    BY <1>1, <1>2, <1>3, <1>5 DEF IInv, Shape, Busy
  <1>7. Remembered'
    BY <1>1, <1>2, <1>3, <1>5 DEF IInv, Remembered, Busy
  <1>8. Still' /\ Started' /\ RunnerNeedsServer'
    BY <1>1, <1>2, <1>3, <1>4, <1>5 DEF Still, Started, Busy, RunnerNeedsServer
  <1>9. QED
    BY <1>6, <1>7, <1>8 DEF IInv

LEMMA BackUpKeeps == ASSUME IInv, BackUp PROVE IInv'
  <1>. USE DEF records
  <1>1. CASE Dump
    <2>1. /\ Busy /\ op.pc = "dump" /\ op.kind \in BacksUp
          /\ \E t \in {None, Archive}, f \in {Dumped} :
                op' = [op EXCEPT !.taken = t, !.pc = "restart", !.safe = f]
          /\ ~op.half /\ UNCHANGED <<unit, suspended, snapshot>>
      BY <1>1 DEF Dump, In, Busy, BacksUp
    <2>2. PICK t \in {None, Archive}, f \in {Dumped} :
             op' = [op EXCEPT !.taken = t, !.pc = "restart", !.safe = f]
      BY <2>1
    <2>3. /\ op'.pc = "restart" /\ op'.kind = op.kind /\ op'.half = op.half /\ op'.taken = t
          /\ op'.server = op.server /\ op'.runner = op.runner /\ DOMAIN op' = Fields
      BY <2>1, <2>2 DEF IInv, Shape, Fields
    <2>4. t # None => Fair(t.suspended)
      BY DEF Archive, IInv, Remembered
    <2>5. Shape'
      BY <2>1, <2>3 DEF IInv, Shape, Busy
    <2>6. Remembered'
      BY <2>1, <2>3, <2>4 DEF IInv, Remembered, Busy, BacksUp
    <2>7. Still' /\ Started' /\ RunnerNeedsServer'
      BY <2>1, <2>3 DEF IInv, Still, StillPcs, Started, Busy, BacksUp, RunnerNeedsServer
    <2>8. QED
      BY <2>5, <2>6, <2>7 DEF IInv
  <1>2. CASE RestartServer
    <2>1. /\ Busy /\ op.pc = "restart" /\ op.kind \in BacksUp
          /\ op' = [op EXCEPT !.half = TRUE]
          /\ unit' = [unit EXCEPT !.server = @ \/ Restarts]
          /\ UNCHANGED <<suspended, snapshot>>
      BY <1>2 DEF RestartServer, In, Busy, BacksUp, GoHalfway
    <2>2. ~unit.runner
      BY <2>1 DEF IInv, Still, StillPcs, BacksUp
    <2>3. op' = [op EXCEPT !.pc = "restart", !.half = TRUE]
      BY <2>1 DEF IInv, Shape
    <2>4. /\ {"server", "runner"} \subseteq DOMAIN unit'
          /\ unit'.server \in BOOLEAN /\ (Restarts => unit'.server) /\ unit'.runner = unit.runner
      BY <2>1 DEF IInv, Shape
    <2>5. /\ unit'.runner \in BOOLEAN /\ ~unit'.runner
          /\ op.kind = "rollback" => snapshot # None
          /\ op.kind # "resume"
      BY <2>1, <2>2, <2>4 DEF BacksUp, IInv, Remembered, Shape
    <2>6. QED
      BY <2>1, <2>3, <2>4, <2>5, GoesOnWith
  <1>3. CASE RestartRunner
    <2>1. /\ Busy /\ op.pc = "restart" /\ op.half /\ op.kind \in BacksUp
          /\ unit' = [unit EXCEPT !.runner = Restarts /\ op.runner]
          /\ UNCHANGED <<suspended, snapshot>>
          /\ \/ op' = Idle
             \/ \E p \in {"record", "stop"} : op' = [op EXCEPT !.pc = p, !.half = FALSE]
      BY <1>3 DEF RestartRunner, Halfway, Busy, BacksUp, Goto
    <2>2. (Restarts /\ op.runner) \in BOOLEAN
      OBVIOUS
    <2>3. /\ {"server", "runner"} \subseteq DOMAIN unit'
          /\ unit'.server = unit.server /\ unit'.runner = (Restarts /\ op.runner)
          /\ unit'.runner \in BOOLEAN /\ unit.server \in BOOLEAN
      BY <2>1, <2>2 DEF IInv, Shape
    <2>4. unit'.runner => unit'.server
      BY <2>1, <2>3 DEF IInv, Started
    <2>5. CASE op' = Idle
      BY <2>1, <2>3, <2>4, <2>5, Ends DEF IInv, Remembered
    <2>6. ASSUME NEW p \in {"record", "stop"}, op' = [op EXCEPT !.pc = p, !.half = FALSE]
          PROVE  IInv'
      BY <2>1, <2>3, <2>4, <2>6, GoesOnWith DEF BacksUp, IInv, Remembered, StillPcs
    <2>7. QED
      BY <2>1, <2>5, <2>6
  <1>4. CASE RecordSnapshot
    <2>1. /\ Busy /\ op.pc = "record" /\ ~op.half /\ op.kind = "update"
          /\ op' = [op EXCEPT !.pc = "stop", !.taken = None]
          /\ snapshot' = op.taken /\ UNCHANGED <<unit, suspended>>
      BY <1>4 DEF RecordSnapshot, In, Busy
    <2>2. /\ op'.pc = "stop" /\ op'.kind = "update" /\ op'.half = op.half /\ op'.taken = None
          /\ op'.server = op.server /\ op'.runner = op.runner /\ DOMAIN op' = Fields
      BY <2>1 DEF IInv, Shape, Fields
    <2>3. Shape' /\ Remembered'
      BY <2>1, <2>2 DEF IInv, Shape, Remembered, Busy
    <2>4. Still' /\ Started' /\ RunnerNeedsServer'
      BY <2>1, <2>2 DEF IInv, Still, StillPcs, Started, Busy, RunnerNeedsServer
    <2>5. QED
      BY <2>3, <2>4 DEF IInv
  <1>5. QED
    BY <1>1, <1>2, <1>3, <1>4 DEF BackUp

-------------------------------------------------------------------------------
(* install, repair and update.                                             *)

\* The steps of an operation that only go on, from one place to the next.
LEMMA ConvergeGoesOn ==
  ASSUME IInv, Busy, op.kind \in Converges, UNCHANGED <<unit, suspended, snapshot>>,
         NEW p \in {"back up", "pre-install", "stop", "layout", "transaction", "product", "host",
                    "binary", "database", "app", "route", "migrate", "admin", "activate",
                    "marker", "pending"},
         p \in StillPcs => op.pc \in StillPcs,
         op' = [op EXCEPT !.pc = p, !.half = FALSE]
  PROVE  IInv'
  BY GoesOn DEF Converges

LEMMA ConvergeKeeps == ASSUME IInv, Converge PROVE IInv'
  <1>. USE DEF records
  <1>1. CASE \/ Preflight \/ PreInstallBackup \/ EnsureAccount \/ EnsureLayout
             \/ EnsureTransaction \/ ProductIsCurrent \/ PlaceProduct \/ InstallAssets
             \/ InstallBinary \/ ConfigureDatabase \/ WriteConfiguration \/ ConfigureCaddy
             \/ Migrate \/ EnsureAdmin \/ ForgetRetained \/ WriteMarker
    <2>1. Busy /\ op.kind \in Converges /\ UNCHANGED <<unit, suspended, snapshot>>
      BY <1>1
      DEF Preflight, PreInstallBackup, EnsureAccount, EnsureLayout, EnsureTransaction,
          ProductIsCurrent, PlaceProduct, InstallAssets, InstallBinary, ConfigureDatabase,
          WriteConfiguration, ConfigureCaddy, Migrate, EnsureAdmin, ForgetRetained,
          WriteMarker, In, Halfway, Busy, Converges
    <2>2. CASE Preflight \/ PreInstallBackup \/ ForgetRetained \/ WriteMarker
      <3>1. \E p \in {"back up", "pre-install", "stop", "marker", "pending"} :
               op' = [op EXCEPT !.pc = p, !.half = FALSE]
        BY <2>2 DEF Preflight, PreInstallBackup, ForgetRetained, WriteMarker, Goto
      <3>2. QED
        BY <2>1, <3>1, ConvergeGoesOn DEF StillPcs
    <2>3. CASE \/ EnsureAccount \/ EnsureLayout \/ EnsureTransaction \/ ProductIsCurrent
               \/ PlaceProduct \/ InstallAssets \/ InstallBinary \/ ConfigureDatabase
               \/ WriteConfiguration \/ ConfigureCaddy \/ Migrate \/ EnsureAdmin
      <3>1. op.pc \in StillPcs
        BY <2>3
        DEF EnsureAccount, EnsureLayout, EnsureTransaction, ProductIsCurrent, PlaceProduct,
            InstallAssets, InstallBinary, ConfigureDatabase, WriteConfiguration,
            ConfigureCaddy, Migrate, EnsureAdmin, In, Halfway, StillPcs
      <3>2. \E p \in {"layout", "transaction", "product", "host", "binary", "database",
                      "app", "route", "migrate", "admin", "activate"} :
               op' = [op EXCEPT !.pc = p, !.half = FALSE]
        BY <2>3
        DEF EnsureAccount, EnsureLayout, EnsureTransaction, ProductIsCurrent, PlaceProduct,
            InstallAssets, InstallBinary, ConfigureDatabase, WriteConfiguration,
            ConfigureCaddy, Migrate, EnsureAdmin, Goto
      <3>3. QED
        BY <2>1, <3>1, <3>2, ConvergeGoesOn
    <2>4. QED
      BY <1>1, <2>2, <2>3
  <1>2. CASE MoveProduct
    <2>1. /\ Busy /\ op.kind \in Converges /\ op.pc = "product"
          /\ op' = [op EXCEPT !.half = TRUE] /\ UNCHANGED <<unit, suspended, snapshot>>
      BY <1>2 DEF MoveProduct, In, Busy, Converges, GoHalfway
    <2>2. op' = [op EXCEPT !.pc = "product", !.half = TRUE]
      BY <2>1 DEF IInv, Shape
    <2>3. ~unit.runner /\ op.kind \notin {"rollback", "resume"}
      BY <2>1 DEF IInv, Still, StillPcs, Converges
    <2>4. QED
      BY <2>1, <2>2, <2>3, GoesOnWith DEF IInv, Shape
  <1>3. CASE Activate
    <2>1. /\ Busy /\ op.kind \in Converges /\ op.pc = "activate"
          /\ op' = [op EXCEPT !.pc = "settle", !.half = FALSE]
          /\ unit' = [unit EXCEPT !.boot = op.boot, !.server = TRUE]
          /\ UNCHANGED <<suspended, snapshot>>
      BY <1>3 DEF Activate, In, Busy, Converges, Goto
    <2>2. ~unit.runner /\ op.kind \notin {"rollback", "resume"}
      BY <2>1 DEF IInv, Still, StillPcs, Converges
    <2>3. /\ {"server", "runner"} \subseteq DOMAIN unit'
          /\ unit'.server = TRUE /\ unit'.runner = unit.runner /\ unit.runner \in BOOLEAN
      BY <2>1 DEF IInv, Shape
    <2>4. QED
      BY <2>1, <2>2, <2>3, GoesOnWith
  <1>4. CASE SettleServices
    <2>1. /\ Busy /\ op.kind \in Converges /\ op.pc = "settle"
          /\ op' = [op EXCEPT !.pc = "retained", !.half = FALSE]
          /\ unit' \in {Off(unit), [unit EXCEPT !.runner = op.runner]}
          /\ UNCHANGED <<suspended, snapshot>>
      BY <1>4 DEF SettleServices, Enforced, In, Busy, Converges, Goto
    <2>2. unit.server = TRUE /\ op.kind \notin {"rollback", "resume"} /\ op.runner \in BOOLEAN
      BY <2>1 DEF IInv, Shape, Started, Converges
    <2>3. /\ {"server", "runner"} \subseteq DOMAIN unit'
          /\ unit'.server \in BOOLEAN /\ unit'.runner \in BOOLEAN
          /\ unit'.runner => unit'.server
      BY <2>1, <2>2 DEF Off, IInv, Shape
    <2>4. "retained" \notin StillPcs
      BY DEF StillPcs
    <2>5. QED
      BY <2>1, <2>2, <2>3, <2>4, RunnerRuns
  <1>5. CASE ForgetPending
    BY <1>5, Ends DEF ForgetPending, IInv, Shape, Remembered, RunnerNeedsServer
  <1>6. QED
    BY <1>1, <1>2, <1>3, <1>4, <1>5 DEF Converge

-------------------------------------------------------------------------------
(* rollback.                                                               *)

LEMMA RollbackKeeps == ASSUME IInv, Rollback PROVE IInv'
  <1>. USE DEF records
  <1>1. CASE \/ RollbackPreflight \/ DropDatabase \/ LoadDatabase \/ RemoveConfiguration
             \/ CopyConfiguration \/ RestoreRuntime
    <2>1. /\ Busy /\ op.kind = "rollback" /\ UNCHANGED <<unit, suspended, snapshot>>
          /\ snapshot # None
      BY <1>1
      DEF RollbackPreflight, DropDatabase, LoadDatabase, RemoveConfiguration,
          CopyConfiguration, RestoreRuntime, In, Busy, RollbackAccepted, IInv, Remembered
    <2>2. \E p \in {"back up", "load", "remove etc", "remove state", "copy state", "start"} :
             /\ op' = [op EXCEPT !.pc = p, !.half = FALSE]
             /\ p \in StillPcs => op.pc \in StillPcs
      BY <1>1
      DEF RollbackPreflight, DropDatabase, LoadDatabase, RemoveConfiguration,
          CopyConfiguration, RestoreRuntime, In, Goto, StillPcs
    <2>3. QED
      BY <2>1, <2>2, GoesOn
  <1>2. CASE RemoveRecords \/ CopyRecords
    <2>1. /\ Busy /\ op.kind = "rollback" /\ op.pc \in StillPcs /\ UNCHANGED <<unit, snapshot>>
          /\ suspended' \in {None, snapshot.suspended} /\ snapshot # None
          /\ \E p \in {"copy etc", "runtime"} : op' = [op EXCEPT !.pc = p, !.half = FALSE]
      BY <1>2 DEF RemoveRecords, CopyRecords, In, Busy, Goto, StillPcs, IInv, Remembered
    <2>2. PICK p \in {"copy etc", "runtime"} : op' = [op EXCEPT !.pc = p, !.half = FALSE]
      BY <2>1
    <2>3. /\ op'.pc = p /\ op'.half = FALSE /\ op'.kind = "rollback" /\ op'.taken = op.taken
          /\ op'.server = op.server /\ op'.runner = op.runner /\ DOMAIN op' = Fields
      BY <2>1, <2>2 DEF IInv, Shape, Fields
    <2>4. Shape' /\ Remembered'
      BY <2>1, <2>3 DEF IInv, Shape, Remembered, Busy, Fair
    <2>5. Still' /\ Started' /\ RunnerNeedsServer'
      BY <2>1, <2>3 DEF IInv, Still, Started, Busy, RunnerNeedsServer
    <2>6. QED
      BY <2>4, <2>5 DEF IInv
  <1>3. CASE StartServer
    <2>1. /\ Busy /\ op.kind = "rollback" /\ op.pc = "start"
          /\ op' = [op EXCEPT !.half = TRUE]
          /\ unit' = [unit EXCEPT !.server = snapshot.suspended = None, !.boot = snapshot.boot]
          /\ UNCHANGED <<suspended, snapshot>>
      BY <1>3 DEF StartServer, StartedAfter, In, Busy, GoHalfway
    <2>2. ~unit.runner /\ unit.runner \in BOOLEAN /\ snapshot # None
      BY <2>1 DEF IInv, Shape, Still, StillPcs, Remembered
    <2>3. op' = [op EXCEPT !.pc = "start", !.half = TRUE]
      BY <2>1 DEF IInv, Shape
    <2>4. (snapshot.suspended = None) \in BOOLEAN
      OBVIOUS
    <2>5. /\ {"server", "runner"} \subseteq DOMAIN unit'
          /\ unit'.server = (snapshot.suspended = None) /\ unit'.runner = unit.runner
          /\ unit'.server \in BOOLEAN
      BY <2>1, <2>4 DEF IInv, Shape
    <2>6. QED
      BY <2>1, <2>2, <2>3, <2>5, GoesOnWith
  <1>4. CASE StartRunner
    <2>1. /\ Busy /\ op.kind = "rollback" /\ op.pc = "start" /\ op.half
          /\ op' = [op EXCEPT !.pc = "record", !.half = FALSE]
          /\ unit' = [unit EXCEPT !.runner = op.runner /\ snapshot.suspended = None]
          /\ UNCHANGED <<suspended, snapshot>>
      BY <1>4 DEF StartRunner, Halfway, Busy, Goto
    <2>2. (op.runner /\ snapshot.suspended = None) \in BOOLEAN
      OBVIOUS
    <2>3. /\ {"server", "runner"} \subseteq DOMAIN unit'
          /\ unit'.server = unit.server /\ unit.server \in BOOLEAN
          /\ unit'.runner = (op.runner /\ snapshot.suspended = None)
          /\ unit'.runner \in BOOLEAN
      BY <2>1, <2>2 DEF IInv, Shape
    <2>4. unit'.runner => unit'.server
      BY <2>1, <2>3 DEF IInv, Started
    <2>5. snapshot # None /\ "record" \notin StillPcs
      BY <2>1 DEF IInv, Remembered, StillPcs
    <2>6. QED
      BY <2>1, <2>3, <2>4, <2>5, RunnerRuns
  <1>5. CASE RecordReverse
    <2>1. op.kind = "rollback" /\ op' = Idle /\ snapshot' = op.taken /\ UNCHANGED <<unit, suspended>>
      BY <1>5 DEF RecordReverse, In
    <2>2. QED
      BY <2>1, Ends DEF IInv, Shape, Remembered, RunnerNeedsServer
  <1>6. QED
    BY <1>1, <1>2, <1>3, <1>4, <1>5 DEF Rollback

-------------------------------------------------------------------------------
(* suspend, resume and uninstall.                                          *)

LEMMA SmallKeeps == ASSUME IInv, Small PROVE IInv'
  <1>. USE DEF records
  <1>1. CASE BackupPreflight
    <2>1. /\ Busy /\ op.kind = "backup" /\ UNCHANGED <<unit, suspended, snapshot>>
          /\ op' = [op EXCEPT !.pc = "back up", !.half = FALSE]
      BY <1>1 DEF BackupPreflight, In, Busy, Goto
    <2>2. QED
      BY <2>1, GoesOn DEF StillPcs
  <1>2. CASE SuspendAgain
    <2>1. /\ op' = Idle /\ unit' = Off(unit) /\ UNCHANGED <<suspended, snapshot>>
      BY <1>2 DEF SuspendAgain
    <2>2. {"server", "runner"} \subseteq DOMAIN unit' /\ unit'.server = FALSE /\ unit'.runner = FALSE
      BY <2>1 DEF Off, IInv, Shape
    <2>3. QED
      BY <2>1, <2>2, Ends DEF IInv, Remembered
  <1>3. CASE RecordIntents
    <2>. DEFINE r == [server |-> unit.server, runner |-> unit.runner,
                      boot |-> unit.boot, runnerBoot |-> unit.runnerBoot]
    <2>1. /\ Busy /\ op.kind = "suspend" /\ op.pc = "preflight" /\ ~op.half
          /\ op' = [op EXCEPT !.pc = "stop", !.taken = r]
          /\ UNCHANGED <<unit, suspended, snapshot>>
      BY <1>3 DEF RecordIntents, In, Busy
    <2>2. Fair(r)
      BY DEF Fair, IInv, Shape, RunnerNeedsServer
    <2>. HIDE DEF r
    <2>3. /\ op'.pc = "stop" /\ op'.half = op.half /\ op'.kind = "suspend" /\ op'.taken = r
          /\ op'.server = op.server /\ op'.runner = op.runner /\ DOMAIN op' = Fields
      BY <2>1 DEF IInv, Shape, Fields
    <2>4. Shape' /\ Remembered'
      BY <2>1, <2>2, <2>3 DEF IInv, Shape, Remembered, Busy
    <2>5. Still' /\ Started' /\ RunnerNeedsServer'
      BY <2>1, <2>3 DEF IInv, Still, StillPcs, Started, Busy, RunnerNeedsServer
    <2>6. QED
      BY <2>4, <2>5 DEF IInv
  <1>4. CASE Disable
    <2>1. /\ Busy /\ op.kind \in Uninstalls \cup {"suspend"} /\ op.pc = "disable"
          /\ unit' \in {Off(unit), [unit EXCEPT !.boot = FALSE]}
          /\ UNCHANGED <<suspended, snapshot>>
      BY <1>4 DEF Disable, In, Busy, Uninstalls
    <2>2. PICK p \in {"suspended", "route", "drop"} : op' = [op EXCEPT !.pc = p, !.half = FALSE]
      <3>1. CASE op.kind \in {"suspend", "retain"}
        BY <1>4, <3>1 DEF Disable, Goto
      <3>2. CASE op.kind \notin {"suspend", "retain"}
        BY <1>4, <3>2 DEF Disable, Goto
      <3>3. QED
        BY <3>1, <3>2
    <2>3. ~unit.runner /\ op.kind \notin {"rollback", "resume"}
      BY <2>1 DEF IInv, Still, StillPcs, Uninstalls
    <2>4. /\ {"server", "runner"} \subseteq DOMAIN unit'
          /\ unit'.server \in BOOLEAN /\ unit'.runner \in BOOLEAN /\ ~unit'.runner
      BY <2>1, <2>3 DEF Off, IInv, Shape
    <2>5. p # "settle" /\ p # "restart"
      BY <2>2
    <2>6. QED
      BY <2>1, <2>2, <2>3, <2>4, <2>5, GoesOnWith
  <1>5. CASE Suspend
    <2>1. op.kind = "suspend" /\ op' = Idle /\ suspended' = op.taken /\ UNCHANGED <<unit, snapshot>>
      BY <1>5 DEF Suspend, In
    <2>2. QED
      BY <2>1, Ends DEF IInv, Shape, Remembered, RunnerNeedsServer
  <1>6. CASE ResumePreflight
    <2>1. Busy /\ op.kind = "resume" /\ UNCHANGED <<unit, suspended, snapshot>>
      BY <1>6 DEF ResumePreflight, In, Busy
    <2>2. CASE suspended = None
      BY <1>6, <2>1, <2>2, Ends
      DEF ResumePreflight, IInv, Shape, Remembered, RunnerNeedsServer
    <2>3. CASE suspended # None
      <3>1. op' = [op EXCEPT !.pc = "start", !.half = FALSE]
        BY <1>6, <2>3 DEF ResumePreflight, Goto
      <3>2. QED
        BY <2>1, <2>3, <3>1, GoesOn
    <2>4. QED
      BY <2>2, <2>3
  <1>7. CASE ResumeServer
    <2>1. /\ Busy /\ op.kind = "resume" /\ op.pc = "start" /\ op' = [op EXCEPT !.half = TRUE]
          /\ unit' = [unit EXCEPT !.boot = suspended.boot,
                                  !.server = unit.server \/ suspended.server,
                                  !.runnerBoot = unit.installed /\ suspended.runnerBoot]
          /\ UNCHANGED <<suspended, snapshot>>
      BY <1>7 DEF ResumeServer, In, Busy, GoHalfway, IInv, Shape
    <2>2. op' = [op EXCEPT !.pc = "start", !.half = TRUE]
      BY <2>1 DEF IInv, Shape
    <2>3. (unit.server \/ suspended.server) \in BOOLEAN /\ suspended # None
      BY <2>1 DEF IInv, Remembered
    <2>4. /\ {"server", "runner"} \subseteq DOMAIN unit'
          /\ unit'.server = (unit.server \/ suspended.server) /\ unit'.runner = unit.runner
          /\ unit'.server \in BOOLEAN /\ unit'.runner \in BOOLEAN
      BY <2>1, <2>3 DEF IInv, Shape
    <2>5. (unit'.runner => unit'.server) /\ (suspended.server => unit'.server)
      BY <2>4 DEF IInv, RunnerNeedsServer
    <2>6. /\ op'.pc = "start" /\ op'.half = TRUE /\ op'.kind = "resume" /\ op'.taken = op.taken
          /\ op'.server = op.server /\ op'.runner = op.runner /\ DOMAIN op' = Fields
      BY <2>1, <2>2 DEF IInv, Shape, Fields
    <2>7. Shape' /\ Remembered'
      BY <2>1, <2>3, <2>4, <2>6 DEF IInv, Shape, Remembered, Busy
    <2>8. Still' /\ Started' /\ RunnerNeedsServer'
      BY <2>1, <2>5, <2>6 DEF Still, Started, Busy, RunnerNeedsServer
    <2>9. QED
      BY <2>7, <2>8 DEF IInv
  <1>8. CASE ResumeRunner
    <2>1. /\ Busy /\ op.kind = "resume" /\ op.pc = "start" /\ op.half
          /\ op' = [op EXCEPT !.pc = "forget", !.half = FALSE]
          /\ unit' = [unit EXCEPT !.runner = unit.runner \/ suspended.runner]
          /\ UNCHANGED <<suspended, snapshot>>
      BY <1>8 DEF ResumeRunner, Halfway, Busy, Goto, IInv, Shape
    <2>2. (unit.runner \/ suspended.runner) \in BOOLEAN /\ suspended # None
      BY <2>1 DEF IInv, Remembered
    <2>3. /\ {"server", "runner"} \subseteq DOMAIN unit'
          /\ unit'.runner = (unit.runner \/ suspended.runner) /\ unit'.server = unit.server
          /\ unit'.server \in BOOLEAN /\ unit'.runner \in BOOLEAN
      BY <2>1, <2>2 DEF IInv, Shape
    <2>4. unit'.runner => unit'.server
      BY <2>1, <2>2, <2>3 DEF IInv, Remembered, Fair, Started, RunnerNeedsServer
    <2>5. "forget" \notin StillPcs
      BY DEF StillPcs
    <2>6. QED
      BY <2>1, <2>2, <2>3, <2>4, <2>5, RunnerRuns
  <1>9. CASE Resume
    <2>1. op' = Idle /\ suspended' = None /\ UNCHANGED <<unit, snapshot>>
      BY <1>9 DEF Resume
    <2>2. QED
      BY <2>1, Ends DEF IInv, Shape, Remembered, Fair, RunnerNeedsServer
  <1>10. QED
    BY <1>1, <1>2, <1>3, <1>4, <1>5, <1>6, <1>7, <1>8, <1>9 DEF Small

LEMMA UninstallKeeps == ASSUME IInv, Uninstall PROVE IInv'
  <1>. USE DEF records
  <1>1. CASE \/ UninstallPreflight \/ (DropData /\ op' # op) \/ RemoveHost
             \/ PurgeConfiguration \/ PurgeBackups
    <2>1. /\ Busy /\ op.kind \in Uninstalls /\ UNCHANGED <<unit, suspended, snapshot>>
      BY <1>1
      DEF UninstallPreflight, DropData, RemoveHost, PurgeConfiguration, PurgeBackups, In, Busy,
          Uninstalls
    <2>2. PICK p \in {"stop", "route", "opt", "state", "user"} :
             /\ op' = [op EXCEPT !.pc = p, !.half = FALSE]
             /\ p \in StillPcs => op.pc \in StillPcs
      BY <1>1
      DEF UninstallPreflight, DropData, RemoveHost, PurgeConfiguration, PurgeBackups, In, Goto,
          StillPcs
    <2>3. op.kind \notin {"rollback", "resume"} /\ p # "settle"
      BY <2>1, <2>2 DEF Uninstalls
    <2>4. QED
      BY <2>1, <2>2, <2>3, GoesOn
  <1>2. CASE DropData /\ op' = op
    <2>1. UNCHANGED <<unit, suspended, snapshot, op>>
      BY <1>2 DEF DropData
    <2>2. Shape' /\ Remembered' /\ RunnerNeedsServer'
      BY <2>1 DEF IInv, Shape, Busy, Remembered, RunnerNeedsServer
    <2>3. Still'
      BY <2>1 DEF IInv, Still, Busy
    <2>4. Started'
      BY <2>1 DEF IInv, Started, Busy, Restarts
    <2>5. QED
      BY <2>2, <2>3, <2>4 DEF IInv
  <1>3. CASE RemoveInstallRoot \/ PurgeState
    <2>1. /\ Busy /\ op.kind \in Uninstalls /\ UNCHANGED unit
          /\ snapshot' \in {None, snapshot} /\ suspended' \in {None, suspended}
      BY <1>3 DEF RemoveInstallRoot, PurgeState, In, Busy, Uninstalls
    <2>2. PICK p \in {"retain", "etc", "backups"} : op' = [op EXCEPT !.pc = p, !.half = FALSE]
      BY <1>3 DEF RemoveInstallRoot, PurgeState, Goto
    <2>3. /\ op'.pc = p /\ op'.half = FALSE /\ op'.kind = op.kind /\ op'.taken = op.taken
          /\ op'.server = op.server /\ op'.runner = op.runner /\ DOMAIN op' = Fields
      BY <2>1, <2>2 DEF IInv, Shape, Fields
    <2>4. Shape' /\ Remembered'
      BY <2>1, <2>3 DEF IInv, Shape, Remembered, Busy, Fair, Uninstalls
    <2>5. Still' /\ Started' /\ RunnerNeedsServer'
      BY <2>1, <2>2, <2>3
      DEF IInv, Still, StillPcs, Started, Busy, Uninstalls, RunnerNeedsServer
    <2>6. QED
      BY <2>4, <2>5 DEF IInv
  <1>4. CASE Retain \/ RemoveAccount
    BY <1>4, Ends DEF Retain, RemoveAccount, IInv, Shape, Remembered, RunnerNeedsServer
  <1>5. QED
    BY <1>1, <1>2, <1>3, <1>4 DEF Uninstall

-------------------------------------------------------------------------------
(* Failures and the rest.                                                  *)

\* Services of which the runner does not run alone.
Sane(u) ==
    /\ {"server", "runner"} \subseteq DOMAIN u
    /\ u.server \in BOOLEAN /\ u.runner \in BOOLEAN /\ (u.runner => u.server)

LEMMA AgainIsSane ==
  ASSUME NEW u, {"server", "runner"} \subseteq DOMAIN u, op.runner \in BOOLEAN,
         NEW w \in Again(u)
  PROVE  Sane(w)
  <1>1. \/ w.server = FALSE /\ w.runner = FALSE
        \/ w.server = TRUE /\ w.runner \in {FALSE, op.runner}
    BY DEF Again
  <1>2. DOMAIN w = DOMAIN u
    BY DEF Again
  <1>3. QED
    BY <1>1, <1>2 DEF Sane

LEMMA UnansweredIsSane ==
  ASSUME NEW u, Sane(u), ~u.runner, NEW w \in Unanswered(u)
  PROVE  Sane(w)
  BY DEF Unanswered, Sane

LEMMA FailureKeeps == ASSUME IInv, StepFails PROVE IInv'
  <1>. USE DEF records
  <1>1. /\ Busy /\ op' = Idle /\ UNCHANGED <<suspended, snapshot>>
    BY DEF StepFails, IInv, Shape
  <1>2. Sane(unit) /\ op.runner \in BOOLEAN
    BY <1>1 DEF IInv, Shape, RunnerNeedsServer, Sane
  <1>3. Sane(Off(unit))
    BY <1>2 DEF Off, Sane
  <1>4. op.kind # "resume" => \A w \in Recovered(unit) : Sane(w)
    <2>1. SUFFICES ASSUME op.kind # "resume", NEW w \in Recovered(unit) PROVE Sane(w)
      OBVIOUS
    <2>2. op.pc = "settle" => ~unit.runner
      BY <1>1, <2>1 DEF IInv, Still, StillPcs
    <2>3. CASE suspended # None
      BY <1>3, <2>3 DEF Recovered, RecoveredSuspension, Enforced
    <2>4. CASE suspended = None /\ ~(op.server /\ Present("host"))
      <3>1. w = unit \/ (op.pc = "settle" /\ w \in Unanswered(unit))
        BY <2>4 DEF Recovered
      <3>2. QED
        BY <1>2, <2>2, <3>1, UnansweredIsSane
    <2>5. CASE suspended = None /\ op.server /\ Present("host")
      <3>1. PICK u \in {unit} \cup Unanswered(unit) : w \in Again(u)
        BY <2>5 DEF Recovered
      <3>2. {"server", "runner"} \subseteq DOMAIN u
        BY <1>2, <3>1 DEF Unanswered, Sane
      <3>3. QED
        BY <1>2, <3>1, <3>2, AgainIsSane
    <2>6. QED
      BY <2>3, <2>4, <2>5
  <1>5. Sane(unit')
    <2>1. CASE op.kind = "resume"
      BY <1>3, <2>1 DEF StepFails
    <2>2. CASE op.kind # "resume" /\ op.kind \in Converges /\ op.pc \notin PcOfBackup
      BY <1>4, <2>2 DEF StepFails
    <2>3. CASE op.kind # "resume" /\ ~(op.kind \in Converges /\ op.pc \notin PcOfBackup)
               /\ op.pc = "dump" /\ Restarts
      <3>1. unit' \in Again(unit)
        BY <2>3 DEF StepFails
      <3>2. QED
        BY <1>2, <3>1, AgainIsSane DEF Sane
    <2>4. CASE op.kind # "resume" /\ ~(op.kind \in Converges /\ op.pc \notin PcOfBackup)
               /\ ~(op.pc = "dump" /\ Restarts) /\ op.half /\ op.pc \in {"restart", "start"}
      <3>1. unit' \in Unanswered(unit)
        BY <2>4 DEF StepFails
      <3>2. ~unit.runner
        BY <1>1, <2>4 DEF IInv, Still, StillPcs
      <3>3. QED
        BY <1>2, <3>1, <3>2, UnansweredIsSane
    <2>5. CASE op.kind # "resume" /\ ~(op.kind \in Converges /\ op.pc \notin PcOfBackup)
               /\ ~(op.pc = "dump" /\ Restarts) /\ ~(op.half /\ op.pc \in {"restart", "start"})
      BY <1>2, <2>5 DEF StepFails
    <2>6. QED
      BY <2>1, <2>2, <2>3, <2>4, <2>5
  <1>6. QED
    BY <1>1, <1>5, Ends DEF Sane, IInv, Remembered

LEMMA RestKeeps ==
  ASSUME IInv, \/ \E k \in Kinds : Start(k)
               \/ Declined \/ Killed \/ RunnerChanges \/ UserWrites \/ UNCHANGED vars
  PROVE  IInv'
  <1>. USE DEF records
  <1>1. ASSUME NEW k \in Kinds, Start(k) PROVE IInv'
    <2>1. PICK v \in Versions, b \in Boots(k) :
             op' = [kind |-> k, pc |-> "preflight", half |-> FALSE,
                    rev |-> v, boot |-> b, safe |-> "no",
                    server |-> FALSE, runner |-> FALSE, taken |-> None]
      BY <1>1 DEF Start
    <2>2. /\ op'.kind = k /\ op'.pc = "preflight" /\ op'.half = FALSE /\ op'.server = FALSE
          /\ op'.runner = FALSE /\ op'.taken = None /\ DOMAIN op' = Fields
          /\ k # "none"
      BY <2>1 DEF Fields, Kinds, Converges, Uninstalls, BacksUp
    <2>3. UNCHANGED <<unit, suspended, snapshot>>
      BY <1>1 DEF Start
    <2>4. Shape' /\ Remembered'
      BY <2>2, <2>3 DEF IInv, Shape, Remembered, Busy, Fair
    <2>5. Still' /\ Started' /\ RunnerNeedsServer'
      BY <2>2, <2>3 DEF IInv, Still, StillPcs, Started, Busy, RunnerNeedsServer
    <2>6. QED
      BY <2>4, <2>5 DEF IInv
  <1>2. CASE Declined \/ Killed
    <2>1. op' = Idle /\ UNCHANGED <<unit, suspended, snapshot>>
      BY <1>2 DEF Declined, Killed
    <2>2. QED
      BY <2>1, Ends DEF IInv, Shape, Remembered, RunnerNeedsServer
  <1>3. CASE RunnerChanges
    <2>1. op' = Idle /\ UNCHANGED <<suspended, snapshot>>
      BY <1>3 DEF RunnerChanges
    <2>2. \/ unit' = [unit EXCEPT !.installed = FALSE, !.runner = FALSE, !.runnerBoot = FALSE]
          \/ /\ unit' = [unit EXCEPT !.installed = TRUE, !.runner = TRUE, !.runnerBoot = TRUE]
             /\ unit.server
      BY <1>3 DEF RunnerChanges
    <2>3. /\ {"server", "runner"} \subseteq DOMAIN unit'
          /\ unit'.server \in BOOLEAN /\ unit'.runner \in BOOLEAN
          /\ unit'.runner => unit'.server
      BY <2>2 DEF IInv, Shape
    <2>4. QED
      BY <2>1, <2>3, Ends DEF IInv, Remembered
  <1>4. CASE UserWrites
    <2>1. op' = [op EXCEPT !.safe = "some"] /\ Busy /\ UNCHANGED <<unit, suspended, snapshot>>
      BY <1>4 DEF UserWrites, IInv, Shape
    <2>2. /\ op'.pc = op.pc /\ op'.half = op.half /\ op'.kind = op.kind /\ op'.taken = op.taken
          /\ op'.server = op.server /\ op'.runner = op.runner /\ DOMAIN op' = Fields
      BY <2>1 DEF IInv, Shape, Fields
    <2>3. Shape' /\ Remembered'
      BY <2>1, <2>2 DEF IInv, Shape, Remembered, Busy
    <2>4. Still' /\ Started' /\ RunnerNeedsServer'
      BY <2>1, <2>2 DEF IInv, Still, Started, Restarts, Busy, RunnerNeedsServer
    <2>5. QED
      BY <2>3, <2>4 DEF IInv
  <1>5. CASE UNCHANGED vars
    <2>1. UNCHANGED <<unit, suspended, snapshot, op>>
      BY <1>5 DEF vars
    <2>2. Shape' /\ Remembered' /\ RunnerNeedsServer'
      BY <2>1 DEF IInv, Shape, Busy, Remembered, RunnerNeedsServer
    <2>3. Still'
      BY <2>1 DEF IInv, Still, Busy
    <2>4. Started'
      BY <2>1 DEF IInv, Started, Busy, Restarts
    <2>5. QED
      BY <2>2, <2>3, <2>4 DEF IInv
  <1>6. QED
    BY <1>1, <1>2, <1>3, <1>4, <1>5

-------------------------------------------------------------------------------
(* The invariant of the two services.                                      *)
THEOREM Invariance == Spec => []IInv
  <1>1. IInv /\ [Next]_vars => IInv'
    BY StopsFirst, StopsBoth, BackUpKeeps, ConvergeKeeps, RollbackKeeps, SmallKeeps,
       UninstallKeeps, FailureKeeps, RestKeeps
    DEF Next
  <1>2. QED
    BY InitInv, <1>1, PTL DEF Spec

(* The runner never runs without its server, whatever fails or is killed   *)
(* and however often.                                                      *)
THEOREM RunnerHasItsServer == Spec => []RunnerNeedsServer
  <1>1. IInv => RunnerNeedsServer
    BY DEF IInv
  <1>2. QED
    BY Invariance, <1>1, PTL

-------------------------------------------------------------------------------
(* What is in the database, and what of it the operation has archived.     *)

Archived ==
    op.kind = "rollback" /\ op.pc \notin {"preflight", "back up", "dump"} => op.safe # "no"

LEMMA IdleIsNoRollback == Idle.kind = "none"
  BY DEF Idle

\* A step of an operation of which only the place changes.
LEMMA PlaceOnly ==
  ASSUME IInv, Archived, Busy, NEW p, NEW h, op' = [op EXCEPT !.pc = p, !.half = h],
         op.kind = "rollback" /\ p \notin {"preflight", "back up", "dump"} =>
             op.pc \notin {"preflight", "back up", "dump"}
  PROVE  Archived'
  <1>1. /\ op'.pc = p /\ op'.kind = op.kind /\ op'.safe = op.safe
    BY DEF IInv, Shape, Fields
  <1>2. QED
    BY <1>1 DEF Archived

LEMMA ArchivedByConverge == ASSUME IInv, Archived, Converge PROVE Archived'
  <1>1. Busy /\ op.kind # "rollback"
    BY DEF Converge, Preflight, PreInstallBackup, EnsureAccount, EnsureLayout,
       EnsureTransaction, ProductIsCurrent, MoveProduct, PlaceProduct, InstallAssets,
       InstallBinary, ConfigureDatabase, WriteConfiguration, ConfigureCaddy, Migrate,
       EnsureAdmin, Activate, SettleServices, ForgetRetained, WriteMarker, ForgetPending,
       In, Halfway, Converges, Busy
  <1>2. op' = Idle \/ \E p, h : op' = [op EXCEPT !.pc = p, !.half = h]
    <2>1. CASE Preflight \/ ForgetPending \/ MoveProduct
      <3>1. CASE Preflight
        BY <3>1 DEF Preflight, Goto
      <3>2. CASE ForgetPending
        BY <3>2 DEF ForgetPending
      <3>3. CASE MoveProduct
        <4>1. op' = [op EXCEPT !.pc = op.pc, !.half = TRUE]
          BY <1>1, <3>3 DEF MoveProduct, GoHalfway, IInv, Shape
        <4>2. QED
          BY <4>1
      <3>4. QED
        BY <2>1, <3>1, <3>2, <3>3
    <2>2. CASE ~(Preflight \/ ForgetPending \/ MoveProduct)
      BY <2>2 DEF Converge, PreInstallBackup, EnsureAccount, EnsureLayout,
         EnsureTransaction, ProductIsCurrent, PlaceProduct, InstallAssets,
         InstallBinary, ConfigureDatabase, WriteConfiguration, ConfigureCaddy, Migrate,
         EnsureAdmin, Activate, SettleServices, ForgetRetained, WriteMarker, Goto
    <2>3. QED
      BY <2>1, <2>2
  <1>3. CASE op' = Idle
    BY <1>3, IdleIsNoRollback DEF Archived
  <1>4. ASSUME NEW p, NEW h, op' = [op EXCEPT !.pc = p, !.half = h] PROVE Archived'
    BY <1>1, <1>4, PlaceOnly
  <1>5. QED
    BY <1>2, <1>3, <1>4

LEMMA ArchivedByRollback == ASSUME IInv, Archived, Rollback PROVE Archived'
  <1>1. Busy
    BY DEF Rollback, RollbackPreflight, DropDatabase, LoadDatabase, RemoveConfiguration,
       RemoveRecords, CopyConfiguration, CopyRecords, RestoreRuntime, StartServer, StartRunner,
       RecordReverse, In, Halfway, Busy
  <1>2. CASE RollbackPreflight
    BY <1>1, <1>2, PlaceOnly DEF RollbackPreflight, Goto
  <1>3. CASE RecordReverse
    BY <1>3, IdleIsNoRollback DEF RecordReverse, Archived
  <1>4. CASE StartServer
    <2>1. op' = [op EXCEPT !.pc = op.pc, !.half = TRUE]
      BY <1>1, <1>4 DEF StartServer, GoHalfway, IInv, Shape
    <2>2. QED
      BY <1>1, <2>1, PlaceOnly
  <1>5. CASE ~(RollbackPreflight \/ RecordReverse \/ StartServer)
    <2>1. /\ \E p : op' = [op EXCEPT !.pc = p, !.half = FALSE]
          /\ op.pc \notin {"preflight", "back up", "dump"}
      BY <1>5 DEF Rollback, DropDatabase, LoadDatabase, RemoveConfiguration,
         RemoveRecords, CopyConfiguration, CopyRecords, RestoreRuntime, StartRunner,
         In, Halfway, Goto
    <2>2. QED
      BY <1>1, <2>1, PlaceOnly
  <1>6. QED
    BY <1>2, <1>3, <1>4, <1>5

LEMMA ArchivedByBackUp ==
  ASSUME IInv, Archived, BackUp \/ BeginStop \/ EndStop PROVE Archived'
  <1>. Busy
    BY DEF BackUp, BeginStop, EndStop, Dump, RestartServer, RestartRunner, RecordSnapshot,
       In, Halfway, Busy, BacksUp, Stops, Converges, Uninstalls
  <1>. /\ DOMAIN op = Fields /\ "safe" \in DOMAIN op /\ "kind" \in DOMAIN op
       /\ "pc" \in DOMAIN op
    BY DEF IInv, Shape, Fields
  <1>1. CASE Dump
    <2>1. op'.safe = "all"
      BY <1>1 DEF Dump, Dumped
    <2>2. QED
      BY <2>1 DEF Archived
  <1>2. CASE RestartServer
    <2>1. op' = [op EXCEPT !.pc = op.pc, !.half = TRUE]
      BY <1>2 DEF RestartServer, GoHalfway, IInv, Shape
    <2>2. QED
      BY <2>1, PlaceOnly
  <1>3. CASE RestartRunner
    <2>1. op' = Idle \/ \E p : op' = [op EXCEPT !.pc = p, !.half = FALSE]
      <3>1. CASE op.kind \in {"update", "rollback"}
        BY <1>3, <3>1 DEF RestartRunner, Goto
      <3>2. CASE op.kind \notin {"update", "rollback"}
        BY <1>3, <3>2 DEF RestartRunner, Goto
      <3>3. QED
        BY <3>1, <3>2
    <2>2. op.pc = "restart"
      BY <1>3 DEF RestartRunner, Halfway
    <2>3. CASE op' = Idle
      BY <2>3, IdleIsNoRollback DEF Archived
    <2>4. QED
      BY <2>1, <2>2, <2>3, PlaceOnly
  <1>4. CASE RecordSnapshot
    <2>1. op'.kind = op.kind /\ op.kind # "rollback"
      BY <1>4 DEF RecordSnapshot, In
    <2>2. QED
      BY <2>1 DEF Archived
  <1>5. CASE BeginStop
    <2>1. op'.kind = op.kind /\ op'.pc = op.pc /\ op'.safe = op.safe
      BY <1>5 DEF BeginStop
    <2>2. QED
      BY <2>1 DEF Archived
  <1>6. CASE EndStop
    <2>1. op'.kind = AfterAll /\ op'.pc = AfterStop /\ op'.safe = op.safe
      BY <1>6 DEF EndStop
    <2>2. op'.kind = "rollback" => op.kind = "rollback"
      BY <2>1 DEF AfterAll
    <2>3. op.pc = "back up" => op'.pc = "dump"
      BY <2>1 DEF AfterStop
    <2>4. op.pc \in {"back up", "stop"}
      BY <1>6 DEF EndStop, Halfway
    <2>5. QED
      BY <2>1, <2>2, <2>3, <2>4 DEF Archived
  <1>7. QED
    BY <1>1, <1>2, <1>3, <1>4, <1>5, <1>6 DEF BackUp

LEMMA ArchivedBySmall == ASSUME IInv, Archived, Small \/ Uninstall PROVE Archived'
  <1>1. Busy /\ op.kind # "rollback"
    BY DEF Small, BackupPreflight, SuspendAgain, RecordIntents, Disable, Suspend,
       ResumePreflight, ResumeServer, ResumeRunner, Resume,
       Uninstall, UninstallPreflight, DropData, RemoveHost, RemoveInstallRoot,
       Retain, PurgeConfiguration, PurgeState, PurgeBackups, RemoveAccount,
       In, Halfway, Busy, Uninstalls
  <1>2. op'.kind # "rollback"
    <2>1. DOMAIN op = Fields /\ "kind" \in Fields /\ Idle.kind = "none"
      BY <1>1 DEF IInv, Shape, Fields, Idle
    <2>2. CASE Small
      BY <1>1, <2>1, <2>2 DEF Small, BackupPreflight, SuspendAgain, RecordIntents, Disable,
         Suspend, ResumePreflight, ResumeServer, ResumeRunner, Resume, Goto, GoHalfway
    <2>3. CASE Uninstall
      BY <1>1, <2>1, <2>3 DEF Uninstall, UninstallPreflight, DropData, RemoveHost,
         RemoveInstallRoot, Retain, PurgeConfiguration, PurgeState, PurgeBackups,
         RemoveAccount, Goto
    <2>4. QED
      BY <2>2, <2>3
  <1>3. QED
    BY <1>2 DEF Archived

LEMMA ArchivedStays == ASSUME IInv, Archived, [Next]_vars PROVE Archived'
  <1>1. ASSUME NEW k \in Kinds, Start(k) PROVE Archived'
    <2>1. op'.pc = "preflight"
      BY <1>1 DEF Start
    <2>2. QED
      BY <2>1 DEF Archived
  <1>2. CASE Declined \/ StepFails \/ Killed
    <2>1. op' = Idle
      BY <1>2 DEF Declined, StepFails, Killed
    <2>2. QED
      BY <2>1, IdleIsNoRollback DEF Archived
  <1>3. CASE RunnerChanges
    BY <1>3 DEF RunnerChanges, Archived
  <1>4. CASE UserWrites
    <2>1. op'.safe = "some"
      BY <1>4 DEF UserWrites, IInv, Shape, Busy, Fields
    <2>2. QED
      BY <2>1 DEF Archived
  <1>5. CASE UNCHANGED vars
    BY <1>5 DEF vars, Archived
  <1>6. QED
    BY <1>1, <1>2, <1>3, <1>4, <1>5, ArchivedByConverge, ArchivedByRollback,
       ArchivedByBackUp, ArchivedBySmall
    DEF Next

\* Only three actions take from the database.
LEMMA TakesFromDatabase ==
  ASSUME IInv, Next, db = "full", db' # "full"
  PROVE  DropDatabase \/ LoadDatabase \/ DropData
  <1>1. ~Converge
    BY DEF Converge, Preflight, PreInstallBackup, EnsureAccount, EnsureLayout,
       EnsureTransaction, ProductIsCurrent, MoveProduct, PlaceProduct, InstallAssets,
       InstallBinary, ConfigureDatabase, WriteConfiguration, ConfigureCaddy, Migrate,
       EnsureAdmin, Activate, SettleServices, ForgetRetained, WriteMarker, ForgetPending
  <1>2. Rollback => DropDatabase \/ LoadDatabase
    BY DEF Rollback, RollbackPreflight, RemoveConfiguration, RemoveRecords,
       CopyConfiguration, CopyRecords, RestoreRuntime, StartServer, StartRunner, RecordReverse
  <1>3. ~Small /\ ~BackUp /\ ~BeginStop /\ ~EndStop
    BY DEF Small, BackupPreflight, SuspendAgain, RecordIntents, Disable, Suspend,
       ResumePreflight, ResumeServer, ResumeRunner, Resume, BackUp, Dump, RestartServer,
       RestartRunner, RecordSnapshot, BeginStop, EndStop
  <1>4. Uninstall => DropData
    BY DEF Uninstall, UninstallPreflight, RemoveHost, RemoveInstallRoot, Retain,
       PurgeConfiguration, PurgeState, PurgeBackups, RemoveAccount
  <1>5. ~(\E k \in Kinds : Start(k))
    BY DEF Start
  <1>6. ~Declined /\ ~StepFails /\ ~Killed /\ ~RunnerChanges /\ ~UserWrites
    BY DEF Declined, StepFails, Killed, RunnerChanges, UserWrites
  <1>7. QED
    BY <1>1, <1>2, <1>3, <1>4, <1>5, <1>6 DEF Next

(* What users have in the database is replaced or removed by anything but  *)
(* a purge only after the same operation has archived it.                  *)
THEOREM ArchivedFirst == Spec => DataIsArchived
  <1>1. Init => Archived
    BY IdleIsNoRollback DEF Init, Archived
  <1>2. IInv /\ Archived /\ [Next]_vars => Archived'
    BY ArchivedStays
  <1>3. IInv /\ Archived /\ [Next]_vars =>
            [db = "full" /\ db' # "full" /\ op.kind # "purge" => op.safe # "no"]_vars
    <2>1. SUFFICES ASSUME IInv, Archived, Next, db = "full", db' # "full", op.kind # "purge"
                   PROVE  op.safe # "no"
      BY DEF vars
    <2>2. DropDatabase \/ LoadDatabase
      BY <2>1, TakesFromDatabase DEF DropData, In
    <2>3. op.kind = "rollback" /\ op.pc \in {"drop", "load"}
      BY <2>2 DEF DropDatabase, LoadDatabase, In
    <2>4. QED
      BY <2>1, <2>3 DEF Archived
  <1>4. QED
    BY Invariance, <1>1, <1>2, <1>3, PTL DEF Spec, DataIsArchived

-------------------------------------------------------------------------------
(* A suspension holds until it is resumed.                                 *)

IsOff == ~unit.server /\ ~unit.runner /\ ~unit.boot

\* Not where a converging operation has started the server to look at it, where a
\* rollback has copied the records, or where resume starts what is to run.
Elsewhere ==
    /\ op.kind \in Converges => op.pc # "settle"
    /\ op.kind = "rollback" => op.pc \notin {"runtime", "start", "record"}
    /\ op.kind = "resume" => op.pc \notin {"start", "forget"}

\* An archive of a suspended installation, unless it was taken after a kill.
Sound(a) == a # None /\ a.sound /\ a.suspended # None => ~a.boot

Down == suspended # None /\ ~cut /\ Elsewhere => IsOff

Archives ==
    /\ Sound(snapshot)
    /\ op.kind \in {"update", "rollback"} => Sound(op.taken)

Suspending == op.kind = "suspend" /\ op.pc = "suspended" => IsOff

\* What a rollback does with the record of the suspension.
Copied ==
    op.kind = "rollback" =>
        /\ op.pc \in {"copy etc", "copy state"} => suspended = None
        /\ op.pc \in {"runtime", "start", "record"} => suspended = snapshot.suspended
        /\ /\ op.pc = "record" \/ (op.pc = "start" /\ op.half)
           /\ snapshot.sound /\ suspended # None
           => IsOff

SInv ==
    /\ {"server", "runner", "boot"} \subseteq DOMAIN unit
    /\ Down /\ Archives /\ Suspending /\ Copied

LEMMA InitSInv == Init => SInv
  BY DEF Init, SInv, Down, IsOff, Archives, Sound, Suspending, Copied, Idle

\* A step with which the operation ends.
LEMMA EndsDown ==
  ASSUME op' = Idle, {"server", "runner", "boot"} \subseteq DOMAIN unit', Sound(snapshot'),
         suspended' # None /\ ~cut' => IsOff'
  PROVE  SInv'
  <1>1. op'.kind = "none"
    BY DEF Idle
  <1>2. QED
    BY <1>1 DEF SInv, Down, Archives, Suspending, Copied

\* A step to p of anything but a rollback, after which what was off is off.
LEMMA StaysDown ==
  ASSUME IInv, SInv, Busy, Elsewhere, op.kind # "rollback", NEW p, NEW h,
         op.kind = "suspend" => p # "suspended",
         op' = [op EXCEPT !.pc = p, !.half = h],
         {"server", "runner", "boot"} \subseteq DOMAIN unit', IsOff => IsOff',
         UNCHANGED <<suspended, snapshot, cut>>
  PROVE  SInv'
  <1>1. op'.pc = p /\ op'.kind = op.kind /\ op'.taken = op.taken
    BY DEF IInv, Shape, Fields
  <1>2. Down'
    BY DEF SInv, Down
  <1>3. Archives' /\ Suspending' /\ Copied'
    BY <1>1 DEF SInv, Archives, Sound, Suspending, Copied
  <1>4. QED
    BY <1>2, <1>3 DEF SInv

LEMMA ConvergeStaysDown == ASSUME IInv, SInv, Converge PROVE SInv'
  <1>. USE DEF records
  <1>1. Busy /\ op.kind \in Converges /\ UNCHANGED <<suspended, snapshot, cut>>
    BY DEF Converge, Preflight, PreInstallBackup, EnsureAccount, EnsureLayout,
       EnsureTransaction, ProductIsCurrent, MoveProduct, PlaceProduct, InstallAssets,
       InstallBinary, ConfigureDatabase, WriteConfiguration, ConfigureCaddy, Migrate,
       EnsureAdmin, Activate, SettleServices, ForgetRetained, WriteMarker, ForgetPending,
       In, Halfway, Converges, Busy
  <1>2. op.kind \notin {"rollback", "resume", "suspend"}
    BY <1>1 DEF Converges
  <1>3. CASE Activate
    <2>1. /\ op' = [op EXCEPT !.pc = "settle", !.half = FALSE]
          /\ unit' = [unit EXCEPT !.boot = op.boot, !.server = TRUE]
      BY <1>3 DEF Activate, Goto
    <2>2. op'.pc = "settle" /\ op'.kind = op.kind /\ op'.taken = op.taken
      BY <1>1, <2>1 DEF IInv, Shape, Fields
    <2>3. ~Elsewhere' /\ {"server", "runner", "boot"} \subseteq DOMAIN unit'
      BY <1>1, <2>1, <2>2 DEF Elsewhere, SInv
    <2>4. Archives' /\ Suspending' /\ Copied'
      BY <1>1, <1>2, <2>2 DEF SInv, Archives, Sound, Suspending, Copied
    <2>5. QED
      BY <2>3, <2>4 DEF SInv, Down
  <1>4. CASE SettleServices
    <2>1. /\ op' = [op EXCEPT !.pc = "retained", !.half = FALSE]
          /\ unit' = IF suspended # None THEN Off(unit)
                     ELSE [unit EXCEPT !.runner = op.runner]
      BY <1>4 DEF SettleServices, Goto, Enforced
    <2>2. op'.pc = "retained" /\ op'.kind = op.kind /\ op'.taken = op.taken
      BY <1>1, <2>1 DEF IInv, Shape, Fields
    <2>3. /\ {"server", "runner", "boot"} \subseteq DOMAIN unit'
          /\ suspended # None => IsOff'
      BY <2>1 DEF SInv, Off, IsOff
    <2>4. Archives' /\ Suspending' /\ Copied'
      BY <1>1, <1>2, <2>2 DEF SInv, Archives, Sound, Suspending, Copied
    <2>5. QED
      BY <1>1, <2>3, <2>4 DEF SInv, Down
  <1>5. CASE ForgetPending
    <2>1. op' = Idle /\ UNCHANGED unit /\ op.pc = "pending"
      BY <1>5 DEF ForgetPending, In
    <2>2. Elsewhere
      BY <1>2, <2>1 DEF Elsewhere
    <2>3. QED
      BY <1>1, <2>1, <2>2, EndsDown DEF SInv, Down, IsOff, Archives, Sound
  <1>6. CASE ~(Activate \/ SettleServices \/ ForgetPending)
    <2>1. op.pc # "settle" /\ UNCHANGED unit
      BY <1>6 DEF Converge, Preflight, PreInstallBackup, EnsureAccount, EnsureLayout,
         EnsureTransaction, ProductIsCurrent, MoveProduct, PlaceProduct, InstallAssets,
         InstallBinary, ConfigureDatabase, WriteConfiguration, ConfigureCaddy, Migrate,
         EnsureAdmin, ForgetRetained, WriteMarker, In, Halfway
    <2>2. \E p, h : op' = [op EXCEPT !.pc = p, !.half = h]
      <3>1. CASE MoveProduct
        <4>1. op' = [op EXCEPT !.pc = op.pc, !.half = TRUE]
          BY <1>1, <3>1 DEF MoveProduct, GoHalfway, IInv, Shape
        <4>2. QED
          BY <4>1
      <3>2. CASE Preflight
        BY <3>2 DEF Preflight, Goto
      <3>3. CASE ~MoveProduct /\ ~Preflight
        BY <1>6, <3>3 DEF Converge, PreInstallBackup, EnsureAccount, EnsureLayout,
           EnsureTransaction, ProductIsCurrent, PlaceProduct, InstallAssets,
           InstallBinary, ConfigureDatabase, WriteConfiguration, ConfigureCaddy, Migrate,
           EnsureAdmin, ForgetRetained, WriteMarker, Goto
      <3>4. QED
        BY <3>1, <3>2, <3>3
    <2>3. Elsewhere
      BY <1>2, <2>1 DEF Elsewhere
    <2>4. QED
      BY <1>1, <1>2, <2>1, <2>2, <2>3, StaysDown DEF SInv, IsOff
  <1>7. QED
    BY <1>3, <1>4, <1>5, <1>6

\* The same for a rollback, before and after it replaces the records.
LEMMA RollbackStaysDown ==
  ASSUME IInv, SInv, op.kind = "rollback", NEW p, NEW h,
         op.pc \notin {"runtime", "start", "record"},
         p \notin {"runtime", "start", "record"},
         p \in {"copy etc", "copy state"} => suspended' = None,
         op' = [op EXCEPT !.pc = p, !.half = h],
         {"server", "runner", "boot"} \subseteq DOMAIN unit', IsOff => IsOff',
         suspended' \in {None, suspended}, UNCHANGED <<snapshot, cut>>
  PROVE  SInv'
  <1>1. op'.pc = p /\ op'.kind = "rollback" /\ op'.taken = op.taken
    BY DEF IInv, Shape, Fields, Busy
  <1>2. Elsewhere
    BY DEF Elsewhere, Converges
  <1>3. Down'
    BY <1>2 DEF SInv, Down
  <1>4. Archives' /\ Suspending' /\ Copied'
    BY <1>1 DEF SInv, Archives, Sound, Suspending, Copied
  <1>5. QED
    BY <1>3, <1>4 DEF SInv

LEMMA BackUpStaysDown ==
  ASSUME IInv, SInv, BackUp \/ BeginStop \/ EndStop PROVE SInv'
  <1>. USE DEF records
  <1>1. /\ Busy /\ op.kind # "resume" /\ UNCHANGED <<suspended, cut>>
        /\ op.pc \in {"back up", "stop", "dump", "restart", "record"}
        /\ op.pc = "record" => op.kind # "rollback"
    BY DEF BackUp, BeginStop, EndStop, Dump, RestartServer, RestartRunner, RecordSnapshot,
       In, Halfway, Busy, BacksUp, Stops, Converges, Uninstalls
  <1>2. Elsewhere
    BY <1>1 DEF Elsewhere
  <1>3. DOMAIN op = Fields /\ {"pc", "kind", "half", "taken", "safe", "server", "runner"} \subseteq Fields
    BY <1>1 DEF IInv, Shape, Fields
  <1>4. CASE Dump
    <2>1. /\ op'.kind = op.kind /\ op'.pc = "restart" /\ UNCHANGED <<unit, snapshot>>
          /\ op'.taken = IF op.kind = "backup" THEN None ELSE Archive
      BY <1>3, <1>4 DEF Dump
    <2>2. Sound(Archive)
      BY <1>2 DEF Archive, Sound, SInv, Down, IsOff
    <2>3. Archives'
      BY <2>1, <2>2 DEF SInv, Archives, Sound
    <2>4. Down' /\ Suspending' /\ Copied'
      BY <1>1, <1>2, <2>1 DEF SInv, Down, IsOff, Suspending, Copied
    <2>5. QED
      BY <2>1, <2>3, <2>4 DEF SInv
  <1>5. CASE RestartServer
    <2>1. /\ op' = [op EXCEPT !.pc = "restart", !.half = TRUE] /\ UNCHANGED snapshot
          /\ unit' = [unit EXCEPT !.server = @ \/ Restarts]
      BY <1>3, <1>5 DEF RestartServer, GoHalfway, In
    <2>2. /\ op'.kind = op.kind /\ op'.pc = "restart" /\ op'.taken = op.taken
          /\ {"server", "runner", "boot"} \subseteq DOMAIN unit'
      BY <1>3, <2>1 DEF SInv
    <2>3. suspended # None /\ IsOff => IsOff'
      BY <2>1 DEF Restarts, IsOff, SInv
    <2>4. Down' /\ Archives' /\ Suspending' /\ Copied'
      BY <1>1, <1>2, <2>1, <2>2, <2>3 DEF SInv, Down, Archives, Sound, Suspending, Copied
    <2>5. QED
      BY <2>2, <2>4 DEF SInv
  <1>6. CASE RestartRunner
    <2>1. /\ UNCHANGED snapshot
          /\ unit' = [unit EXCEPT !.runner = Restarts /\ op.runner]
      BY <1>6 DEF RestartRunner
    <2>2. {"server", "runner", "boot"} \subseteq DOMAIN unit'
      BY <2>1 DEF SInv
    <2>3. suspended # None /\ IsOff => IsOff'
      BY <2>1 DEF Restarts, IsOff, SInv
    <2>4. CASE op' = Idle
      BY <1>1, <1>2, <2>1, <2>2, <2>3, <2>4, EndsDown DEF SInv, Down, Archives, Sound
    <2>5. ASSUME NEW p \in {"record", "stop"}, op' = [op EXCEPT !.pc = p, !.half = FALSE],
                 op.kind = "rollback" => p = "stop",
                 op.kind # "suspend"
          PROVE  SInv'
      <3>1. op'.kind = op.kind /\ op'.pc = p /\ op'.taken = op.taken
        BY <1>3, <2>5
      <3>2. Down' /\ Archives' /\ Suspending' /\ Copied'
        BY <1>1, <1>2, <2>1, <2>3, <2>5, <3>1
        DEF SInv, Down, Archives, Sound, Suspending, Copied
      <3>3. QED
        BY <2>2, <3>2 DEF SInv
    <2>6. CASE op.kind = "update"
      BY <1>6, <2>5, <2>6 DEF RestartRunner, Goto
    <2>7. CASE op.kind = "rollback"
      BY <1>6, <2>5, <2>7 DEF RestartRunner, Goto
    <2>8. CASE op.kind \notin {"update", "rollback"}
      BY <1>6, <2>4, <2>8 DEF RestartRunner
    <2>9. QED
      BY <2>6, <2>7, <2>8
  <1>7. CASE RecordSnapshot
    <2>1. /\ op.kind = "update" /\ snapshot' = op.taken /\ UNCHANGED unit
          /\ op'.kind = "update" /\ op'.pc = "stop" /\ op'.taken = None
      BY <1>3, <1>7 DEF RecordSnapshot, In
    <2>2. Archives'
      BY <2>1 DEF SInv, Archives, Sound
    <2>3. Down' /\ Suspending' /\ Copied'
      BY <1>1, <1>2, <2>1 DEF SInv, Down, IsOff, Suspending, Copied
    <2>4. QED
      BY <2>1, <2>2, <2>3 DEF SInv
  <1>8. CASE BeginStop
    <2>1. /\ op'.kind = op.kind /\ op'.pc = op.pc /\ op'.taken = op.taken
          /\ unit' = [unit EXCEPT !.runner = FALSE] /\ UNCHANGED snapshot
      BY <1>3, <1>8 DEF BeginStop, FirstStopped
    <2>2. {"server", "runner", "boot"} \subseteq DOMAIN unit' /\ (IsOff => IsOff')
      BY <2>1 DEF SInv, IsOff
    <2>3. Down' /\ Archives' /\ Suspending' /\ Copied'
      BY <1>1, <1>2, <2>1, <2>2 DEF SInv, Down, Archives, Sound, Suspending, Copied
    <2>4. QED
      BY <2>2, <2>3 DEF SInv
  <1>9. CASE EndStop
    <2>1. /\ op'.kind = AfterAll /\ op'.pc = AfterStop /\ op'.taken = op.taken
          /\ unit' = [unit EXCEPT !.server = FALSE, !.runner = FALSE] /\ UNCHANGED snapshot
      BY <1>3, <1>9 DEF EndStop
    <2>2. {"server", "runner", "boot"} \subseteq DOMAIN unit' /\ (IsOff => IsOff')
      BY <2>1 DEF SInv, IsOff
    <2>3. AfterAll \in {op.kind, "install"} /\ AfterStop \in {"dump", "account", "drop", "disable"}
      BY DEF AfterAll, AfterStop
    <2>4. Down' /\ Archives' /\ Suspending' /\ Copied'
      BY <1>1, <1>2, <2>1, <2>2, <2>3 DEF SInv, Down, Archives, Sound, Suspending, Copied
    <2>5. QED
      BY <2>2, <2>4 DEF SInv
  <1>10. QED
    BY <1>4, <1>5, <1>6, <1>7, <1>8, <1>9 DEF BackUp

LEMMA RollbackDown == ASSUME IInv, SInv, Rollback PROVE SInv'
  <1>. USE DEF records
  <1>1. Busy /\ op.kind = "rollback" /\ (op.pc # "preflight" => snapshot # None)
    BY DEF Rollback, RollbackPreflight, DropDatabase, LoadDatabase, RemoveConfiguration,
       RemoveRecords, CopyConfiguration, CopyRecords, RestoreRuntime, StartServer, StartRunner,
       RecordReverse, In, Halfway, Busy, IInv, Remembered
  <1>2. DOMAIN op = Fields /\ {"pc", "kind", "half", "taken"} \subseteq Fields
    BY <1>1 DEF IInv, Shape, Fields
  <1>3. CASE \/ RollbackPreflight \/ DropDatabase \/ LoadDatabase \/ RemoveConfiguration
             \/ RemoveRecords \/ CopyConfiguration
    <2>1. /\ op.pc \notin {"runtime", "start", "record"} /\ UNCHANGED <<unit, snapshot, cut>>
          /\ suspended' \in {None, suspended}
      BY <1>3 DEF RollbackPreflight, DropDatabase, LoadDatabase, RemoveConfiguration,
         RemoveRecords, CopyConfiguration, In
    <2>2. PICK p \in {"back up", "load", "remove etc", "remove state", "copy etc", "copy state"} :
             /\ op' = [op EXCEPT !.pc = p, !.half = FALSE]
             /\ p \in {"copy etc", "copy state"} => suspended' = None
      BY <1>1, <1>3 DEF RollbackPreflight, DropDatabase, LoadDatabase, RemoveConfiguration,
         RemoveRecords, CopyConfiguration, In, Goto, SInv, Copied
    <2>3. QED
      BY <1>1, <2>1, <2>2, RollbackStaysDown DEF SInv, IsOff
  <1>4. CASE CopyRecords \/ RestoreRuntime
    <2>1. PICK p \in {"runtime", "start"} : op' = [op EXCEPT !.pc = p, !.half = FALSE]
      BY <1>4 DEF CopyRecords, RestoreRuntime, Goto
    <2>2. /\ UNCHANGED <<unit, snapshot, cut>> /\ suspended' = snapshot.suspended
      BY <1>1, <1>4 DEF CopyRecords, RestoreRuntime, In, SInv, Copied
    <2>3. op'.pc = p /\ op'.half = FALSE /\ op'.kind = "rollback" /\ op'.taken = op.taken
      BY <1>1, <1>2, <2>1
    <2>4. ~Elsewhere'
      BY <2>3 DEF Elsewhere
    <2>5. Archives' /\ Suspending' /\ Copied'
      BY <1>1, <2>2, <2>3 DEF SInv, Archives, Sound, Suspending, Copied
    <2>6. QED
      BY <2>2, <2>4, <2>5 DEF SInv, Down
  <1>5. CASE StartServer
    <2>1. /\ op' = [op EXCEPT !.half = TRUE] /\ unit' = StartedAfter(unit) /\ op.pc = "start"
          /\ UNCHANGED <<suspended, snapshot, cut>>
      BY <1>5 DEF StartServer, GoHalfway, In
    <2>2. op'.pc = "start" /\ op'.half = TRUE /\ op'.kind = "rollback" /\ op'.taken = op.taken
      BY <1>1, <1>2, <2>1
    <2>3. ~Elsewhere'
      BY <2>2 DEF Elsewhere
    <2>4. ~unit.runner
      BY <1>1, <2>1 DEF IInv, Still, StillPcs
    <2>5. /\ {"server", "runner", "boot"} \subseteq DOMAIN unit'
          /\ unit'.server = (snapshot.suspended = None) /\ unit'.boot = snapshot.boot
          /\ unit'.runner = unit.runner
      BY <2>1 DEF StartedAfter, SInv
    <2>6. suspended = snapshot.suspended
      BY <1>1, <2>1 DEF SInv, Copied
    <2>7. snapshot.sound /\ suspended # None => IsOff'
      BY <1>1, <2>1, <2>4, <2>5, <2>6 DEF SInv, Archives, Sound, IsOff
    <2>8. Archives' /\ Suspending' /\ Copied'
      BY <1>1, <2>1, <2>2, <2>6, <2>7 DEF SInv, Archives, Sound, Suspending, Copied
    <2>9. QED
      BY <2>3, <2>5, <2>8 DEF SInv, Down
  <1>6. CASE StartRunner
    <2>1. /\ op' = [op EXCEPT !.pc = "record", !.half = FALSE] /\ op.pc = "start" /\ op.half
          /\ unit' = [unit EXCEPT !.runner = op.runner /\ snapshot.suspended = None]
          /\ UNCHANGED <<suspended, snapshot, cut>>
      BY <1>6 DEF StartRunner, Goto, Halfway
    <2>2. op'.pc = "record" /\ op'.kind = "rollback" /\ op'.taken = op.taken
      BY <1>1, <1>2, <2>1
    <2>3. ~Elsewhere'
      BY <2>2 DEF Elsewhere
    <2>4. suspended = snapshot.suspended
      BY <1>1, <2>1 DEF SInv, Copied
    <2>5. /\ {"server", "runner", "boot"} \subseteq DOMAIN unit'
          /\ suspended # None /\ IsOff => IsOff'
      BY <2>1, <2>4 DEF SInv, IsOff
    <2>6. snapshot.sound /\ suspended # None => IsOff'
      BY <1>1, <2>1, <2>5 DEF SInv, Copied
    <2>7. Archives' /\ Suspending' /\ Copied'
      BY <1>1, <2>1, <2>2, <2>4, <2>6 DEF SInv, Archives, Sound, Suspending, Copied
    <2>8. QED
      BY <2>3, <2>5, <2>7 DEF SInv, Down
  <1>7. CASE RecordReverse
    <2>1. /\ op' = Idle /\ cut' = ~snapshot.sound /\ op.pc = "record"
          /\ snapshot' = op.taken /\ UNCHANGED <<suspended, unit>>
      BY <1>7 DEF RecordReverse, In
    <2>2. Sound(snapshot')
      BY <1>1, <2>1 DEF SInv, Archives, Sound
    <2>3. suspended' # None /\ ~cut' => IsOff'
      BY <1>1, <2>1 DEF SInv, Copied, IsOff
    <2>4. QED
      BY <2>1, <2>2, <2>3, EndsDown DEF SInv
  <1>8. QED
    BY <1>3, <1>4, <1>5, <1>6, <1>7 DEF Rollback

LEMMA SmallStaysDown == ASSUME IInv, SInv, Small PROVE SInv'
  <1>. USE DEF records
  <1>1. Busy /\ op.kind \in {"backup", "suspend", "resume"} \cup Uninstalls
    BY DEF Small, BackupPreflight, SuspendAgain, RecordIntents, Disable, Suspend,
       ResumePreflight, ResumeServer, ResumeRunner, Resume, In, Halfway, Busy, Uninstalls
  <1>2. DOMAIN op = Fields /\ {"pc", "kind", "half", "taken"} \subseteq Fields
    BY <1>1 DEF IInv, Shape, Fields
  <1>3. op.kind \notin {"update", "rollback"} /\ op.kind \notin Converges
    BY <1>1 DEF Uninstalls, Converges
  <1>4. CASE BackupPreflight
    <2>1. /\ op' = [op EXCEPT !.pc = "back up", !.half = FALSE] /\ op.kind = "backup"
          /\ UNCHANGED <<unit, suspended, snapshot, cut>>
      BY <1>4 DEF BackupPreflight, In, Goto
    <2>2. Elsewhere
      BY <2>1 DEF Elsewhere, Converges
    <2>3. QED
      BY <1>1, <1>3, <2>1, <2>2, StaysDown DEF SInv, IsOff
  <1>5. CASE SuspendAgain
    <2>1. op' = Idle /\ unit' = Off(unit) /\ UNCHANGED snapshot
      BY <1>5 DEF SuspendAgain
    <2>2. {"server", "runner", "boot"} \subseteq DOMAIN unit' /\ IsOff'
      BY <2>1 DEF Off, IsOff, SInv
    <2>3. QED
      BY <2>1, <2>2, EndsDown DEF SInv, Archives, Sound
  <1>6. CASE RecordIntents
    <2>1. /\ op.kind = "suspend" /\ op'.kind = op.kind /\ op'.pc = "stop"
          /\ UNCHANGED <<unit, suspended, snapshot, cut>>
      BY <1>2, <1>6 DEF RecordIntents, In
    <2>2. Elsewhere
      BY <2>1 DEF Elsewhere, Converges
    <2>3. QED
      BY <2>1, <2>2 DEF SInv, Down, IsOff, Archives, Sound, Suspending, Copied
  <1>7. CASE Disable
    <2>1. /\ op.pc = "disable" /\ UNCHANGED <<suspended, snapshot, cut>>
          /\ unit' = IF op.kind = "suspend" THEN Off(unit) ELSE [unit EXCEPT !.boot = FALSE]
          /\ op.kind # "resume"
      BY <1>7 DEF Disable, In, Uninstalls
    <2>2. /\ {"server", "runner", "boot"} \subseteq DOMAIN unit' /\ (IsOff => IsOff')
          /\ op.kind = "suspend" => IsOff'
      BY <2>1 DEF SInv, IsOff, Off
    <2>3. Elsewhere
      BY <1>3, <2>1 DEF Elsewhere
    <2>4. op'.kind = op.kind
      BY <1>2, <1>7 DEF Disable, Goto
    <2>5. Down' /\ Archives' /\ Suspending' /\ Copied'
      BY <1>3, <2>1, <2>2, <2>3, <2>4 DEF SInv, Down, Archives, Sound, Suspending, Copied
    <2>6. QED
      BY <2>2, <2>5 DEF SInv
  <1>8. CASE Suspend
    <2>1. /\ op' = Idle /\ op.kind = "suspend" /\ op.pc = "suspended"
          /\ UNCHANGED <<unit, snapshot>>
      BY <1>8 DEF Suspend, In
    <2>2. IsOff /\ IsOff'
      BY <2>1 DEF SInv, Suspending, IsOff
    <2>3. QED
      BY <2>1, <2>2, EndsDown DEF SInv, Archives, Sound
  <1>9. CASE ResumePreflight
    <2>1. /\ op.kind = "resume" /\ op.pc = "preflight" /\ UNCHANGED <<unit, suspended, snapshot, cut>>
          /\ op' = Idle \/ op' = [op EXCEPT !.pc = "start", !.half = FALSE]
      BY <1>9 DEF ResumePreflight, In, Goto
    <2>2. Elsewhere
      BY <2>1 DEF Elsewhere, Converges
    <2>3. CASE op' = Idle
      BY <2>1, <2>2, <2>3, EndsDown DEF SInv, Down, IsOff, Archives, Sound
    <2>4. CASE op' = [op EXCEPT !.pc = "start", !.half = FALSE]
      BY <1>1, <1>3, <2>1, <2>2, <2>4, StaysDown DEF SInv, IsOff
    <2>5. QED
      BY <2>1, <2>3, <2>4
  <1>10. CASE ResumeServer \/ ResumeRunner
    <2>1. /\ op.kind = "resume" /\ op.pc = "start" /\ UNCHANGED <<suspended, snapshot, cut>>
          /\ DOMAIN unit' = DOMAIN unit
      BY <1>10 DEF ResumeServer, ResumeRunner, In, Halfway
    <2>2. op'.kind = "resume" /\ op'.pc \in {"start", "forget"} /\ op'.taken = op.taken
      BY <1>2, <1>10, <2>1 DEF ResumeServer, ResumeRunner, Goto, GoHalfway
    <2>3. ~Elsewhere'
      BY <2>2 DEF Elsewhere
    <2>4. QED
      BY <2>1, <2>2, <2>3 DEF SInv, Down, Archives, Sound, Suspending, Copied
  <1>11. CASE Resume
    <2>1. op' = Idle /\ suspended' = None /\ UNCHANGED <<unit, snapshot>>
      BY <1>11 DEF Resume
    <2>2. QED
      BY <2>1, EndsDown DEF SInv, Archives, Sound
  <1>12. QED
    BY <1>4, <1>5, <1>6, <1>7, <1>8, <1>9, <1>10, <1>11 DEF Small

LEMMA UninstallStaysDown == ASSUME IInv, SInv, Uninstall PROVE SInv'
  <1>. USE DEF records
  <1>1. /\ Busy /\ op.kind \in Uninstalls /\ UNCHANGED <<unit, cut>>
        /\ suspended' \in {None, suspended} /\ snapshot' \in {None, snapshot}
    BY DEF Uninstall, UninstallPreflight, DropData, RemoveHost, RemoveInstallRoot,
       Retain, PurgeConfiguration, PurgeState, PurgeBackups, RemoveAccount, In, Busy, Uninstalls
  <1>2. op.kind \in {"retain", "purge"} /\ DOMAIN op = Fields /\ "kind" \in Fields
    BY <1>1 DEF IInv, Shape, Fields, Uninstalls
  <1>3. op'.kind \in {"retain", "purge", "none"}
    <2>1. \/ op' = Idle \/ op' = op
          \/ \E p : op' = [op EXCEPT !.pc = p, !.half = FALSE]
      <3>1. CASE DropData
        BY <3>1 DEF DropData, Goto
      <3>2. CASE RemoveHost
        BY <3>2 DEF RemoveHost, Goto
      <3>3. CASE ~DropData /\ ~RemoveHost
        BY <3>3 DEF Uninstall, UninstallPreflight, RemoveInstallRoot,
           Retain, PurgeConfiguration, PurgeState, PurgeBackups, RemoveAccount, Goto
      <3>4. QED
        BY <3>1, <3>2, <3>3
    <2>2. CASE op' = Idle
      BY <2>2, IdleIsNoRollback
    <2>3. CASE op' = op
      BY <1>2, <2>3
    <2>4. ASSUME NEW p, op' = [op EXCEPT !.pc = p, !.half = FALSE]
          PROVE  op'.kind \in {"retain", "purge", "none"}
      BY <1>2, <2>4
    <2>5. QED
      BY <2>1, <2>2, <2>3, <2>4
  <1>4. Elsewhere
    BY <1>2 DEF Elsewhere, Converges
  <1>5. Down' /\ Archives' /\ Suspending' /\ Copied'
    BY <1>1, <1>3, <1>4 DEF SInv, Down, IsOff, Archives, Sound, Suspending, Copied
  <1>6. QED
    BY <1>1, <1>5 DEF SInv

LEMMA FailureStaysDown == ASSUME IInv, SInv, StepFails PROVE SInv'
  <1>. USE DEF records
  <1>1. /\ op' = Idle /\ UNCHANGED <<suspended, snapshot>>
        /\ ~cut' /\ op.kind = "rollback" =>
               IF op.pc = "record" THEN snapshot.sound ELSE op.pc \in PcOfBackup
        /\ ~cut' => ~cut
    BY DEF StepFails
  <1>2. ASSUME NEW u, {"server", "runner", "boot"} \subseteq DOMAIN u
        PROVE  /\ \A w \in Again(u) : {"server", "runner", "boot"} \subseteq DOMAIN w
               /\ \A w \in Unanswered(u) : {"server", "runner", "boot"} \subseteq DOMAIN w
               /\ {"server", "runner", "boot"} \subseteq DOMAIN Off(u)
    BY <1>2 DEF Again, Unanswered, Off
  <1>3. \A w \in Recovered(unit) : {"server", "runner", "boot"} \subseteq DOMAIN w
    <2>1. SUFFICES ASSUME NEW w \in Recovered(unit)
                   PROVE  {"server", "runner", "boot"} \subseteq DOMAIN w
      OBVIOUS
    <2>2. \/ w = Off(unit) \/ w = unit \/ w \in Unanswered(unit)
          \/ \E u \in {unit} \cup Unanswered(unit) : w \in Again(u)
      BY DEF Recovered, RecoveredSuspension, Enforced
    <2>3. QED
      BY <1>2, <2>2 DEF SInv
  <1>4. {"server", "runner", "boot"} \subseteq DOMAIN unit'
    BY <1>2, <1>3 DEF StepFails, SInv
  <1>5. ASSUME suspended # None, ~cut' PROVE IsOff'
    <2>1. CASE op.kind = "resume"
      <3>1. unit' = Off(unit)
        BY <2>1 DEF StepFails
      <3>2. QED
        BY <3>1 DEF Off, IsOff, SInv
    <2>2. CASE op.kind # "resume" /\ op.kind \in Converges /\ op.pc \notin PcOfBackup
      <3>1. unit' = Off(unit)
        BY <1>5, <2>2 DEF StepFails, Recovered, RecoveredSuspension, Enforced
      <3>2. QED
        BY <3>1 DEF Off, IsOff, SInv
    <2>3. CASE op.kind # "resume" /\ ~(op.kind \in Converges /\ op.pc \notin PcOfBackup)
      <3>1. IsOff
        <4>1. CASE op.kind = "rollback" /\ op.pc = "record"
          BY <1>1, <1>5, <4>1 DEF SInv, Copied
        <4>2. CASE ~(op.kind = "rollback" /\ op.pc = "record")
          <5>1. Elsewhere
            BY <1>1, <1>5, <2>3, <4>2 DEF Elsewhere, PcOfBackup
          <5>2. QED
            BY <1>1, <1>5, <5>1 DEF SInv, Down
        <4>3. QED
          BY <4>1, <4>2
      <3>2. ~Restarts
        BY <1>5 DEF Restarts
      <3>3. unit' \in {unit} \cup Unanswered(unit)
        <4>1. CASE op.half /\ op.pc \in {"restart", "start"}
          BY <2>3, <3>2, <4>1 DEF StepFails
        <4>2. CASE ~(op.half /\ op.pc \in {"restart", "start"})
          BY <2>3, <3>2, <4>2 DEF StepFails
        <4>3. QED
          BY <4>1, <4>2
      <3>4. QED
        BY <3>1, <3>3 DEF IsOff, Unanswered, SInv
    <2>4. QED
      BY <2>1, <2>2, <2>3
  <1>6. QED
    BY <1>1, <1>4, <1>5, EndsDown DEF SInv, Archives, Sound

LEMMA RestStaysDown ==
  ASSUME IInv, SInv, \/ \E k \in Kinds : Start(k)
                     \/ Declined \/ Killed \/ RunnerChanges \/ UserWrites \/ UNCHANGED vars
  PROVE  SInv'
  <1>. USE DEF records
  <1>1. ASSUME NEW k \in Kinds, Start(k) PROVE SInv'
    <2>1. /\ op = Idle /\ op'.kind = k /\ op'.pc = "preflight" /\ op'.taken = None
          /\ UNCHANGED <<unit, suspended, snapshot, cut>>
      BY <1>1 DEF Start
    <2>2. Elsewhere
      BY <2>1, IdleIsNoRollback DEF Elsewhere, Converges
    <2>3. Down' /\ Archives' /\ Suspending' /\ Copied'
      BY <2>1, <2>2 DEF SInv, Down, IsOff, Archives, Sound, Suspending, Copied
    <2>4. QED
      BY <2>1, <2>3 DEF SInv
  <1>2. CASE Declined
    <2>1. op' = Idle /\ op.pc = "preflight" /\ UNCHANGED <<unit, suspended, snapshot, cut>>
      BY <1>2 DEF Declined
    <2>2. Elsewhere
      BY <2>1 DEF Elsewhere
    <2>3. QED
      BY <2>1, <2>2, EndsDown DEF SInv, Down, IsOff, Archives, Sound
  <1>3. CASE Killed
    <2>1. op' = Idle /\ cut' = TRUE /\ UNCHANGED <<unit, suspended, snapshot>>
      BY <1>3 DEF Killed
    <2>2. QED
      BY <2>1, EndsDown DEF SInv, Archives, Sound
  <1>4. CASE RunnerChanges
    <2>1. op = Idle /\ op' = Idle /\ UNCHANGED <<suspended, snapshot, cut>>
      BY <1>4 DEF RunnerChanges
    <2>2. Elsewhere
      BY <2>1, IdleIsNoRollback DEF Elsewhere, Converges
    <2>3. \/ unit' = [unit EXCEPT !.installed = FALSE, !.runner = FALSE, !.runnerBoot = FALSE]
          \/ /\ unit' = [unit EXCEPT !.installed = TRUE, !.runner = TRUE, !.runnerBoot = TRUE]
             /\ unit.server
      BY <1>4 DEF RunnerChanges
    <2>4. {"server", "runner", "boot"} \subseteq DOMAIN unit' /\ (IsOff => IsOff')
      BY <2>3 DEF SInv, IsOff
    <2>5. QED
      BY <2>1, <2>2, <2>4, EndsDown DEF SInv, Down, Archives, Sound
  <1>5. CASE UserWrites
    <2>1. /\ Busy /\ op' = [op EXCEPT !.safe = "some"] /\ UNCHANGED <<unit, suspended, snapshot, cut>>
      BY <1>5, IdleIsNoRollback DEF UserWrites, IInv, Shape
    <2>2. op'.pc = op.pc /\ op'.half = op.half /\ op'.kind = op.kind /\ op'.taken = op.taken
      BY <2>1 DEF IInv, Shape, Fields
    <2>3. Down'
      BY <2>1, <2>2 DEF SInv, Down, Elsewhere, IsOff
    <2>4. Archives' /\ Suspending' /\ Copied'
      BY <2>1, <2>2 DEF SInv, Archives, Sound, Suspending, Copied, IsOff
    <2>5. QED
      BY <2>1, <2>3, <2>4 DEF SInv
  <1>6. CASE UNCHANGED vars
    BY <1>6 DEF vars, SInv, Down, Elsewhere, IsOff, Archives, Sound, Suspending, Copied
  <1>7. QED
    BY <1>1, <1>2, <1>3, <1>4, <1>5, <1>6

(* Between operations nothing of a suspended installation runs and its     *)
(* server is not enabled, except after a kill or a failed rollback.        *)
THEOREM SuspendedStaysDown == Spec => []SuspensionHolds
  <1>1. IInv /\ SInv /\ [Next]_vars => SInv'
    BY BackUpStaysDown, ConvergeStaysDown, RollbackDown, SmallStaysDown, UninstallStaysDown,
       FailureStaysDown, RestStaysDown
    DEF Next
  <1>2. SInv => SuspensionHolds
    BY IdleIsNoRollback DEF SInv, Down, Elsewhere, IsOff, SuspensionHolds, Converges
  <1>3. QED
    BY InitSInv, Invariance, <1>1, <1>2, PTL DEF Spec
===============================================================================
