------------------------- MODULE FriendManager_proofs --------------------------
(***************************************************************************)
(* What the manager of Imaginary Friend leaves behind, for any versions,   *)
(* failures and kills.  A convergence and a rollback exchange the trees    *)
(* and undo what they did when a step fails, so everything is told from    *)
(* what the operation found (op.before): where the trees are by now        *)
(* (Trees), what it has written (Contents), that the snapshot it goes back *)
(* to is one of what it found (Source, Retained), and the same for a       *)
(* rollback (Rolling).  Whoever has a marker and is not broken has one     *)
(* version everywhere, or has uninstalled it (Base); a server that is to   *)
(* be up is up from the step that verifies it on (Service), and a          *)
(* suspension that was found or asked for stays (Service, Flagged).        *)
(***************************************************************************)
EXTENDS FriendManager, TLAPS

Fields == {"kind", "pc", "half", "rev", "target", "kept", "aside", "switched", "rolled",
           "fresh", "paused", "before", "asked"}

Busy == op.kind # "none"

\* The values of the variables, and of the operation.
Values ==
    /\ marker \in Versions \cup {None} /\ pending \in BOOLEAN
    /\ db \in Settings /\ conf \in Configurations
    /\ runtime \in Versions \cup {None} /\ old \in Versions \cup {None}
    /\ unit \in Versions \cup {None} /\ proc \in Versions \cup {None}
    /\ recovery \in Snapshots \cup {None, Empty} /\ transient \in Snapshots \cup {None, Empty}
    /\ enabled \in BOOLEAN /\ broken \in BOOLEAN

Operating ==
    /\ ~Busy => op = Idle
    /\ Busy => /\ op.kind \in Kinds /\ DOMAIN op = Fields
               /\ op.rev \in Versions /\ op.aside \in Versions \cup {None}
               /\ op.target \in {None, "transient", "recovery"}
               /\ op.kept \in Snapshots \cup {None}
               /\ op.half \in BOOLEAN /\ op.switched \in BOOLEAN /\ op.rolled \in BOOLEAN
               /\ op.fresh \in BOOLEAN /\ op.paused \in BOOLEAN

\* Up if it is to be.
Served == db = "active" => enabled /\ proc # None

Current == runtime = marker /\ conf = marker /\ unit = marker
Gone == runtime = None /\ conf = None /\ unit = None /\ old = None /\ db = "suspended"

Settled == (Current /\ Served) \/ Gone

\* Where an operation has changed nothing yet.
Untouched == {"preflight", "snapshot", "keep", "flag"}

\* An installation that is not broken is of one version, or is uninstalled.
Base ==
    /\ ~broken /\ marker # None /\ (op = Idle \/ op.pc \in Untouched) => Settled
    /\ ~broken /\ marker # None /\ op.kind = "resume" => Current \/ Gone
    /\ ~broken /\ marker # None /\ op.kind = "suspend" => Settled
    /\ ~broken /\ Busy /\ op.before.marker # None /\ op.before.runtime # None =>
          /\ op.before.conf = op.before.marker /\ op.before.runtime = op.before.marker
          /\ op.before.unit = op.before.marker

\* Whoever has a marker has settings, and who has none has nothing to go back to.
Marked ==
    /\ marker # None => db # None
    /\ marker = None => ~Whole(recovery)
    /\ Whole(recovery) /\ recovery.sound =>
          recovery.marker # None /\ recovery.conf \in {recovery.marker, None}
    /\ Whole(recovery) /\ recovery.sound /\ recovery.conf = None =>
          old = None /\ (op.kind = "rollback" => op.pc = "preflight")

\* The places of an operation that puts a version in place.
Early     == {"preflight", "snapshot", "transaction", "accounts", "paths"}
MarkedPcs == {"forget", "commit"}
WithUnit  == MarkedPcs \cup {"service", "verify"}
WithDb    == WithUnit \cup {"unit"}
WithConf  == WithDb \cup {"database"}
Switched  == WithConf \cup {"configuration"}
Forward   == Early \cup {"runtime"} \cup Switched

UnitBack    == {"undo service", "undo end"}
ContentBack == UnitBack \cup {"undo unit"}
TreesBack   == ContentBack \cup {"undo restore"}

\* What a converging operation has done to the trees.
Trees ==
    op.kind \in Converges =>
        /\ op.pc \in Forward \cup Undoing
        /\ op.pc \in Early \/ (op.pc = "runtime" /\ ~op.half) =>
              /\ runtime = op.before.runtime /\ old = op.before.old
              /\ ~op.switched /\ op.aside = None /\ ~op.rolled
        /\ op.pc = "runtime" /\ op.half =>
              /\ runtime = None /\ ~op.switched
              /\ IF op.rolled THEN old = op.before.runtime /\ op.aside = None
                 ELSE op.aside = op.before.runtime
        /\ op.pc \in Switched => runtime = op.rev /\ op.switched
        /\ op.pc \in Switched \cup {"undo stop", "undo trees"} /\ op.before.runtime # None =>
              IF ~op.switched THEN runtime = op.before.runtime
              ELSE op.aside = op.before.runtime
                   \/ (op.aside = None /\ op.rolled /\ old = op.before.runtime)
        /\ op.pc \in TreesBack /\ op.before.runtime # None => runtime = op.before.runtime
        /\ op.target = "transient" => old = op.before.old /\ ~op.rolled

\* What it has done to the records, the configuration and the settings.
Contents ==
    op.kind \in Converges =>
        /\ op.pc # "preflight" => /\ op.fresh = (op.before.marker = None)
                                  /\ op.fresh = (op.target = None)
        /\ op.pc = "preflight" =>
              op.target = None /\ ~op.fresh /\ recovery = op.before.recovery
        /\ op.pc \in Undoing => marker \in {op.before.marker, op.rev}
        /\ op.pc \in Forward \ MarkedPcs => marker = op.before.marker
        /\ op.pc \in Untouched => conf = op.before.conf
        /\ op.pc \in MarkedPcs => marker = op.rev
        /\ op.kind = "repair" /\ op.pc # "preflight" => op.before.marker = op.rev
        /\ op.pc \in WithConf => conf = op.rev
        /\ op.pc \in WithDb => db # None
        /\ op.pc \in WithUnit => unit = runtime
        /\ op.pc = "snapshot" => ~op.fresh
        /\ op.fresh => ~Whole(recovery)
        /\ op.target = "transient" =>
              (Whole(op.before.recovery) => recovery = op.before.recovery)

\* The snapshot that is gone back to.
Source ==
    op.kind \in Converges /\ op.pc \notin {"preflight", "snapshot"} /\ ~op.fresh =>
        /\ UndoSource \in Snapshots
        /\ UndoSource.marker = op.before.marker /\ UndoSource.conf = op.before.conf
        /\ op.asked = "suspended" => UndoSource.db = "suspended"
        /\ op.pc \in ContentBack \/ (op.pc = "undo restore" /\ op.half) =>
              (op.before.conf # None => conf = op.before.conf)
        /\ op.pc \in ContentBack => marker = op.before.marker

\* A snapshot of a retained installation is followed by no move aside.
Retained ==
    op.kind \in Converges /\ op.target = "recovery" /\ op.pc \in Early \cup {"runtime"}
          /\ Whole(recovery) /\ recovery.sound /\ recovery.conf = None
          /\ op.pc \notin {"preflight", "snapshot"} => runtime = None

\* Whether the service is up, and whether it is to be.
Service ==
    /\ op.kind \in Converges \cup {"rollback"} =>
          /\ op.pc \in {"verify"} \cup MarkedPcs => Served
          /\ op.pc = "undo end" /\ CanServe => Served
    /\ op.kind \in {"install", "update"} /\ op.pc \in {"unit", "service"} /\ op.paused =>
          db = "suspended"
    /\ op.kind \in Converges \cup {"rollback"} /\ op.pc \in UnitBack /\ CanServe => unit = runtime
    /\ op.kind \in Converges \cup {"suspend"} /\ op.asked = "suspended" => db = "suspended"

\* A rollback.
Swapped == {"restore", "unit", "service", "verify"}

Exchanged == runtime = op.before.old /\ old = op.before.runtime
AsBefore  == runtime = op.before.runtime /\ old = op.before.old

Rolling ==
    op.kind = "rollback" =>
        /\ op.pc \in {"preflight", "keep", "stop", "swap"} \cup Swapped \cup Undoing
        /\ ~op.fresh /\ op.target = None /\ recovery = op.before.recovery
        /\ op.half => op.pc \in {"restore", "undo restore"}
        /\ op.pc # "preflight" => marker # None /\ op.before.old # None /\ op.before.marker # None
        /\ op.pc \in {"preflight", "keep", "stop"} => AsBefore /\ ~op.switched /\ op.aside = None
        /\ op.pc = "swap" =>
              /\ ~op.switched
              /\ IF op.aside = None THEN AsBefore
                 ELSE /\ op.aside = op.before.runtime
                      /\ \/ runtime = None /\ old = op.before.old
                         \/ runtime = op.before.old /\ old = None
        /\ op.pc \in Swapped \/ (op.pc = "undo stop" /\ op.switched) =>
              Exchanged /\ op.switched /\ op.aside = None /\ op.before.runtime # None
        /\ op.pc = "undo stop" => op.aside = None /\ (~op.switched => AsBefore)
        /\ op.pc = "undo trees" =>
              IF op.aside = None THEN (IF op.switched THEN Exchanged ELSE AsBefore)
              ELSE /\ op.switched /\ op.aside = op.before.old
                   /\ \/ runtime = None /\ old = op.before.runtime
                      \/ runtime = op.before.runtime /\ old = None
        /\ op.pc \in TreesBack => AsBefore
        /\ op.pc \in Untouched => marker = op.before.marker /\ conf = op.before.conf
        /\ op.pc \notin {"preflight", "keep"} =>
              /\ op.kept \in Snapshots /\ op.kept.marker = op.before.marker
              /\ op.kept.conf = op.before.conf /\ op.kept.sound = ~broken
        /\ op.pc \in {"unit", "service", "verify"} =>
              Whole(recovery) /\ (recovery.marker # None => marker = recovery.marker)
        /\ op.pc \in {"unit", "service", "verify"} \/ (op.pc = "restore" /\ op.half) =>
              Whole(recovery) /\ (recovery.conf # None => conf = recovery.conf)
        /\ op.pc \in {"service", "verify"} => unit = runtime
        /\ op.pc \in ContentBack \/ (op.pc = "undo restore" /\ op.half) =>
              (op.before.conf # None => conf = op.before.conf)
        /\ op.pc \in ContentBack => marker = op.before.marker

\* suspend, resume and uninstall.
Down == {"stop", "host", "runtime", "configuration", "user", "state"}
Flagged ==
    /\ op.kind \in Flags => op.pc \in Down \cup {"preflight", "flag", "start"} /\ ~op.half
    /\ op.kind \in Flags /\ op.pc # "preflight" => marker # None
    /\ op.kind = "resume" /\ op.pc # "preflight" => runtime # None
    /\ op.kind \in Flags /\ op.pc \in Down => db = "suspended" /\ op.kind # "resume"
    /\ op.kind \in Uninstalls =>
          /\ op.pc \in Down \ {"stop", "host"} => unit = None
          /\ op.pc \in {"configuration", "user", "state"} => runtime = None /\ old = None
          /\ op.pc \in {"user", "state"} => conf = None
    /\ op.kind = "suspend" => op.pc \in {"preflight", "flag", "stop"}
    /\ op.kind = "resume" => op.pc \in {"preflight", "flag", "start"}
    /\ op.kind \in Uninstalls => op.pc # "start"

IInv ==
    /\ Values /\ Operating /\ Base /\ Marked /\ Trees /\ Contents /\ Source /\ Retained
    /\ Service /\ Rolling /\ Flagged

-------------------------------------------------------------------------------
\* The values that stand for nothing are none of the others.
LEMMA Names ==
  /\ Versions \cap {None, Empty} = {} /\ None # Empty
  /\ Snapshots \cap {None, Empty} = {}
  /\ None \notin {"active", "suspended", "foreign", "ours", "transient", "recovery"}
  BY NamesAssumption, RecordsAssumption

\* An operation ends.
LEMMA Ends ==
  ASSUME op' = Idle, Values', Marked',
         ~broken' /\ marker' # None => Settled'
  PROVE  IInv'
  BY DEF IInv, Operating, Busy, Base, Trees, Contents, Source, Retained, Service, Rolling, Flagged, Idle,
         Converges, Flags, Uninstalls

LEMMA InitInv == Init => IInv
  <1>1. SUFFICES ASSUME Init PROVE IInv
    OBVIOUS
  <1>2. Values
    BY <1>1 DEF Init, Values, Settings, Configurations
  <1>3. Marked
    BY <1>1, Names DEF Init, Marked, Whole
  <1>4. op = Idle /\ marker = None
    BY <1>1 DEF Init
  <1>5. QED
    BY <1>2, <1>3, <1>4
    DEF IInv, Operating, Busy, Base, Trees, Contents, Source, Retained, Service, Rolling, Flagged, Idle,
        Converges, Flags, Uninstalls

LEMMA IdleIs == Idle.kind = "none"
  BY DEF Idle

LEMMA SnapshotIsRecord ==
  ASSUME Values
  PROVE  Snapshot \in Snapshots /\ Whole(Snapshot)
  BY Names DEF Values, Snapshot, Snapshots, Whole

\* A step within an operation keeps what the operation remembers.
KeepsRest ==
    /\ op'.kind = op.kind /\ op'.rev = op.rev /\ op'.target = op.target /\ op'.kept = op.kept
    /\ op'.aside = op.aside /\ op'.switched = op.switched /\ op'.rolled = op.rolled
    /\ op'.fresh = op.fresh /\ op'.paused = op.paused /\ op'.before = op.before
    /\ op'.asked = op.asked

LEMMA Moves ==
  ASSUME Operating, Busy
  PROVE  /\ \A p : Goto(p) =>
               op'.pc = p /\ op'.half = FALSE /\ KeepsRest /\ Operating' /\ Busy'
         /\ GoHalfway =>
               op'.pc = op.pc /\ op'.half = TRUE /\ KeepsRest /\ Operating' /\ Busy'
  BY DEF Goto, GoHalfway, KeepsRest, Operating, Busy, Fields

\* A step that touches nothing but the operation.
LEMMA Standing ==
  ASSUME Values, UNCHANGED <<records, host, db, conf, trees, unit, snapshots, service, seen>>
  PROVE  Values' /\ (Settled' <=> Settled)
  <1>1. UNCHANGED <<marker, pending, db, conf, runtime, old, unit, recovery, transient, enabled,
                    proc, broken>>
    BY DEF records, trees, snapshots, service, seen
  <1>2. Values'
    BY <1>1 DEF Values
  <1>3. QED
    BY <1>1, <1>2 DEF Settled, Current, Gone, Served

\* What is left of a snapshot that is being removed.
LEMMA ClearedIs ==
  ASSUME NEW s \in Snapshots \cup {None, Empty}, NEW left \in Cleared(s)
  PROVE  /\ left \in Snapshots \cup {Empty}
         /\ Whole(left) => Whole(s) /\ ~left.sound
  <1>1. CASE left = Empty
    BY <1>1 DEF Whole
  <1>2. CASE left # Empty
    <2>1. Whole(s) /\ s \in Snapshots
      BY <1>2 DEF Cleared, Whole
    <2>2. left \in [marker : {s.marker, None}, db : {s.db, None}, conf : {s.conf, None},
                    sound : {FALSE}]
      BY <1>2, <2>1 DEF Cleared
    <2>3. s.marker \in Versions \cup {None} /\ s.db \in Settings /\ s.conf \in Configurations
      BY <2>1 DEF Snapshots
    <2>4. None \in Settings /\ None \in Configurations
      BY DEF Settings, Configurations
    <2>5. left \in Snapshots /\ ~left.sound
      BY <2>2, <2>3, <2>4 DEF Snapshots
    <2>6. QED
      BY <2>1, <2>5
  <1>3. QED
    BY <1>1, <1>2

LEMMA ClearSnapshotKeeps ==
  ASSUME IInv, ClearSnapshot
  PROVE  IInv'
  <1>1. op.kind \in Converges /\ Busy /\ op.pc = "snapshot"
    BY DEF ClearSnapshot, In, Halfway, Converges, Busy
  <1>2. op'.pc = "snapshot" /\ op'.half = TRUE /\ KeepsRest /\ Operating' /\ Busy'
    BY <1>1, Moves DEF ClearSnapshot, IInv
  <1>10. PICK left \in Cleared(Earlier) : Put(op.target, left)
    BY DEF ClearSnapshot
  <1>11. Earlier \in Snapshots \cup {None, Empty}
    BY DEF Earlier, IInv, Values
  <1>12. /\ left \in Snapshots \cup {Empty}
         /\ Whole(left) => Whole(Earlier) /\ ~left.sound
    BY <1>11, ClearedIs
  <1>3. Values'
    BY <1>1, <1>2, <1>10, <1>12, Names
    DEF ClearSnapshot, IInv, Values, Put, Started, records, host, trees, snapshots, service,
        seen
  <1>4. Base' /\ Marked'
    <2>1. UNCHANGED <<marker, db, old, broken>>
      BY DEF ClearSnapshot, records, trees, seen
    <2>4. recovery' = recovery \/ (Whole(recovery') => Whole(recovery) /\ ~recovery'.sound)
      BY <1>10, <1>12 DEF Put, Earlier
    <2>2. Marked'
      BY <1>1, <1>2, <2>1, <2>4 DEF IInv, Marked, KeepsRest, Whole, Converges
    <2>3. Base'
      BY <1>1, <1>2
      DEF ClearSnapshot, IInv, Base, Settled, Current, Gone, Served, KeepsRest, Untouched,
          Converges, Busy, Idle, records, trees, service, seen
    <2>5. QED
      BY <2>2, <2>3
  <1>5. Trees'
    BY <1>1, <1>2, Names
    DEF ClearSnapshot, IInv, Values, Trees, KeepsRest, Untouched, Early, MarkedPcs, WithUnit,
        WithDb, WithConf, Switched, Forward, UnitBack, ContentBack, TreesBack, Undoing, records,
        host, trees, snapshots, service, seen
  <1>6. Contents'
    BY <1>1, <1>2, <1>10, <1>12, Names
    DEF ClearSnapshot, IInv, Values, Contents, KeepsRest, Put, Earlier, Whole, Untouched, Early,
        MarkedPcs, WithUnit, WithDb, WithConf, Switched, Forward, UnitBack, ContentBack,
        TreesBack, Undoing, records, host, trees, snapshots, service, seen
  <1>7. Source' /\ Retained'
    BY <1>1, <1>2, <1>10, <1>12, Names
    DEF ClearSnapshot, IInv, Values, Source, Retained, UndoSource, KeepsRest, Put, Earlier, Whole,
        Untouched, Early, MarkedPcs, WithUnit, WithDb, WithConf, Switched, Forward, UnitBack,
        ContentBack, TreesBack, Undoing, records, host, trees, snapshots, service, seen
  <1>8. Service'
    BY <1>1, <1>2, Names
    DEF ClearSnapshot, IInv, Values, Service, Served, Started, KeepsRest, Untouched, Early,
        MarkedPcs, WithUnit, WithDb, WithConf, Switched, Forward, UnitBack, ContentBack,
        TreesBack, Undoing, records, host, trees, snapshots, service, seen
  <1>9. QED
    BY <1>1, <1>2, <1>3, <1>4, <1>5, <1>6, <1>7, <1>8
    DEF IInv, Rolling, Flagged, KeepsRest, Converges, Flags, Uninstalls

LEMMA TakeSnapshotKeeps ==
  ASSUME IInv, TakeSnapshot
  PROVE  IInv'
  <1>1. op.kind \in Converges /\ Busy /\ op.pc = "snapshot"
    BY DEF TakeSnapshot, In, Halfway, Converges, Busy
  <1>2. op'.pc = "accounts" /\ op'.half = FALSE /\ KeepsRest /\ Operating' /\ Busy'
    BY <1>1, Moves DEF TakeSnapshot, IInv
  <1>3. Values'
    BY <1>1, <1>2, Names, SnapshotIsRecord
    DEF TakeSnapshot, IInv, Values, Put, Started, records, host, trees, snapshots, service, seen
  <1>4. Base' /\ Marked'
    <2>1. marker # None
      BY <1>1, Names DEF IInv, Contents, Forward, Early, MarkedPcs
    <2>2. Base'
      BY <1>1, <1>2 DEF TakeSnapshot, IInv, Base, KeepsRest, Untouched, Converges, Busy, Idle, seen
    <2>3. ~broken => Settled
      BY <1>1, <2>1 DEF IInv, Base, Untouched
    <2>4. /\ Snapshot.marker = marker /\ Snapshot.conf = conf /\ Snapshot.sound = ~broken
          /\ recovery' \in {recovery, Snapshot}
      BY DEF TakeSnapshot, Snapshot, Put
    <2>5. Marked'
      BY <1>1, <1>2, <2>1, <2>3, <2>4, Names
      DEF TakeSnapshot, IInv, Values, Marked, Settled, Current, Gone, KeepsRest, Converges, Whole,
          records, trees
    <2>6. QED
      BY <2>2, <2>5
  <1>5. Trees'
    BY <1>1, <1>2, Names
    DEF TakeSnapshot, IInv, Values, Trees, KeepsRest, Untouched, Early, MarkedPcs, WithUnit,
        WithDb, WithConf, Switched, Forward, UnitBack, ContentBack, TreesBack, Undoing, records,
        host, trees, snapshots, service, seen
  <1>6. Contents'
    BY <1>1, <1>2, Names
    DEF TakeSnapshot, IInv, Values, Contents, KeepsRest, Put, Whole, Untouched, Early,
        MarkedPcs, WithUnit, WithDb, WithConf, Switched, Forward, UnitBack, ContentBack,
        TreesBack, Undoing, records, host, trees, snapshots, service, seen
  <1>7. Source' /\ Retained'
    <2>1. Snapshot \in Snapshots /\ Snapshot.marker = marker /\ Snapshot.conf = conf
          /\ Snapshot.db = db /\ Snapshot.sound = ~broken
      BY SnapshotIsRecord DEF IInv, Snapshot
    <2>2. /\ ~op.fresh /\ marker = op.before.marker /\ conf = op.before.conf
          /\ op.before.marker # None /\ op.target # None
      BY <1>1 DEF IInv, Contents, Forward, Early, MarkedPcs, Untouched
    <2>3. UndoSource' = Snapshot
      BY <1>1, <1>2, <2>2, Names DEF TakeSnapshot, UndoSource, Put, KeepsRest, IInv, Operating,
         Converges
    <2>4. Source'
      BY <1>1, <1>2, <2>1, <2>2, <2>3 DEF Source, KeepsRest, IInv, Service, ContentBack, UnitBack
    <2>5. ~broken => Settled
      BY <1>1, <2>2 DEF IInv, Base, Untouched
    <2>6. Retained'
      BY <1>1, <1>2, <2>1, <2>2, <2>3, <2>5, Names
      DEF TakeSnapshot, IInv, Retained, KeepsRest, UndoSource, Settled, Current, Gone, Put,
          Whole, trees, Converges
    <2>7. QED
      BY <2>4, <2>6
  <1>8. Service'
    BY <1>1, <1>2, Names
    DEF TakeSnapshot, IInv, Values, Service, Served, Started, KeepsRest, Untouched, Early,
        MarkedPcs, WithUnit, WithDb, WithConf, Switched, Forward, UnitBack, ContentBack,
        TreesBack, Undoing, records, host, trees, snapshots, service, seen
  <1>9. QED
    BY <1>1, <1>2, <1>3, <1>4, <1>5, <1>6, <1>7, <1>8
    DEF IInv, Rolling, Flagged, KeepsRest, Converges, Flags, Uninstalls

LEMMA EnsureAccountsKeeps ==
  ASSUME IInv, EnsureAccounts
  PROVE  IInv'
  <1>1. op.kind \in Converges /\ Busy /\ op.pc = "accounts"
    BY DEF EnsureAccounts, In, Halfway, Converges, Busy
  <1>2. op'.pc = "paths" /\ op'.half = FALSE /\ KeepsRest /\ Operating' /\ Busy'
    BY <1>1, Moves DEF EnsureAccounts, IInv
  <1>3. Values'
    BY <1>1, <1>2, Names
    DEF EnsureAccounts, IInv, Values, Put, Started, records, host, trees, snapshots, service,
        seen
  <1>4. Base' /\ Marked'
    BY <1>1, <1>2, Names
    DEF EnsureAccounts, IInv, Values, Base, Marked, KeepsRest, Untouched, Whole, Put, Converges,
        Busy, Idle, records, host, trees, snapshots, service, seen
  <1>5. Trees'
    BY <1>1, <1>2, Names
    DEF EnsureAccounts, IInv, Values, Trees, KeepsRest, Untouched, Early, MarkedPcs, WithUnit,
        WithDb, WithConf, Switched, Forward, UnitBack, ContentBack, TreesBack, Undoing, records,
        host, trees, snapshots, service, seen
  <1>6. Contents'
    BY <1>1, <1>2, Names
    DEF EnsureAccounts, IInv, Values, Contents, KeepsRest, Put, Whole, Untouched, Early,
        MarkedPcs, WithUnit, WithDb, WithConf, Switched, Forward, UnitBack, ContentBack,
        TreesBack, Undoing, records, host, trees, snapshots, service, seen
  <1>7. Source' /\ Retained'
    BY <1>1, <1>2, Names
    DEF EnsureAccounts, IInv, Values, Source, Retained, UndoSource, KeepsRest, Put, Whole,
        Untouched, Early, MarkedPcs, WithUnit, WithDb, WithConf, Switched, Forward, UnitBack,
        ContentBack, TreesBack, Undoing, records, host, trees, snapshots, service, seen
  <1>8. Service'
    BY <1>1, <1>2, Names
    DEF EnsureAccounts, IInv, Values, Service, Served, Started, KeepsRest, Untouched, Early,
        MarkedPcs, WithUnit, WithDb, WithConf, Switched, Forward, UnitBack, ContentBack,
        TreesBack, Undoing, records, host, trees, snapshots, service, seen
  <1>9. QED
    BY <1>1, <1>2, <1>3, <1>4, <1>5, <1>6, <1>7, <1>8
    DEF IInv, Rolling, Flagged, KeepsRest, Converges, Flags, Uninstalls

LEMMA EnsurePathsKeeps ==
  ASSUME IInv, EnsurePaths
  PROVE  IInv'
  <1>1. op.kind \in Converges /\ Busy /\ op.pc = "paths"
    BY DEF EnsurePaths, In, Halfway, Converges, Busy
  <1>2. op'.pc = "runtime" /\ op'.half = FALSE /\ KeepsRest /\ Operating' /\ Busy'
    BY <1>1, Moves DEF EnsurePaths, IInv
  <1>3. Values'
    BY <1>1, <1>2, Names
    DEF EnsurePaths, IInv, Values, Put, Started, Configurations, records, host, trees,
        snapshots, service, seen
  <1>4. Base' /\ Marked'
    BY <1>1, <1>2, Names
    DEF EnsurePaths, IInv, Values, Base, Marked, KeepsRest, Untouched, Whole, Put, Converges,
        Busy, Idle, records, host, trees, snapshots, service, seen
  <1>5. Trees'
    BY <1>1, <1>2, Names
    DEF EnsurePaths, IInv, Values, Trees, KeepsRest, Untouched, Early, MarkedPcs, WithUnit,
        WithDb, WithConf, Switched, Forward, UnitBack, ContentBack, TreesBack, Undoing, records,
        host, trees, snapshots, service, seen
  <1>6. Contents'
    BY <1>1, <1>2, Names
    DEF EnsurePaths, IInv, Values, Contents, KeepsRest, Put, Whole, Untouched, Early, MarkedPcs,
        WithUnit, WithDb, WithConf, Switched, Forward, UnitBack, ContentBack, TreesBack,
        Undoing, records, host, trees, snapshots, service, seen
  <1>7. Source' /\ Retained'
    BY <1>1, <1>2, Names
    DEF EnsurePaths, IInv, Values, Source, Retained, UndoSource, KeepsRest, Put, Whole,
        Untouched, Early, MarkedPcs, WithUnit, WithDb, WithConf, Switched, Forward, UnitBack,
        ContentBack, TreesBack, Undoing, records, host, trees, snapshots, service, seen
  <1>8. Service'
    BY <1>1, <1>2, Names
    DEF EnsurePaths, IInv, Values, Service, Served, Started, KeepsRest, Untouched, Early,
        MarkedPcs, WithUnit, WithDb, WithConf, Switched, Forward, UnitBack, ContentBack,
        TreesBack, Undoing, records, host, trees, snapshots, service, seen
  <1>9. QED
    BY <1>1, <1>2, <1>3, <1>4, <1>5, <1>6, <1>7, <1>8
    DEF IInv, Rolling, Flagged, KeepsRest, Converges, Flags, Uninstalls

LEMMA DeployConfigurationKeeps ==
  ASSUME IInv, DeployConfiguration
  PROVE  IInv'
  <1>1. op.kind \in Converges /\ Busy /\ op.pc = "configuration"
    BY DEF DeployConfiguration, In, Halfway, Converges, Busy
  <1>2. op'.pc = "database" /\ op'.half = FALSE /\ KeepsRest /\ Operating' /\ Busy'
    BY <1>1, Moves DEF DeployConfiguration, IInv
  <1>3. Values'
    BY <1>1, <1>2, Names
    DEF DeployConfiguration, IInv, Values, Put, Started, Configurations, Operating, records,
        host, trees, snapshots, service, seen
  <1>4. Base' /\ Marked'
    BY <1>1, <1>2, Names
    DEF DeployConfiguration, IInv, Values, Base, Marked, KeepsRest, Untouched, Whole, Put,
        Converges, Busy, Idle, records, host, trees, snapshots, service, seen
  <1>5. Trees'
    BY <1>1, <1>2, Names
    DEF DeployConfiguration, IInv, Values, Trees, KeepsRest, Untouched, Early, MarkedPcs,
        WithUnit, WithDb, WithConf, Switched, Forward, UnitBack, ContentBack, TreesBack,
        Undoing, records, host, trees, snapshots, service, seen
  <1>6. Contents'
    BY <1>1, <1>2, Names
    DEF DeployConfiguration, IInv, Values, Contents, KeepsRest, Put, Whole, Untouched, Early,
        MarkedPcs, WithUnit, WithDb, WithConf, Switched, Forward, UnitBack, ContentBack,
        TreesBack, Undoing, records, host, trees, snapshots, service, seen
  <1>7. Source' /\ Retained'
    BY <1>1, <1>2, Names
    DEF DeployConfiguration, IInv, Values, Source, Retained, UndoSource, KeepsRest, Put, Whole,
        Untouched, Early, MarkedPcs, WithUnit, WithDb, WithConf, Switched, Forward, UnitBack,
        ContentBack, TreesBack, Undoing, records, host, trees, snapshots, service, seen
  <1>8. Service'
    BY <1>1, <1>2, Names
    DEF DeployConfiguration, IInv, Values, Service, Served, Started, KeepsRest, Untouched,
        Early, MarkedPcs, WithUnit, WithDb, WithConf, Switched, Forward, UnitBack, ContentBack,
        TreesBack, Undoing, records, host, trees, snapshots, service, seen
  <1>9. QED
    BY <1>1, <1>2, <1>3, <1>4, <1>5, <1>6, <1>7, <1>8
    DEF IInv, Rolling, Flagged, KeepsRest, Converges, Flags, Uninstalls

LEMMA DeployUnitKeeps ==
  ASSUME IInv, DeployUnit
  PROVE  IInv'
  <1>1. op.kind \in Converges \cup {"rollback"} /\ Busy /\ op.pc = "unit"
    BY DEF DeployUnit, In, Halfway, Converges, Busy
  <1>2. op'.pc = "service" /\ op'.half = FALSE /\ KeepsRest /\ Operating' /\ Busy'
    BY <1>1, Moves DEF DeployUnit, IInv
  <1>3. Values'
    BY <1>1, <1>2, Names
    DEF DeployUnit, IInv, Values, Put, Started, records, host, trees, snapshots, service, seen
  <1>4. Base' /\ Marked'
    BY <1>1, <1>2, Names
    DEF DeployUnit, IInv, Values, Base, Marked, KeepsRest, Untouched, Whole, Put, Converges,
        Busy, Idle, records, host, trees, snapshots, service, seen
  <1>5. Trees'
    BY <1>1, <1>2, Names
    DEF DeployUnit, IInv, Values, Trees, KeepsRest, Untouched, Early, MarkedPcs, WithUnit,
        WithDb, WithConf, Switched, Forward, UnitBack, ContentBack, TreesBack, Undoing, records,
        host, trees, snapshots, service, seen
  <1>6. Contents'
    BY <1>1, <1>2, Names
    DEF DeployUnit, IInv, Values, Contents, KeepsRest, Put, Whole, Untouched, Early, MarkedPcs,
        WithUnit, WithDb, WithConf, Switched, Forward, UnitBack, ContentBack, TreesBack,
        Undoing, records, host, trees, snapshots, service, seen
  <1>7. Source' /\ Retained'
    BY <1>1, <1>2, Names
    DEF DeployUnit, IInv, Values, Source, Retained, UndoSource, KeepsRest, Put, Whole,
        Untouched, Early, MarkedPcs, WithUnit, WithDb, WithConf, Switched, Forward, UnitBack,
        ContentBack, TreesBack, Undoing, records, host, trees, snapshots, service, seen
  <1>8. Service'
    BY <1>1, <1>2, Names
    DEF DeployUnit, IInv, Values, Service, Served, Started, KeepsRest, Untouched, Early,
        MarkedPcs, WithUnit, WithDb, WithConf, Switched, Forward, UnitBack, ContentBack,
        TreesBack, Undoing, records, host, trees, snapshots, service, seen
  <1>9. Rolling'
    BY <1>1, <1>2, Names
    DEF DeployUnit, IInv, Values, Rolling, Swapped, Exchanged, AsBefore, KeepsRest, Untouched,
        Early, MarkedPcs, WithUnit, WithDb, WithConf, Switched, Forward, UnitBack, ContentBack,
        TreesBack, Undoing, records, host, trees, snapshots, service, seen
  <1>10. QED
    BY <1>1, <1>2, <1>3, <1>4, <1>5, <1>6, <1>7, <1>8, <1>9
    DEF IInv, Rolling, Flagged, KeepsRest, Converges, Flags, Uninstalls

LEMMA SettleServiceKeeps ==
  ASSUME IInv, SettleService
  PROVE  IInv'
  <1>1. op.kind \in Converges \cup {"rollback"} /\ Busy /\ op.pc = "service"
    BY DEF SettleService, In, Halfway, Converges, Busy
  <1>2. op'.pc = "verify" /\ op'.half = FALSE /\ KeepsRest /\ Operating' /\ Busy'
    BY <1>1, Moves DEF SettleService, IInv
  <1>3. Values'
    BY <1>1, <1>2, Names
    DEF SettleService, IInv, Values, Put, Started, records, host, trees, snapshots, service,
        seen
  <1>4. Base' /\ Marked'
    BY <1>1, <1>2, Names
    DEF SettleService, IInv, Values, Base, Marked, KeepsRest, Untouched, Whole, Put, Converges,
        Busy, Idle, records, host, trees, snapshots, service, seen
  <1>5. Trees'
    BY <1>1, <1>2, Names
    DEF SettleService, IInv, Values, Trees, KeepsRest, Untouched, Early, MarkedPcs, WithUnit,
        WithDb, WithConf, Switched, Forward, UnitBack, ContentBack, TreesBack, Undoing, records,
        host, trees, snapshots, service, seen
  <1>6. Contents'
    BY <1>1, <1>2, Names
    DEF SettleService, IInv, Values, Contents, KeepsRest, Put, Whole, Untouched, Early,
        MarkedPcs, WithUnit, WithDb, WithConf, Switched, Forward, UnitBack, ContentBack,
        TreesBack, Undoing, records, host, trees, snapshots, service, seen
  <1>7. Source' /\ Retained'
    BY <1>1, <1>2, Names
    DEF SettleService, IInv, Values, Source, Retained, UndoSource, KeepsRest, Put, Whole,
        Untouched, Early, MarkedPcs, WithUnit, WithDb, WithConf, Switched, Forward, UnitBack,
        ContentBack, TreesBack, Undoing, records, host, trees, snapshots, service, seen
  <1>8. Service'
    <2>1. runtime # None
      BY <1>1, Names
      DEF IInv, Operating, Trees, Rolling, Exchanged, Swapped, Switched, WithConf, WithDb, WithUnit
    <2>2. Served'
      BY <1>1, <1>2, <2>1, Names
      DEF SettleService, Served, Started, IInv, Service, Values, Settings, Converges
    <2>3. QED
      BY <1>1, <1>2, <2>2
      DEF SettleService, IInv, Service, KeepsRest, UnitBack, MarkedPcs, CanServe, Converges
  <1>9. Rolling'
    BY <1>1, <1>2, Names
    DEF SettleService, IInv, Values, Rolling, Swapped, Exchanged, AsBefore, KeepsRest,
        Untouched, Early, MarkedPcs, WithUnit, WithDb, WithConf, Switched, Forward, UnitBack,
        ContentBack, TreesBack, Undoing, records, host, trees, snapshots, service, seen
  <1>10. QED
    BY <1>1, <1>2, <1>3, <1>4, <1>5, <1>6, <1>7, <1>8, <1>9
    DEF IInv, Rolling, Flagged, KeepsRest, Converges, Flags, Uninstalls

LEMMA WriteMarkerKeeps ==
  ASSUME IInv, WriteMarker
  PROVE  IInv'
  <1>1. op.kind \in Converges /\ Busy /\ op.pc = "verify"
    BY DEF WriteMarker, In, Halfway, Converges, Busy
  <1>2. op'.pc = "forget" /\ op'.half = FALSE /\ KeepsRest /\ Operating' /\ Busy'
    BY <1>1, Moves DEF WriteMarker, IInv
  <1>3. Values'
    BY <1>1, <1>2, Names
    DEF WriteMarker, IInv, Values, Put, Started, Operating, records, host, trees, snapshots,
        service, seen
  <1>4. Base' /\ Marked'
    <2>1. db # None /\ op.rev # None
      BY <1>1, Names DEF IInv, Operating, Contents, WithDb, WithUnit
    <2>2. Base'
      BY <1>1, <1>2 DEF WriteMarker, IInv, Base, KeepsRest, Untouched, Converges, Busy, Idle, seen
    <2>3. Marked'
      BY <1>1, <1>2, <2>1
      DEF WriteMarker, IInv, Marked, KeepsRest, Converges, snapshots, trees
    <2>4. QED
      BY <2>2, <2>3
  <1>5. Trees'
    BY <1>1, <1>2, Names
    DEF WriteMarker, IInv, Values, Trees, KeepsRest, Untouched, Early, MarkedPcs, WithUnit,
        WithDb, WithConf, Switched, Forward, UnitBack, ContentBack, TreesBack, Undoing, records,
        host, trees, snapshots, service, seen
  <1>6. Contents'
    BY <1>1, <1>2, Names
    DEF WriteMarker, IInv, Values, Contents, KeepsRest, Put, Whole, Untouched, Early, MarkedPcs,
        WithUnit, WithDb, WithConf, Switched, Forward, UnitBack, ContentBack, TreesBack,
        Undoing, records, host, trees, snapshots, service, seen
  <1>7. Source' /\ Retained'
    BY <1>1, <1>2, Names
    DEF WriteMarker, IInv, Values, Source, Retained, UndoSource, KeepsRest, Put, Whole,
        Untouched, Early, MarkedPcs, WithUnit, WithDb, WithConf, Switched, Forward, UnitBack,
        ContentBack, TreesBack, Undoing, records, host, trees, snapshots, service, seen
  <1>8. Service'
    BY <1>1, <1>2, Names
    DEF WriteMarker, IInv, Values, Service, Served, Started, KeepsRest, Untouched, Early,
        MarkedPcs, WithUnit, WithDb, WithConf, Switched, Forward, UnitBack, ContentBack,
        TreesBack, Undoing, records, host, trees, snapshots, service, seen
  <1>9. QED
    BY <1>1, <1>2, <1>3, <1>4, <1>5, <1>6, <1>7, <1>8
    DEF IInv, Rolling, Flagged, KeepsRest, Converges, Flags, Uninstalls

LEMMA ForgetTransactionKeeps ==
  ASSUME IInv, ForgetTransaction
  PROVE  IInv'
  <1>1. op.kind \in Converges /\ Busy /\ op.pc = "forget"
    BY DEF ForgetTransaction, In, Halfway, Converges, Busy
  <1>2. op'.pc = "commit" /\ op'.half = FALSE /\ KeepsRest /\ Operating' /\ Busy'
    BY <1>1, Moves DEF ForgetTransaction, IInv
  <1>3. Values'
    BY <1>1, <1>2, Names
    DEF ForgetTransaction, IInv, Values, Put, Started, records, host, trees, snapshots, service,
        seen
  <1>4. Base' /\ Marked'
    BY <1>1, <1>2, Names
    DEF ForgetTransaction, IInv, Values, Base, Marked, KeepsRest, Untouched, Whole, Put,
        Converges, Busy, Idle, records, host, trees, snapshots, service, seen
  <1>5. Trees'
    BY <1>1, <1>2, Names
    DEF ForgetTransaction, IInv, Values, Trees, KeepsRest, Untouched, Early, MarkedPcs,
        WithUnit, WithDb, WithConf, Switched, Forward, UnitBack, ContentBack, TreesBack,
        Undoing, records, host, trees, snapshots, service, seen
  <1>6. Contents'
    BY <1>1, <1>2, Names
    DEF ForgetTransaction, IInv, Values, Contents, KeepsRest, Put, Whole, Untouched, Early,
        MarkedPcs, WithUnit, WithDb, WithConf, Switched, Forward, UnitBack, ContentBack,
        TreesBack, Undoing, records, host, trees, snapshots, service, seen
  <1>7. Source' /\ Retained'
    BY <1>1, <1>2, Names
    DEF ForgetTransaction, IInv, Values, Source, Retained, UndoSource, KeepsRest, Put, Whole,
        Untouched, Early, MarkedPcs, WithUnit, WithDb, WithConf, Switched, Forward, UnitBack,
        ContentBack, TreesBack, Undoing, records, host, trees, snapshots, service, seen
  <1>8. Service'
    BY <1>1, <1>2, Names
    DEF ForgetTransaction, IInv, Values, Service, Served, Started, KeepsRest, Untouched, Early,
        MarkedPcs, WithUnit, WithDb, WithConf, Switched, Forward, UnitBack, ContentBack,
        TreesBack, Undoing, records, host, trees, snapshots, service, seen
  <1>9. QED
    BY <1>1, <1>2, <1>3, <1>4, <1>5, <1>6, <1>7, <1>8
    DEF IInv, Rolling, Flagged, KeepsRest, Converges, Flags, Uninstalls

LEMMA PreflightKeeps ==
  ASSUME IInv, Preflight
  PROVE  IInv'
  <1>1. op.kind \in Converges /\ Busy /\ op.pc = "preflight" /\ op.half = FALSE /\ UNCHANGED
            <<records, host, db, conf, trees, unit, snapshots, service, seen>>
    BY DEF Preflight, In, Converges, Busy, IInv, Operating
  <1>2. Values' /\ (Settled' <=> Settled)
    BY <1>1, Standing DEF IInv
  <1>3. Marked'
    BY <1>1 DEF IInv, Marked, Converges, Idle, Preflight, records, trees, snapshots, Whole
  <1>4. CASE op' = Idle
    <2>1. ~broken /\ marker # None => Settled
      BY <1>1 DEF IInv, Base, Untouched
    <2>2. QED
      BY <1>1, <1>2, <1>3, <1>4, <2>1, Ends DEF records, seen
  <1>5. CASE op' # Idle
    <2>1. /\ op'.pc = (IF marker = None THEN "transaction" ELSE "snapshot") /\ op'.half = op.half
          /\ op'.fresh = (marker = None) /\ op'.kind = op.kind /\ op'.rev = op.rev
          /\ op'.kept = op.kept /\ op'.aside = op.aside /\ op'.switched = op.switched
          /\ op'.rolled = op.rolled /\ op'.paused = op.paused /\ op'.before = op.before
          /\ op'.asked = op.asked /\ DOMAIN op' = Fields
      BY <1>1, <1>5 DEF Preflight, IInv, Operating, Fields
    <2>2. op'.target = (IF marker = None THEN None
                        ELSE IF marker = op.rev THEN "transient" ELSE "recovery")
      <3>1. op'.target = (CASE marker = None -> None
                            [] marker = op.rev -> "transient"
                            [] OTHER -> "recovery")
        BY <1>1, <1>5 DEF Preflight, IInv, Operating, Fields
      <3>2. op.rev # None
        BY <1>1, Names DEF IInv, Operating
      <3>3. QED
        BY <3>1, <3>2
    <2>3. Operating' /\ Busy'
      BY <1>1, <2>1, <2>2 DEF IInv, Operating, Busy
    <2>4. Base'
      BY <1>1, <1>2, <2>1, <2>3 DEF IInv, Base, Untouched, Converges, Busy, Idle, seen, records
    <2>5. Trees' /\ Retained' /\ Source'
      BY <1>1, <2>1, <2>2, Names
      DEF IInv, Trees, Retained, Source, Early, Forward, Switched, WithConf, WithDb, WithUnit,
          MarkedPcs, TreesBack, ContentBack, UnitBack, trees
    <2>6. Contents'
      <3>1. /\ marker = op.before.marker /\ conf = op.before.conf /\ recovery = op.before.recovery
            /\ (marker = None => ~Whole(recovery))
        BY <1>1 DEF IInv, Contents, Marked, Forward, Early, Untouched, MarkedPcs
      <3>2. op.kind = "repair" => marker = op.rev
        BY <1>1 DEF Preflight, Accepted, Converges
      <3>3. /\ (op'.target = "transient" => marker = op.rev)
            /\ (op'.fresh <=> marker = None) /\ (op'.fresh <=> op'.target = None)
        BY <2>1, <2>2, Names
      <3>4. QED
        BY <1>1, <2>1, <3>1, <3>2, <3>3
        DEF Contents, Forward, Early, Untouched, Switched, WithConf, WithDb, WithUnit, MarkedPcs,
            Undoing, Whole, records, snapshots, host
    <2>7. Service'
      BY <1>1, <2>1 DEF IInv, Service, MarkedPcs, UnitBack
    <2>8. QED
      BY <1>1, <1>2, <1>3, <2>1, <2>3, <2>4, <2>5, <2>6, <2>7
      DEF IInv, Rolling, Flagged, Converges, Flags, Uninstalls
  <1>6. QED
    BY <1>4, <1>5

LEMMA EnsureTransactionKeeps ==
  ASSUME IInv, EnsureTransaction
  PROVE  IInv'
  <1>1. op.kind \in Converges /\ Busy /\ op.pc = "transaction"
    BY DEF EnsureTransaction, In, Halfway, Converges, Busy
  <1>2. /\ op'.pc \in {"transaction", "accounts"} /\ KeepsRest /\ Operating' /\ Busy'
    BY <1>1, Moves DEF EnsureTransaction, IInv
  <1>3. Values'
    BY <1>1, <1>2 DEF EnsureTransaction, Journalled, IInv, Values, host, trees, snapshots, service, seen
  <1>4. Base' /\ Marked'
    BY <1>1, <1>2
    DEF EnsureTransaction, IInv, Base, Marked, KeepsRest, Untouched, Converges, Busy, Idle, Whole,
        trees, snapshots, seen
  <1>5. Trees' /\ Contents'
    BY <1>1, <1>2, Names
    DEF EnsureTransaction, IInv, Trees, Contents, Untouched, Early, MarkedPcs, WithUnit, WithDb,
        WithConf, Switched, Forward, UnitBack, ContentBack, TreesBack, Undoing, KeepsRest, Whole,
        trees, snapshots
  <1>6. Source' /\ Retained' /\ Service'
    BY <1>1, <1>2
    DEF EnsureTransaction, IInv, Source, Retained, Service, UndoSource, Early, MarkedPcs, UnitBack,
        ContentBack, KeepsRest, Whole, trees, snapshots
  <1>7. QED
    BY <1>1, <1>2, <1>3, <1>4, <1>5, <1>6
    DEF IInv, Rolling, Flagged, KeepsRest, Converges, Flags, Uninstalls

LEMMA MoveAsideKeeps ==
  ASSUME IInv, MoveAside
  PROVE  IInv'
  <1>1. /\ op.kind \in Converges /\ Busy /\ op.pc = "runtime" /\ op.half = FALSE
        /\ runtime # None /\ runtime' = None /\ runtime \in Versions
    BY DEF MoveAside, In, Converges, Busy, IInv, Values
  <1>2. /\ op'.pc = "runtime" /\ op'.half = TRUE /\ op'.kind = op.kind /\ op'.rev = op.rev
        /\ op'.target = op.target /\ op'.kept = op.kept /\ op'.fresh = op.fresh
        /\ op'.switched = op.switched /\ op'.paused = op.paused /\ op'.before = op.before
        /\ op'.asked = op.asked /\ DOMAIN op' = Fields
        /\ IF op.target = "transient"
           THEN op'.aside = runtime /\ op'.rolled = op.rolled /\ old' = old
           ELSE op'.aside = op.aside /\ op'.rolled = TRUE /\ old' = runtime
    BY <1>1 DEF MoveAside, IInv, Operating, Fields
  <1>3. Values'
    BY <1>1, <1>2 DEF MoveAside, IInv, Values, records, snapshots, service, seen
  <1>4. Operating' /\ Busy'
    <2>1. op'.aside \in Versions \cup {None} /\ op'.rolled \in BOOLEAN
      BY <1>1, <1>2 DEF IInv, Operating
    <2>2. QED
      BY <1>1, <1>2, <2>1 DEF IInv, Operating, Busy
  <1>5. Base'
    BY <1>1, <1>2
    DEF MoveAside, IInv, Base, Untouched, Converges, Busy, Idle, records, seen
  <1>6. Marked'
    <2>1. op.target # "transient" =>
             ~(Whole(recovery) /\ recovery.sound /\ recovery.conf = None)
      BY <1>1
      DEF IInv, Operating, Contents, Retained, Early, Untouched
    <2>2. QED
      BY <1>1, <1>2, <2>1
      DEF MoveAside, IInv, Marked, Converges, Whole, records, snapshots
  <1>7. Trees' /\ Contents'
    BY <1>1, <1>2, Names
    DEF MoveAside, IInv, Trees, Contents, Untouched, Early, MarkedPcs, WithUnit, WithDb,
        WithConf, Switched, Forward, UnitBack, ContentBack, TreesBack, Undoing, Whole,
        records, snapshots
  <1>8. Source' /\ Retained' /\ Service'
    BY <1>1, <1>2
    DEF MoveAside, IInv, Source, Retained, Service, UndoSource, Early, MarkedPcs, UnitBack,
        ContentBack, Whole, records, snapshots
  <1>9. QED
    BY <1>1, <1>2, <1>3, <1>5, <1>6, <1>7, <1>8, <1>4
    DEF IInv, Rolling, Flagged, Converges, Flags, Uninstalls

LEMMA PutInPlaceKeeps ==
  ASSUME IInv, PutInPlace
  PROVE  IInv'
  <1>1. /\ op.kind \in Converges /\ Busy /\ op.pc = "runtime" /\ op.rev \in Versions
        /\ runtime' = op.rev /\ (op.half = FALSE => runtime = None)
    BY DEF PutInPlace, In, Halfway, Converges, Busy, IInv, Operating
  <1>2. /\ op'.pc = "configuration" /\ op'.half = FALSE /\ op'.kind = op.kind /\ op'.rev = op.rev
        /\ op'.target = op.target /\ op'.kept = op.kept /\ op'.fresh = op.fresh
        /\ op'.switched = TRUE /\ op'.paused = op.paused /\ op'.before = op.before
        /\ op'.asked = op.asked /\ DOMAIN op' = Fields
        /\ op'.aside = op.aside /\ op'.rolled = op.rolled
    BY <1>1 DEF PutInPlace, IInv, Operating, Fields
  <1>3. Values' /\ Operating' /\ Busy'
    BY <1>1, <1>2 DEF PutInPlace, IInv, Values, Operating, Busy, records, snapshots, service, seen
  <1>4. Base' /\ Marked'
    BY <1>1, <1>2
    DEF PutInPlace, IInv, Base, Marked, Untouched, Converges, Busy, Idle, Whole, records, snapshots,
        seen
  <1>5. Trees'
    BY <1>1, <1>2, Names
    DEF PutInPlace, IInv, Trees, Operating, Early, MarkedPcs, WithUnit, WithDb,
        WithConf, Switched, Forward, UnitBack, ContentBack, TreesBack, Undoing
  <1>6. Contents'
    BY <1>1, <1>2, Names
    DEF PutInPlace, IInv, Contents, Untouched, Early, MarkedPcs, WithUnit, WithDb,
        WithConf, Switched, Forward, Undoing, Whole, records, snapshots
  <1>7. Source' /\ Retained' /\ Service'
    BY <1>1, <1>2
    DEF PutInPlace, IInv, Source, Retained, Service, UndoSource, Early, MarkedPcs, UnitBack,
        ContentBack, Whole, records, snapshots
  <1>8. QED
    BY <1>1, <1>2, <1>3, <1>4, <1>5, <1>6, <1>7
    DEF IInv, Rolling, Flagged, Converges, Flags, Uninstalls

LEMMA InitializeDatabaseKeeps ==
  ASSUME IInv, InitializeDatabase
  PROVE  IInv'
  <1>1. /\ op.kind \in Converges /\ Busy /\ op.pc = "database" /\ op.half = FALSE
        /\ db' # None /\ db' \in Settings /\ (db = "suspended" => db' = "suspended")
    BY Names DEF InitializeDatabase, In, Converges, Busy, IInv, Values, Initialized, Settings
  <1>2. /\ op'.pc = "unit" /\ op'.half = FALSE /\ op'.kind = op.kind /\ op'.rev = op.rev
        /\ op'.target = op.target /\ op'.kept = op.kept /\ op'.fresh = op.fresh
        /\ op'.switched = op.switched /\ op'.before = op.before
        /\ op'.asked = op.asked /\ DOMAIN op' = Fields
        /\ op'.aside = op.aside /\ op'.rolled = op.rolled /\ op'.paused = (db' = "suspended")
    BY <1>1 DEF InitializeDatabase, IInv, Operating, Fields
  <1>3. Values' /\ Operating' /\ Busy'
    BY <1>1, <1>2
    DEF InitializeDatabase, IInv, Values, Operating, Busy, records, trees, snapshots, service, seen
  <1>4. Base' /\ Marked'
    BY <1>1, <1>2
    DEF InitializeDatabase, IInv, Base, Marked, Untouched, Converges, Busy, Idle, Whole, records,
        trees, snapshots, seen
  <1>5. Trees' /\ Contents'
    BY <1>1, <1>2, Names
    DEF InitializeDatabase, IInv, Trees, Contents, Untouched, Early, MarkedPcs, WithUnit, WithDb,
        WithConf, Switched, Forward, UnitBack, ContentBack, TreesBack, Undoing, Whole,
        records, trees, snapshots
  <1>6. Source' /\ Retained' /\ Service'
    BY <1>1, <1>2
    DEF InitializeDatabase, IInv, Source, Retained, Service, UndoSource, Early, MarkedPcs, UnitBack,
        ContentBack, Whole, records, snapshots
  <1>7. QED
    BY <1>1, <1>2, <1>3, <1>4, <1>5, <1>6
    DEF IInv, Rolling, Flagged, Converges, Flags, Uninstalls

LEMMA CommitKeeps ==
  ASSUME IInv, Commit
  PROVE  IInv'
  <1>1. op.kind \in Converges /\ Busy /\ op.pc \in {"commit", "verify"} /\ op' = Idle
    BY DEF Commit, In, Converges, Busy
  <1>2. marker = op.rev /\ runtime = op.rev /\ conf = op.rev /\ unit = op.rev /\ Served
    BY <1>1
    DEF Commit, In, IInv, Trees, Contents, Service, Untouched, Early, MarkedPcs, WithUnit, WithDb,
        WithConf, Switched, Forward
  <1>3. Values'
    BY Names DEF Commit, IInv, Values, records, trees, service
  <1>4. Marked' /\ Settled'
    BY <1>1, <1>2
    DEF Commit, IInv, Marked, Settled, Current, Served, Converges, Idle, Whole, records, trees,
        service
  <1>5. QED
    BY <1>1, <1>3, <1>4, Ends

LEMMA ConvergeKeeps ==
  ASSUME IInv, Converge
  PROVE  IInv'
  BY PreflightKeeps, ClearSnapshotKeeps, TakeSnapshotKeeps, EnsureTransactionKeeps,
     EnsureAccountsKeeps, EnsurePathsKeeps, MoveAsideKeeps, PutInPlaceKeeps,
     DeployConfigurationKeeps, InitializeDatabaseKeeps, DeployUnitKeeps, SettleServiceKeeps,
     WriteMarkerKeeps, ForgetTransactionKeeps, CommitKeeps DEF Converge

-------------------------------------------------------------------------------
\* What a step of a rollback need not mind.
LEMMA RollingOnly ==
  ASSUME IInv, op.kind = "rollback", op'.kind = op.kind
  PROVE  Trees' /\ Contents' /\ Source' /\ Retained' /\ Flagged'
  BY DEF Trees, Contents, Source, Retained, Flagged, Converges, Flags, Uninstalls

LEMMA RollbackPreflightKeeps ==
  ASSUME IInv, RollbackPreflight
  PROVE  IInv'
  <1>1. op.kind = "rollback" /\ Busy /\ op.pc = "preflight" /\ marker # None /\ old # None
    BY DEF RollbackPreflight, In, Busy
  <1>2. op'.pc = "keep" /\ op'.half = FALSE /\ KeepsRest /\ Operating' /\ Busy'
    BY <1>1, Moves DEF RollbackPreflight, IInv
  <1>3. Values' /\ (Settled' <=> Settled)
    BY Standing DEF RollbackPreflight, IInv
  <1>4. Base' /\ Service'
    BY <1>1, <1>2, <1>3
    DEF RollbackPreflight, IInv, Base, Service, Untouched, KeepsRest, Converges, Busy, Idle, records,
        seen, MarkedPcs, UnitBack
  <1>5. Marked'
    BY <1>1, <1>2 DEF RollbackPreflight, IInv, Marked, Whole, records, trees, snapshots
  <1>6. Rolling'
    BY <1>1, <1>2
    DEF RollbackPreflight, IInv, Rolling, KeepsRest, Swapped, AsBefore, UnitBack, ContentBack,
        TreesBack, Undoing, Untouched, records, trees, snapshots
  <1>7. QED
    BY <1>1, <1>2, <1>3, <1>4, <1>5, <1>6, RollingOnly DEF IInv, KeepsRest

LEMMA KeepCurrentKeeps ==
  ASSUME IInv, KeepCurrent
  PROVE  IInv'
  <1>1. op.kind = "rollback" /\ Busy /\ op.pc = "keep"
    BY DEF KeepCurrent, In, Busy
  <1>2. /\ op'.pc = "stop" /\ op'.half = op.half /\ op'.kind = op.kind /\ op'.rev = op.rev
        /\ op'.target = op.target /\ op'.kept = Snapshot /\ op'.fresh = op.fresh
        /\ op'.switched = op.switched /\ op'.paused = op.paused /\ op'.before = op.before
        /\ op'.asked = op.asked /\ DOMAIN op' = Fields
        /\ op'.aside = op.aside /\ op'.rolled = op.rolled
    BY <1>1 DEF KeepCurrent, IInv, Operating, Fields
  <1>3. Values' /\ (Settled' <=> Settled)
    BY Standing DEF KeepCurrent, IInv
  <1>4. Operating' /\ Busy' /\ Snapshot \in Snapshots
    BY <1>1, <1>2, SnapshotIsRecord DEF IInv, Operating, Busy
  <1>5. Base' /\ Service'
    BY <1>1, <1>2, <1>3, <1>4
    DEF KeepCurrent, IInv, Base, Service, Untouched, Converges, Busy, Idle, records, seen,
        MarkedPcs, UnitBack
  <1>6. Marked'
    BY <1>1, <1>2 DEF KeepCurrent, IInv, Marked, Whole, records, trees, snapshots
  <1>7. Rolling'
    BY <1>1, <1>2, <1>4
    DEF KeepCurrent, IInv, Rolling, Snapshot, Swapped, AsBefore, UnitBack, ContentBack,
        TreesBack, Undoing, Untouched, records, trees, snapshots, seen
  <1>8. QED
    BY <1>1, <1>2, <1>3, <1>4, <1>5, <1>6, <1>7, RollingOnly DEF IInv

LEMMA StopServiceKeeps ==
  ASSUME IInv, StopService
  PROVE  IInv'
  <1>1. op.kind = "rollback" /\ Busy /\ op.pc = "stop"
    BY DEF StopService, In, Busy
  <1>2. op'.pc = "swap" /\ op'.half = FALSE /\ KeepsRest /\ Operating' /\ Busy'
    BY <1>1, Moves DEF StopService, IInv
  <1>3. Values'
    BY DEF StopService, IInv, Values, records, trees, snapshots, seen
  <1>4. Base' /\ Service' /\ Marked'
    BY <1>1, <1>2
    DEF StopService, IInv, Base, Service, Marked, Untouched, KeepsRest, Converges, Busy, Idle,
        Whole, records, trees, snapshots, seen, MarkedPcs, UnitBack
  <1>5. Rolling'
    BY <1>1, <1>2
    DEF StopService, IInv, Rolling, KeepsRest, Swapped, AsBefore, UnitBack, ContentBack,
        TreesBack, Undoing, Untouched, records, trees, snapshots, seen
  <1>6. QED
    BY <1>1, <1>2, <1>3, <1>4, <1>5, RollingOnly DEF IInv, KeepsRest

LEMMA SwapOutKeeps ==
  ASSUME IInv, SwapOut
  PROVE  IInv'
  <1>1. /\ op.kind = "rollback" /\ Busy /\ op.pc \in {"swap", "undo trees"} /\ op.aside = None
        /\ runtime \in Versions /\ runtime' = None /\ UNCHANGED old
        /\ (op.pc = "undo trees" => op.switched)
    BY DEF SwapOut, Swapping, Busy, IInv, Values
  <1>2. /\ op'.pc = op.pc /\ op'.half = op.half /\ op'.kind = op.kind /\ op'.rev = op.rev
        /\ op'.target = op.target /\ op'.kept = op.kept /\ op'.fresh = op.fresh
        /\ op'.switched = op.switched /\ op'.paused = op.paused /\ op'.before = op.before
        /\ op'.asked = op.asked /\ DOMAIN op' = Fields
        /\ op'.aside = runtime /\ op'.rolled = op.rolled
    BY <1>1 DEF SwapOut, IInv, Operating, Fields
  <1>3. Values' /\ Operating' /\ Busy'
    BY <1>1, <1>2
    DEF SwapOut, IInv, Values, Operating, Busy, records, snapshots, service, seen
  <1>4. Base' /\ Service' /\ Marked'
    BY <1>1, <1>2
    DEF SwapOut, IInv, Base, Service, Marked, Untouched, Converges, Busy, Idle, Whole, records,
        snapshots, seen, MarkedPcs, UnitBack
  <1>5. Rolling'
    <2>1. UNCHANGED <<marker, conf, unit, recovery, broken>>
      BY DEF SwapOut, records, snapshots, seen
    <2>2. CASE op.pc = "swap"
      BY <1>1, <1>2, <2>1, <2>2, Names
      DEF IInv, Rolling, Swapped, AsBefore, Exchanged, UnitBack, ContentBack,
          TreesBack, Undoing, Untouched
    <2>3. CASE op.pc = "undo trees"
      BY <1>1, <1>2, <2>1, <2>3, Names
      DEF IInv, Rolling, Swapped, AsBefore, Exchanged, UnitBack, ContentBack,
          TreesBack, Undoing, Untouched
    <2>4. QED
      BY <1>1, <2>2, <2>3
  <1>6. QED
    BY <1>1, <1>2, <1>3, <1>4, <1>5, RollingOnly DEF IInv

LEMMA SwapInKeeps ==
  ASSUME IInv, SwapIn
  PROVE  IInv'
  <1>1. /\ op.kind = "rollback" /\ Busy /\ op.pc \in {"swap", "undo trees"} /\ op.aside # None
        /\ runtime = None /\ runtime' = old /\ old' = None /\ UNCHANGED op
    BY DEF SwapIn, Swapping, Busy
  <1>2. Values' /\ Operating' /\ Busy'
    BY <1>1 DEF SwapIn, IInv, Values, Operating, Busy, records, snapshots, service, seen
  <1>3. Base' /\ Service'
    <2>1. /\ op'.pc \notin Untouched \cup {"undo end", "verify"} \cup MarkedPcs \cup UnitBack
          /\ op'.kind = "rollback" /\ broken' = broken /\ op'.before = op.before /\ Busy
      BY <1>1 DEF SwapIn, Untouched, MarkedPcs, UnitBack, seen
    <2>2. op' # Idle
      BY <2>1, IdleIs
    <2>3. Base'
      BY <2>1, <2>2 DEF IInv, Base, Busy
    <2>4. Service'
      BY <2>1 DEF Service, Converges
    <2>5. QED
      BY <2>3, <2>4
  <1>4. Marked'
    <2>1. UNCHANGED <<marker, db, recovery>> /\ op'.kind = "rollback" /\ marker # None
      BY <1>1 DEF SwapIn, IInv, Rolling, records, snapshots
    <2>2. ~(Whole(recovery) /\ recovery.sound /\ recovery.conf = None)
      BY <1>1 DEF IInv, Marked
    <2>3. QED
      BY <2>1, <2>2 DEF IInv, Marked, Whole
  <1>5. Rolling'
    <2>1. UNCHANGED <<marker, conf, unit, recovery, broken, op>>
      BY <1>1 DEF SwapIn, records, snapshots, seen
    <2>2. CASE op.pc = "swap"
      <3>1. op.aside = op.before.runtime /\ runtime' = op.before.old /\ old' = None
        BY <1>1, <2>2, Names DEF IInv, Rolling, AsBefore
      <3>2. QED
        BY <1>1, <2>1, <2>2, <3>1
        DEF IInv, Rolling, Swapped, UnitBack, ContentBack, TreesBack, Undoing, Untouched
    <2>3. CASE op.pc = "undo trees"
      <3>1. op.aside = op.before.old /\ runtime' = op.before.runtime /\ old' = None
        BY <1>1, <2>3, Names DEF IInv, Rolling
      <3>2. QED
        BY <1>1, <2>1, <2>3, <3>1
        DEF IInv, Rolling, Swapped, UnitBack, ContentBack, TreesBack, Undoing, Untouched
    <2>4. QED
      BY <1>1, <2>2, <2>3
  <1>6. QED
    BY <1>1, <1>2, <1>3, <1>4, <1>5, RollingOnly DEF IInv

LEMMA SwapBackKeeps ==
  ASSUME IInv, SwapBack
  PROVE  IInv'
  <1>1. /\ op.kind = "rollback" /\ Busy /\ op.pc \in {"swap", "undo trees"} /\ op.aside \in Versions
        /\ op.aside # None /\ runtime # None /\ old' = op.aside /\ UNCHANGED runtime
    BY DEF SwapBack, Swapping, Busy, IInv, Operating
  <1>2. /\ op'.pc = (IF op.pc = "swap" THEN "restore" ELSE "undo restore")
        /\ op'.half = op.half /\ op'.kind = op.kind /\ op'.rev = op.rev
        /\ op'.target = op.target /\ op'.kept = op.kept /\ op'.fresh = op.fresh
        /\ op'.switched = (op.pc = "swap") /\ op'.paused = op.paused /\ op'.before = op.before
        /\ op'.asked = op.asked /\ DOMAIN op' = Fields
        /\ op'.aside = None /\ op'.rolled = op.rolled
    BY <1>1 DEF SwapBack, IInv, Operating, Fields
  <1>3. Values' /\ Operating' /\ Busy'
    BY <1>1, <1>2
    DEF SwapBack, IInv, Values, Operating, Busy, records, snapshots, service, seen
  <1>4. Base' /\ Service'
    <2>1. op'.pc \in {"restore", "undo restore"}
      BY <1>1, <1>2
    <2>2. /\ op'.pc \notin Untouched \cup {"undo end", "verify"} \cup MarkedPcs \cup UnitBack
          /\ op'.kind = "rollback" /\ broken' = broken /\ op'.before = op.before /\ Busy
      BY <1>1, <1>2, <2>1 DEF SwapBack, Untouched, MarkedPcs, UnitBack, seen
    <2>3. op' # Idle
      BY <2>2, IdleIs
    <2>4. Base'
      BY <2>2, <2>3 DEF IInv, Base, Busy
    <2>5. Service'
      BY <2>2 DEF Service, Converges
    <2>6. QED
      BY <2>4, <2>5
  <1>5. Marked'
    <2>1. UNCHANGED <<marker, db, recovery>> /\ op'.kind = "rollback" /\ marker # None
      BY <1>1, <1>2 DEF SwapBack, IInv, Rolling, records, snapshots
    <2>2. ~(Whole(recovery) /\ recovery.sound /\ recovery.conf = None)
      BY <1>1 DEF IInv, Marked
    <2>3. QED
      BY <2>1, <2>2 DEF IInv, Marked, Whole
  <1>6. op'.half = FALSE
    BY <1>1, <1>2 DEF IInv, Operating, Rolling
  <1>7. Rolling'
    <2>1. UNCHANGED <<marker, pending, conf, unit, recovery, broken>>
      BY DEF SwapBack, records, snapshots, seen
    <2>2. CASE op.pc = "swap"
      <3>1. /\ op'.pc = "restore" /\ op'.switched = TRUE /\ op.aside = op.before.runtime
            /\ runtime = op.before.old
        BY <1>1, <1>2, <2>2 DEF IInv, Rolling
      <3>2. QED
       BY <1>1, <1>2, <1>6, <2>1, <2>2, <3>1
       DEF IInv, Rolling, Swapped, AsBefore, Exchanged, UnitBack, ContentBack,
          TreesBack, Undoing, Untouched
    <2>3. CASE op.pc = "undo trees"
      BY <1>1, <1>2, <1>6, <2>1, <2>3
      DEF IInv, Rolling, Swapped, AsBefore, Exchanged, UnitBack, ContentBack,
          TreesBack, Undoing, Untouched
    <2>4. QED
      BY <1>1, <2>2, <2>3
  <1>8. QED
    BY <1>1, <1>2, <1>3, <1>4, <1>7, <1>5, RollingOnly DEF IInv

LEMMA RestoreKeeps ==
  ASSUME IInv, Restore
  PROVE  IInv'
  <1>1. /\ op.kind = "rollback" /\ Busy /\ op.pc = "restore"
        /\ recovery \in Snapshots
        /\ UNCHANGED <<pending, runtime, old, unit, recovery, transient, enabled, proc, broken>>
    BY DEF Restore, Restorable, Whole, Busy, IInv, Values, Marked, trees, snapshots, service, seen
  <1>2. KeepsRest /\ Operating' /\ Busy'
    BY <1>1, Moves DEF Restore, IInv
  <1>3. /\ recovery.marker \in Versions \cup {None} /\ recovery.conf \in Configurations
        /\ recovery.db \in Settings
    BY <1>1 DEF Snapshots
  <1>4. marker # None /\ Exchanged /\ op.switched /\ op.aside = None /\ op.before.runtime # None
    BY <1>1 DEF IInv, Rolling, Swapped
  <1>5. \/ /\ ~op.half /\ op'.pc = "restore" /\ op'.half = TRUE /\ marker' = marker
           /\ db' = (IF recovery.db = None THEN db ELSE recovery.db)
           /\ conf' = (IF recovery.conf = None THEN conf ELSE recovery.conf)
        \/ /\ op.half /\ op'.pc = "unit" /\ op'.half = FALSE
           /\ marker' = (IF recovery.marker = None THEN marker ELSE recovery.marker)
           /\ UNCHANGED <<db, conf>>
    BY <1>1, Moves DEF Restore, RestoreContents, RestoreMarker, IInv
  <1>6. Values'
    BY <1>1, <1>3, <1>5 DEF IInv, Values
  <1>7. Base' /\ Service'
    <2>1. op'.pc \notin Untouched \cup {"undo end", "verify"} \cup MarkedPcs \cup UnitBack
      BY <1>5 DEF Untouched, MarkedPcs, UnitBack
    <2>2. op' # Idle /\ op'.kind = "rollback"
      BY <1>1, <1>2, IdleIs DEF KeepsRest
    <2>3. QED
      BY <1>1, <1>2, <2>1, <2>2 DEF IInv, Base, Service, KeepsRest, Converges
  <1>8. Marked'
    <2>1. marker' # None /\ (db # None => db' # None)
      BY <1>3, <1>4, <1>5, Names
    <2>2. QED
      BY <1>1, <1>2, <1>4, <2>1 DEF IInv, Marked, Whole, KeepsRest
  <1>9. Rolling'
    BY <1>1, <1>2, <1>3, <1>4, <1>5, Names
    DEF IInv, Rolling, KeepsRest, Swapped, AsBefore, Exchanged, UnitBack, ContentBack,
        TreesBack, Undoing, Untouched, Whole
  <1>10. QED
    BY <1>1, <1>2, <1>6, <1>7, <1>8, <1>9, RollingOnly DEF IInv, KeepsRest

LEMMA RotateKeeps ==
  ASSUME IInv, Rotate
  PROVE  IInv'
  <1>1. /\ op.kind = "rollback" /\ Busy /\ op.pc = "verify" /\ op.half = FALSE
        /\ UNCHANGED <<marker, pending, db, conf, runtime, old, unit, transient, enabled, proc>>
        /\ marker = runtime /\ recovery' = op.kept /\ op' = Idle
        /\ broken' = (broken \/ ~recovery.sound)
    BY DEF Rotate, In, Busy, records, trees, service
  <1>2. /\ Exchanged /\ op.before.runtime # None /\ marker # None /\ op.before.marker # None
        /\ op.kept \in Snapshots /\ op.kept.marker = op.before.marker
        /\ op.kept.conf = op.before.conf /\ op.kept.sound = ~broken
        /\ Whole(recovery) /\ (recovery.marker # None => marker = recovery.marker)
        /\ unit = runtime
        /\ (recovery.conf # None => conf = recovery.conf)
    BY <1>1 DEF IInv, Rolling, Swapped
  <1>3. Values'
    BY <1>1, <1>2, Names DEF Rotate, IInv, Values
  <1>4. ~broken => op.before.conf = op.before.marker /\ op.before.conf # None
    BY <1>1, <1>2 DEF IInv, Base
  <1>5. Marked'
    BY <1>1, <1>2, <1>4, Names DEF IInv, Marked, Whole, Idle
  <1>6. ~broken' => Settled'
    <2>1. ~broken' => conf = marker
      BY <1>1, <1>2 DEF IInv, Marked
    <2>2. Served
      BY <1>1 DEF IInv, Service
    <2>3. QED
      BY <1>1, <1>2, <2>1, <2>2 DEF Settled, Current, Served
  <1>7. QED
    BY <1>1, <1>3, <1>5, <1>6, Ends

LEMMA RollbackKeeps ==
  ASSUME IInv, Rollback
  PROVE  IInv'
  BY RollbackPreflightKeeps, KeepCurrentKeeps, StopServiceKeeps, SwapOutKeeps, SwapInKeeps,
     SwapBackKeeps, RestoreKeeps, RotateKeeps DEF Rollback

-------------------------------------------------------------------------------
\* In the middle of a change nothing is said of what is installed.
LEMMA MidBase ==
  ASSUME IInv, Busy, op.kind \in Converges \cup {"rollback"}, op'.kind = op.kind,
         op'.pc \notin Untouched, op'.before = op.before, broken' = broken
  PROVE  Base'
  <1>1. op' # Idle
    BY IdleIs DEF Busy
  <1>2. QED
    BY <1>1 DEF IInv, Base, Converges

LEMMA UndoStopKeeps ==
  ASSUME IInv, UndoStop
  PROVE  IInv'
  <1>1. op.kind \in Converges \cup {"rollback"} /\ Busy /\ op.pc = "undo stop"
    BY DEF UndoStop, Undoes, In, Busy, Converges
  <1>2. op'.pc = "undo trees" /\ op'.half = FALSE /\ KeepsRest /\ Operating' /\ Busy'
    BY <1>1, Moves DEF UndoStop, IInv
  <1>3. Values'
    BY Names DEF UndoStop, IInv, Values, records, trees, snapshots, seen
  <1>4. Base'
    BY <1>1, <1>2, MidBase DEF UndoStop, KeepsRest, Untouched, seen
  <1>5. Marked'
    BY <1>1, <1>2 DEF UndoStop, IInv, Marked, KeepsRest, Whole, records, trees, snapshots
  <1>6. Trees' /\ Contents' /\ Retained' /\ Service'
    BY <1>1, <1>2
    DEF UndoStop, IInv, Trees, Contents, Retained, Service, Untouched, Early, MarkedPcs, WithUnit,
        WithDb, WithConf, Switched, Forward, UnitBack, ContentBack, TreesBack, Undoing, KeepsRest,
        Whole, records, trees, snapshots
  <1>7. Source'
    BY <1>1, <1>2
    DEF UndoStop, IInv, Source, UndoSource, UnitBack, ContentBack, KeepsRest, records, snapshots
  <1>8. Rolling'
    BY <1>1, <1>2
    DEF UndoStop, IInv, Rolling, Swapped, AsBefore, Exchanged, UnitBack, ContentBack,
        TreesBack, Undoing, Untouched, KeepsRest, Whole, records, trees, snapshots, seen
  <1>9. QED
    BY <1>1, <1>2, <1>3, <1>4, <1>6, <1>7, <1>8, <1>5
    DEF IInv, Flagged, KeepsRest, Converges, Flags, Uninstalls

LEMMA UndoTreesKeeps ==
  ASSUME IInv, UndoTrees
  PROVE  IInv'
  <1>1. op.kind \in Converges \cup {"rollback"} /\ Busy /\ op.pc = "undo trees"
    BY DEF UndoTrees, Undoes, In, Busy, Converges
  <1>2. op'.pc = "undo restore" /\ op'.half = FALSE /\ KeepsRest /\ Operating' /\ Busy'
    BY <1>1, Moves DEF UndoTrees, IInv
  <1>3. /\ runtime' \in {runtime, op.aside, old} /\ old' \in {old, None}
        /\ (op.kind = "rollback" =>
              op.switched = FALSE /\ op.aside = None /\ runtime' = runtime /\ old' = old)
        /\ (op.kind # "rollback" =>
              IF ~op.switched THEN runtime' = runtime /\ old' = old
              ELSE IF op.aside # None THEN runtime' = op.aside /\ old' = old
              ELSE IF op.rolled THEN runtime' = old /\ old' = None
              ELSE runtime' = runtime /\ old' = old)
    BY <1>1 DEF UndoTrees, PutBack, IInv, Operating
  <1>4. Values'
    <2>1. op.aside \in Versions \cup {None}
      BY <1>1 DEF IInv, Operating
    <2>2. QED
      BY <1>3, <2>1 DEF UndoTrees, IInv, Values, records, snapshots, service, seen
  <1>5. Base' /\ Marked'
    <2>1. Base'
      BY <1>1, <1>2, MidBase DEF UndoTrees, KeepsRest, Untouched, seen
    <2>2. UNCHANGED <<marker, db, recovery>> /\ (old = None => old' = None)
      BY <1>3 DEF UndoTrees, records, snapshots
    <2>3. Marked'
      BY <1>1, <1>2, <2>2 DEF IInv, Marked, KeepsRest, Whole
    <2>4. QED
      BY <2>1, <2>3
  <1>6. Trees'
    BY <1>1, <1>2, <1>3, Names
    DEF IInv, Trees, Early, MarkedPcs, WithUnit, WithDb, WithConf, Switched, Forward, UnitBack,
        ContentBack, TreesBack, Undoing, KeepsRest, Converges
  <1>7. Contents' /\ Retained' /\ Service'
    BY <1>1, <1>2
    DEF UndoTrees, IInv, Contents, Retained, Service, Untouched, Early, MarkedPcs, WithUnit,
        WithDb, WithConf, Switched, Forward, UnitBack, ContentBack, Undoing, KeepsRest,
        Whole, records, snapshots
  <1>8. Source'
    BY <1>1, <1>2
    DEF UndoTrees, IInv, Source, UndoSource, UnitBack, ContentBack, KeepsRest, records, snapshots
  <1>9. Rolling'
    BY <1>1, <1>2, <1>3
    DEF UndoTrees, IInv, Rolling, Swapped, AsBefore, Exchanged, UnitBack, ContentBack,
        TreesBack, Undoing, Untouched, KeepsRest, Whole, records, snapshots, seen
  <1>10. QED
    BY <1>1, <1>2, <1>4, <1>5, <1>6, <1>7, <1>8, <1>9
    DEF IInv, Flagged, KeepsRest, Converges, Flags, Uninstalls

\* The snapshot that is gone back to is of what there was before.
LEMMA SourceIs ==
  ASSUME IInv, Busy, op.kind \in Converges \cup {"rollback"}, op.pc = "undo restore"
  PROVE  /\ UndoSource \in Snapshots \cup {None, Empty}
         /\ op.fresh => ~Whole(UndoSource)
         /\ ~op.fresh => /\ UndoSource \in Snapshots /\ Whole(UndoSource)
                         /\ UndoSource.marker = op.before.marker /\ op.before.marker # None
                         /\ UndoSource.conf = op.before.conf /\ marker # None
                         /\ (op.asked = "suspended" /\ op.kind \in Converges =>
                                UndoSource.db = "suspended")
  <1>1. CASE op.kind = "rollback"
    <2>1. UndoSource = op.kept /\ op.kind \notin Converges
      BY <1>1, Names DEF UndoSource, Converges, IInv, Rolling
    <2>2. QED
      BY <1>1, <2>1, Names DEF IInv, Rolling, Whole
  <1>2. CASE op.kind \in Converges
    <2>1. /\ op.fresh = (op.before.marker = None) /\ op.fresh = (op.target = None)
          /\ marker \in {op.before.marker, op.rev} /\ op.rev # None
          /\ (op.fresh => ~Whole(recovery))
      BY <1>2, Names DEF IInv, Contents, Operating, Undoing
    <2>2. UndoSource = (IF op.target = "transient" THEN transient ELSE recovery)
      BY <1>2 DEF UndoSource, Converges
    <2>3. CASE op.fresh
      BY <1>2, <2>1, <2>2, <2>3, Names DEF IInv, Values
    <2>4. CASE ~op.fresh
      BY <1>2, <2>1, <2>4, Names DEF IInv, Source, Whole
    <2>5. QED
      BY <2>3, <2>4
  <1>3. QED
    BY <1>1, <1>2

LEMMA UndoRestoreKeeps ==
  ASSUME IInv, UndoRestore
  PROVE  IInv'
  <1>1. /\ op.kind \in Converges \cup {"rollback"} /\ Busy /\ op.pc = "undo restore"
        /\ UNCHANGED <<pending, runtime, old, unit, recovery, transient, enabled, proc, broken>>
    BY DEF UndoRestore, Converges, Busy, trees, snapshots, service, seen
  <1>2. op'.pc \in {"undo restore", "undo unit"} /\ KeepsRest /\ Operating' /\ Busy'
    BY <1>1, Moves DEF UndoRestore, IInv
  <1>3. \/ /\ op.fresh /\ op'.pc = "undo unit" /\ op'.half = FALSE /\ UNCHANGED <<marker, db, conf>>
        \/ /\ ~op.fresh /\ ~op.half /\ op'.pc = "undo restore" /\ op'.half = TRUE
           /\ marker' = marker
           /\ db' = (IF UndoSource.db = None THEN db ELSE UndoSource.db)
           /\ conf' = (IF UndoSource.conf = None THEN conf ELSE UndoSource.conf)
        \/ /\ ~op.fresh /\ op.half /\ op'.pc = "undo unit" /\ op'.half = FALSE
           /\ marker' = op.before.marker /\ UNCHANGED <<db, conf>>
    BY <1>1, SourceIs, Moves DEF UndoRestore, RestoreContents, RestoreMarker, IInv, Operating
  <1>4. ~op.fresh => /\ UndoSource.marker \in Versions \cup {None}
                     /\ UndoSource.conf \in Configurations /\ UndoSource.db \in Settings
    BY <1>1, SourceIs DEF Snapshots
  <1>5. Values'
    <2>1. marker' \in Versions \cup {None} /\ db' \in Settings /\ conf' \in Configurations
      BY <1>1, <1>3, <1>4, SourceIs DEF IInv, Values
    <2>2. QED
      BY <1>1, <2>1 DEF IInv, Values
  <1>6. Base'
    BY <1>1, <1>2, MidBase DEF KeepsRest, Untouched
  <1>7. Marked'
    <2>1. /\ (marker' # None => marker # None) /\ (marker # None => marker' # None)
          /\ (db # None => db' # None)
      BY <1>1, <1>3, <1>4, SourceIs
    <2>2. QED
      BY <1>1, <1>2, <2>1 DEF IInv, Marked, KeepsRest, Whole
  <1>8. Trees' /\ Retained'
    BY <1>1, <1>2
    DEF IInv, Trees, Retained, Early, MarkedPcs, WithUnit, WithDb, WithConf, Switched, Forward,
        UnitBack, ContentBack, TreesBack, Undoing, KeepsRest, Whole
  <1>9. Contents'
    BY <1>1, <1>2, <1>3
    DEF IInv, Contents, Untouched, Early, MarkedPcs, WithUnit, WithDb, WithConf, Switched, Forward,
        Undoing, KeepsRest, Whole
  <1>10. UndoSource' = UndoSource
    BY <1>1, <1>2 DEF UndoSource, KeepsRest
  <1>11. Source'
    BY <1>1, <1>2, <1>3, <1>10, SourceIs
    DEF IInv, Source, ContentBack, UnitBack, KeepsRest
  <1>12. Service'
    BY <1>1, <1>2, <1>3, SourceIs, Names
    DEF IInv, Service, MarkedPcs, UnitBack, KeepsRest, Converges
  <1>13. Rolling'
    BY <1>1, <1>2, <1>3, SourceIs, Names
    DEF IInv, Rolling, UndoSource, Swapped, AsBefore, UnitBack, ContentBack, TreesBack, Undoing,
        Untouched, KeepsRest
  <1>14. QED
    BY <1>1, <1>2, <1>5, <1>6, <1>7, <1>8, <1>9, <1>11, <1>12, <1>13
    DEF IInv, Flagged, KeepsRest, Converges, Flags, Uninstalls

LEMMA UndoUnitKeeps ==
  ASSUME IInv, UndoUnit
  PROVE  IInv'
  <1>1. op.kind \in Converges \cup {"rollback"} /\ Busy /\ op.pc = "undo unit"
    BY DEF UndoUnit, Undoes, In, Busy, Converges
  <1>2. op'.pc = "undo service" /\ op'.half = FALSE /\ KeepsRest /\ Operating' /\ Busy'
    BY <1>1, Moves DEF UndoUnit, IInv
  <1>3. Values'
    BY DEF UndoUnit, IInv, Values, records, trees, snapshots, service, seen
  <1>4. Base'
    BY <1>1, <1>2, MidBase DEF UndoUnit, KeepsRest, Untouched, seen
  <1>5. Marked'
    BY <1>1, <1>2 DEF UndoUnit, IInv, Marked, KeepsRest, Whole, records, trees, snapshots
  <1>6. Trees' /\ Contents' /\ Retained'
    BY <1>1, <1>2
    DEF UndoUnit, IInv, Trees, Contents, Retained, Untouched, Early, MarkedPcs, WithUnit,
        WithDb, WithConf, Switched, Forward, UnitBack, ContentBack, TreesBack, Undoing, KeepsRest,
        Whole, records, trees, snapshots
  <1>7. Source'
    BY <1>1, <1>2
    DEF UndoUnit, IInv, Source, UndoSource, UnitBack, ContentBack, KeepsRest, records, snapshots
  <1>8. Service'
    BY <1>1, <1>2
    DEF UndoUnit, IInv, Service, CanServe, MarkedPcs, UnitBack, KeepsRest, trees
  <1>9. Rolling'
    BY <1>1, <1>2
    DEF UndoUnit, IInv, Rolling, Swapped, AsBefore, Exchanged, UnitBack, ContentBack,
        TreesBack, Undoing, Untouched, KeepsRest, Whole, records, trees, snapshots, seen
  <1>10. QED
    BY <1>1, <1>2, <1>3, <1>4, <1>5, <1>6, <1>7, <1>8, <1>9
    DEF IInv, Flagged, KeepsRest, Converges, Flags, Uninstalls

LEMMA UndoServiceKeeps ==
  ASSUME IInv, UndoService
  PROVE  IInv'
  <1>1. op.kind \in Converges \cup {"rollback"} /\ Busy /\ op.pc = "undo service"
    BY DEF UndoService, Undoes, In, Busy, Converges
  <1>2. op'.pc = "undo end" /\ op'.half = FALSE /\ KeepsRest /\ Operating' /\ Busy'
    BY <1>1, Moves DEF UndoService, IInv
  <1>3. Values'
    BY DEF UndoService, StartedAgain, Started, IInv, Values, records, trees, snapshots, service, seen
  <1>4. Base'
    BY <1>1, <1>2, MidBase DEF UndoService, KeepsRest, Untouched, seen
  <1>5. Marked'
    BY <1>1, <1>2 DEF UndoService, IInv, Marked, KeepsRest, Whole, records, trees, snapshots
  <1>6. Trees' /\ Contents' /\ Retained'
    BY <1>1, <1>2
    DEF UndoService, IInv, Trees, Contents, Retained, Untouched, Early, MarkedPcs, WithUnit,
        WithDb, WithConf, Switched, Forward, UnitBack, ContentBack, TreesBack, Undoing, KeepsRest,
        Whole, records, trees, snapshots
  <1>7. Source'
    BY <1>1, <1>2
    DEF UndoService, IInv, Source, UndoSource, UnitBack, ContentBack, KeepsRest, records, snapshots
  <1>8. Service'
    BY <1>1, <1>2
    DEF UndoService, StartedAgain, Started, Served, IInv, Service, CanServe, MarkedPcs, UnitBack,
        KeepsRest, trees
  <1>9. Rolling'
    BY <1>1, <1>2
    DEF UndoService, IInv, Rolling, Swapped, AsBefore, Exchanged, UnitBack, ContentBack,
        TreesBack, Undoing, Untouched, KeepsRest, Whole, records, trees, snapshots, seen
  <1>10. QED
    BY <1>1, <1>2, <1>3, <1>4, <1>5, <1>6, <1>7, <1>8, <1>9
    DEF IInv, Flagged, KeepsRest, Converges, Flags, Uninstalls

\* What a failed operation has been undone to, when it was not broken before.
LEMMA UndoneIs ==
  ASSUME IInv, op.kind \in Converges \cup {"rollback"}, op.pc = "undo end", ~op.fresh, ~broken,
         op.before.runtime # None
  PROVE  /\ marker = op.before.marker /\ marker # None /\ Current /\ Served
         /\ op.before.conf = marker /\ op.before.runtime = marker /\ op.before.unit = marker
         /\ op.target # "recovery" =>
               old = op.before.old /\ (Whole(op.before.recovery) => recovery = op.before.recovery)
  <1>1. Busy
    BY DEF Busy, Converges
  <1>2. /\ runtime = op.before.runtime /\ marker = op.before.marker /\ marker # None
        /\ (op.before.conf # None => conf = op.before.conf)
    BY DEF IInv, Trees, Contents, Source, Rolling, AsBefore, TreesBack, ContentBack, UnitBack
  <1>3. op.before.conf = marker /\ op.before.runtime = marker /\ op.before.unit = marker
    BY <1>1, <1>2 DEF IInv, Base
  <1>4. CanServe
    BY <1>2, <1>3 DEF CanServe, IInv, Marked
  <1>5. unit = runtime /\ Served
    BY <1>4 DEF IInv, Service, UnitBack
  <1>6. op.target # "recovery" =>
           old = op.before.old /\ (Whole(op.before.recovery) => recovery = op.before.recovery)
    <2>1. CASE op.kind = "rollback"
      BY <2>1 DEF IInv, Rolling, AsBefore, TreesBack, ContentBack, UnitBack
    <2>2. CASE op.kind \in Converges
      BY <1>1, <2>2 DEF IInv, Operating, Trees, Contents
    <2>3. QED
      BY <2>1, <2>2
  <1>7. QED
    BY <1>2, <1>3, <1>5, <1>6 DEF Current

LEMMA UndoEndKeeps ==
  ASSUME IInv, UndoEnd
  PROVE  IInv'
  <1>1. /\ op.kind \in Converges \cup {"rollback"} /\ Busy /\ op.pc = "undo end"
        /\ UNCHANGED <<pending, db, conf, runtime, old, unit, recovery, enabled, proc>>
        /\ marker' = (IF op.fresh THEN None ELSE marker)
        /\ broken' = (broken \/ op.before.runtime = None) /\ op' = Idle
    BY DEF UndoEnd, Undoes, In, Busy, Converges, trees, service
  <1>2. Values'
    BY <1>1, Names DEF UndoEnd, IInv, Values
  <1>3. op.fresh => ~Whole(recovery)
    BY <1>1 DEF IInv, Contents, Rolling
  <1>4. Marked'
    BY <1>1, <1>3 DEF IInv, Marked, Whole, Idle
  <1>5. ~broken' /\ marker' # None => Settled'
    BY <1>1, UndoneIs DEF Settled, Current, Served
  <1>6. QED
    BY <1>1, <1>2, <1>4, <1>5, Ends

LEMMA UndoKeeps ==
  ASSUME IInv, Undo
  PROVE  IInv'
  BY UndoStopKeeps, UndoTreesKeeps, UndoRestoreKeeps, UndoUnitKeeps, UndoServiceKeeps, UndoEndKeeps
  DEF Undo

-------------------------------------------------------------------------------
\* What suspending, resuming and uninstalling need not mind.
LEMMA FlagsOnly ==
  ASSUME IInv, op.kind \in Flags, op'.kind = op.kind
  PROVE  /\ Trees' /\ Contents' /\ Source' /\ Retained' /\ Rolling'
         /\ (op.kind = "suspend" /\ op'.asked = "suspended" => db' = "suspended") => Service'
  BY DEF Trees, Contents, Source, Retained, Rolling, Service, Converges, Flags, Uninstalls

LEMMA FlagPreflightKeeps ==
  ASSUME IInv, FlagPreflight
  PROVE  IInv'
  <1>1. /\ op.kind \in Flags /\ Busy /\ op.pc = "preflight" /\ marker # None
        /\ (op.kind = "resume" => runtime # None)
        /\ UNCHANGED <<marker, pending, db, conf, runtime, old, unit, recovery, broken>>
    BY DEF FlagPreflight, ResumeAccepted, In, Busy, Flags, Uninstalls, records, trees, snapshots,
           seen
  <1>2. op'.pc = "flag" /\ op'.half = FALSE /\ KeepsRest /\ Operating' /\ Busy'
    BY <1>1, Moves DEF FlagPreflight, IInv
  <1>3. Values' /\ (Settled' <=> Settled)
    BY Standing DEF FlagPreflight, IInv
  <1>4. Base'
    BY <1>1, <1>2, <1>3
    DEF IInv, Base, Untouched, KeepsRest, Settled, Current, Gone, Flags, Uninstalls, Busy
  <1>5. Marked'
    BY <1>1, <1>2 DEF IInv, Marked, Whole, KeepsRest, Flags, Uninstalls
  <1>6. Flagged' /\ Service'
    BY <1>1, <1>2, FlagsOnly DEF IInv, Flagged, Service, KeepsRest, Down, Flags, Uninstalls
  <1>7. QED
    BY <1>1, <1>2, <1>3, <1>4, <1>5, <1>6, FlagsOnly DEF IInv, KeepsRest

LEMMA FlagKeeps ==
  ASSUME IInv, Flag
  PROVE  IInv'
  <1>1. /\ op.kind \in Flags /\ Busy /\ op.pc = "flag" /\ marker # None /\ db # None
        /\ (op.kind = "resume" => runtime # None)
        /\ UNCHANGED <<marker, pending, conf, runtime, old, unit, recovery, transient, enabled,
                       proc, broken>>
        /\ db' = (IF op.kind = "resume" THEN "active" ELSE "suspended")
    BY DEF Flag, In, Busy, Flags, Uninstalls, records, trees, snapshots, service, seen, IInv,
           Flagged, Marked
  <1>2. /\ op'.pc = (IF op.kind = "resume" THEN "start" ELSE "stop") /\ op'.half = FALSE
        /\ KeepsRest /\ Operating' /\ Busy'
    BY <1>1, Moves DEF Flag, IInv
  <1>3. Values'
    BY <1>1 DEF IInv, Values, Settings
  <1>4. Base'
    <2>1. op' # Idle /\ op'.pc \notin Untouched
      BY <1>2, IdleIs DEF Busy, Untouched
    <2>2. CASE op.kind = "resume"
      BY <1>1, <1>2, <2>1, <2>2 DEF IInv, Base, Untouched, KeepsRest, Settled, Current, Gone
    <2>3. CASE op.kind # "resume"
      BY <1>1, <1>2, <2>1, <2>3, Names
      DEF IInv, Base, Untouched, KeepsRest, Settled, Current, Gone, Served
    <2>4. QED
      BY <2>2, <2>3
  <1>5. Marked'
    BY <1>1, <1>2, Names DEF IInv, Marked, Whole, KeepsRest, Flags, Uninstalls
  <1>6. Flagged' /\ Service'
    BY <1>1, <1>2, FlagsOnly DEF IInv, Flagged, KeepsRest, Down, Flags, Uninstalls
  <1>7. QED
    BY <1>1, <1>2, <1>3, <1>4, <1>5, <1>6, FlagsOnly DEF IInv, KeepsRest

LEMMA StopKeeps ==
  ASSUME IInv, Stop
  PROVE  IInv'
  <1>1. /\ op.kind \in Flags /\ Busy /\ op.pc = "stop" /\ db = "suspended"
        /\ UNCHANGED <<marker, pending, db, conf, runtime, old, unit, recovery, transient, broken>>
        /\ proc' = None /\ enabled' \in {enabled, FALSE}
    BY DEF Stop, In, Busy, Flags, Uninstalls, records, trees, snapshots, seen, IInv, Flagged, Down
  <1>2. Values'
    BY <1>1 DEF IInv, Values
  <1>3. CASE op.kind = "suspend"
    <2>1. op' = Idle
      BY <1>3 DEF Stop
    <2>2. Marked'
      BY <1>1, <2>1 DEF IInv, Marked, Whole, Idle
    <2>3. ~broken /\ marker # None => Settled'
      BY <1>1, <1>3 DEF IInv, Base, Settled, Current, Gone, Served
    <2>4. QED
      BY <1>1, <1>2, <2>1, <2>2, <2>3, Ends
  <1>4. CASE op.kind # "suspend"
    <2>1. op'.pc = "host" /\ op'.half = FALSE /\ KeepsRest /\ Operating' /\ Busy'
      BY <1>1, <1>4, Moves DEF Stop, IInv
    <2>2. op.kind \in Uninstalls /\ op' # Idle
      BY <1>1, <1>4, <2>1, IdleIs DEF IInv, Flagged, Flags, Busy
    <2>3. Base'
      BY <1>1, <2>1, <2>2 DEF IInv, Base, Untouched, KeepsRest, Uninstalls
    <2>4. Marked'
      BY <1>1, <2>1, <2>2 DEF IInv, Marked, Whole, KeepsRest, Uninstalls
    <2>5. Flagged' /\ Service'
      BY <1>1, <2>1, <2>2, FlagsOnly DEF IInv, Flagged, KeepsRest, Down, Flags, Uninstalls
    <2>6. QED
      BY <1>1, <1>2, <2>1, <2>3, <2>4, <2>5, FlagsOnly DEF IInv, KeepsRest
  <1>5. QED
    BY <1>3, <1>4

LEMMA ResumeKeeps ==
  ASSUME IInv, Resume
  PROVE  IInv'
  <1>1. /\ op.kind = "resume" /\ op.pc = "start" /\ runtime # None /\ op' = Idle
        /\ UNCHANGED <<marker, pending, db, conf, runtime, old, unit, recovery, transient, broken>>
        /\ enabled' = TRUE /\ proc' = (IF proc = None THEN runtime ELSE proc)
    BY DEF Resume, Started, In, IInv, Flagged, records, trees, snapshots, seen
  <1>2. Values'
    BY <1>1 DEF IInv, Values
  <1>3. Marked'
    BY <1>1 DEF IInv, Marked, Whole, Idle
  <1>4. ~broken' /\ marker' # None => Settled'
    BY <1>1 DEF IInv, Base, Settled, Current, Gone, Served
  <1>5. QED
    BY <1>1, <1>2, <1>3, <1>4, Ends

\* A step of a removal takes something away and goes on.
LEMMA Removing ==
  ASSUME IInv, op.kind \in Uninstalls, op.pc \in Down, NEW p \in Down \ {"stop"}, Goto(p),
         UNCHANGED <<marker, pending, db, recovery, transient, enabled, proc, broken>>,
         unit' \in {unit, None}, runtime' \in {runtime, None}, old' \in {old, None},
         conf' \in {conf, None},
         p # "host" => unit' = None,
         p \in {"configuration", "user", "state"} => runtime' = None /\ old' = None,
         p \in {"user", "state"} => conf' = None
  PROVE  IInv'
  <1>1. Busy /\ op.kind \in Flags \ {"suspend", "resume"}
    BY DEF Busy, Flags, Uninstalls
  <1>2. op'.pc = p /\ op'.half = FALSE /\ KeepsRest /\ Operating' /\ Busy' /\ op' # Idle
    BY <1>1, Moves, IdleIs DEF IInv, Busy
  <1>3. Values'
    BY DEF IInv, Values, Configurations
  <1>4. Base'
    BY <1>1, <1>2 DEF IInv, Base, Untouched, KeepsRest, Down
  <1>5. Marked'
    <2>1. op'.kind # "rollback" /\ (old = None => old' = None)
      BY <1>1, <1>2 DEF KeepsRest, Flags, Uninstalls
    <2>2. QED
      BY <2>1 DEF IInv, Marked, Whole
  <1>6. Flagged' /\ Service'
    BY <1>1, <1>2, FlagsOnly DEF IInv, Flagged, KeepsRest, Down
  <1>7. QED
    BY <1>1, <1>2, <1>3, <1>4, <1>5, <1>6, FlagsOnly DEF IInv, KeepsRest

LEMMA RemovalKeeps ==
  ASSUME IInv, RemoveHost \/ RemoveTrees \/ RemoveConfiguration \/ RemoveAccount
  PROVE  IInv'
  <1>1. /\ op.kind \in Uninstalls /\ op.pc \in Down
        /\ UNCHANGED <<marker, pending, db, recovery, transient, enabled, proc, broken>>
    BY DEF RemoveHost, RemoveTrees, RemoveConfiguration, RemoveAccount, In, Down, records,
           snapshots, service, seen
  <1>2. /\ op.pc \notin {"stop", "host"} => unit = None
        /\ op.pc \in {"configuration", "user", "state"} => runtime = None /\ old = None
        /\ op.pc \in {"user", "state"} => conf = None
    BY <1>1 DEF IInv, Flagged
  <1>3. CASE RemoveHost
    <2>1. "runtime" \in Down \ {"stop"}
      BY DEF Down
    <2>2. QED
      BY <1>1, <1>2, <1>3, <2>1, Removing DEF RemoveHost, In, trees
  <1>4. CASE RemoveTrees
    <2>1. op.pc = "runtime" /\ unit = None /\ {"runtime", "configuration"} \subseteq Down \ {"stop"}
      BY <1>2, <1>4 DEF RemoveTrees, In, Down
    <2>2. CASE runtime = None
      BY <1>1, <1>4, <2>1, <2>2, Removing DEF RemoveTrees
    <2>3. CASE runtime # None
      BY <1>1, <1>4, <2>1, <2>3, Removing DEF RemoveTrees
    <2>4. QED
      BY <2>2, <2>3
  <1>5. CASE RemoveConfiguration
    <2>1. "user" \in Down \ {"stop"} /\ op.pc = "configuration"
      BY <1>5 DEF RemoveConfiguration, In, Down
    <2>2. QED
      BY <1>1, <1>2, <1>5, <2>1, Removing DEF RemoveConfiguration, trees
  <1>6. CASE RemoveAccount
    <2>1. "state" \in Down \ {"stop"} /\ op.pc = "user"
      BY <1>6 DEF RemoveAccount, In, Down
    <2>2. QED
      BY <1>1, <1>2, <1>6, <2>1, Removing DEF RemoveAccount, trees
  <1>7. QED
    BY <1>3, <1>4, <1>5, <1>6

LEMMA RetainKeeps ==
  ASSUME IInv, Retain
  PROVE  IInv'
  <1>1. /\ op.pc = "state" /\ op.kind = "retain" /\ op' = Idle
        /\ UNCHANGED <<marker, pending, db, conf, runtime, old, unit, recovery, transient, enabled,
                       proc>>
        /\ broken' = FALSE
    BY DEF Retain, In, records, trees, snapshots, service
  <1>2. unit = None /\ runtime = None /\ old = None /\ conf = None /\ db = "suspended"
    BY <1>1 DEF IInv, Flagged, Down, Uninstalls, Flags
  <1>3. Values'
    BY <1>1 DEF IInv, Values
  <1>4. Marked' /\ Settled'
    BY <1>1, <1>2 DEF IInv, Marked, Whole, Settled, Gone, Idle
  <1>5. QED
    BY <1>1, <1>3, <1>4, Ends

LEMMA PurgeKeeps ==
  ASSUME IInv, Purge
  PROVE  IInv'
  <1>1. Values'
    BY DEF Purge, IInv, Values, Settings, trees, service
  <1>2. Marked' /\ marker' = None /\ op' = Idle
    BY DEF Purge, Marked, Whole
  <1>3. QED
    BY <1>1, <1>2, Ends

LEMMA SmallKeeps ==
  ASSUME IInv, Small
  PROVE  IInv'
  BY FlagPreflightKeeps, FlagKeeps, StopKeeps, ResumeKeeps, RemovalKeeps, RetainKeeps, PurgeKeeps
  DEF Small

-------------------------------------------------------------------------------
LEMMA StartKeeps ==
  ASSUME IInv, NEW k \in Kinds, Start(k)
  PROVE  IInv'
  <1>1. /\ op = Idle /\ op'.kind = k /\ op'.pc = "preflight" /\ op'.half = FALSE
        /\ op'.rev \in Versions /\ op'.target = None /\ op'.kept = None /\ op'.aside = None
        /\ op'.switched = FALSE /\ op'.rolled = FALSE /\ op'.fresh = FALSE /\ op'.paused = FALSE
        /\ op'.before = Installed /\ op'.asked = db /\ DOMAIN op' = Fields
        /\ UNCHANGED <<records, host, db, conf, trees, unit, snapshots, service, seen>>
    BY DEF Start, Fields
  <1>2. Values' /\ (Settled' <=> Settled)
    BY <1>1, Standing DEF IInv
  <1>3. UNCHANGED <<marker, conf, runtime, old, unit, recovery, db, broken>>
    BY <1>1 DEF records, trees, snapshots, seen
  <1>4. k # "none"
    BY DEF Kinds, Converges, Uninstalls
  <1>5. Operating' /\ Busy'
    BY <1>1, <1>4 DEF Operating, Busy
  <1>6. ~broken /\ marker # None => Settled
    BY <1>1 DEF IInv, Base
  <1>7. Base'
    BY <1>1, <1>2, <1>3, <1>6, Names
    DEF Base, Installed, Settled, Current, Gone
  <1>8. Marked'
    BY <1>1, <1>3 DEF IInv, Marked, Whole
  <1>9. Trees' /\ Contents' /\ Source' /\ Retained' /\ Service'
    BY <1>1, <1>3, Names
    DEF Trees, Contents, Source, Retained, Service, Installed, Untouched, Early, MarkedPcs, WithUnit,
        WithDb, WithConf, Switched, Forward, UnitBack, ContentBack, TreesBack, Undoing
  <1>10. Rolling' /\ Flagged'
    BY <1>1, <1>3
    DEF Rolling, Flagged, Installed, Swapped, AsBefore, UnitBack, ContentBack, TreesBack, Undoing,
        Untouched, Down
  <1>11. QED
    BY <1>2, <1>5, <1>7, <1>8, <1>9, <1>10 DEF IInv

\* An operation ends where it is, broken or before it has changed anything.
LEMMA Breaking ==
  ASSUME IInv, op' = Idle, Values', UNCHANGED recovery, db # None => db' # None,
         marker' = marker \/ (marker' = None /\ ~Whole(recovery)),
         Whole(recovery) /\ recovery.sound /\ recovery.conf = None => old' = None,
         ~broken' => Settled' \/ marker' = None
  PROVE  IInv'
  <1>1. Marked'
    BY DEF IInv, Marked, Whole, Idle
  <1>2. QED
    BY <1>1, Ends

LEMMA DeclinedKeeps ==
  ASSUME IInv, Declined
  PROVE  IInv'
  <1>1. Values' /\ (Settled' <=> Settled) /\ op' = Idle /\ op.pc = "preflight"
    BY Standing DEF Declined, IInv
  <1>2. UNCHANGED <<marker, recovery, db, old, broken>>
    BY DEF Declined, records, snapshots, trees, seen
  <1>3. Whole(recovery) /\ recovery.sound /\ recovery.conf = None => old' = None
    BY <1>2 DEF IInv, Marked
  <1>4. ~broken' => Settled' \/ marker = None
    BY <1>1, <1>2 DEF IInv, Base, Untouched
  <1>5. QED
    BY <1>1, <1>2, <1>3, <1>4, Breaking

LEMMA KilledKeeps ==
  ASSUME IInv, Killed
  PROVE  IInv'
  <1>1. /\ op' = Idle /\ broken' = TRUE
        /\ UNCHANGED <<marker, pending, db, conf, runtime, old, unit, recovery, transient, enabled,
                       proc>>
    BY DEF Killed, records, trees, snapshots, service
  <1>2. Values'
    BY <1>1 DEF IInv, Values
  <1>3. Whole(recovery) /\ recovery.sound /\ recovery.conf = None => old' = None
    BY <1>1 DEF IInv, Marked
  <1>4. QED
    BY <1>1, <1>2, <1>3, Breaking

LEMMA ResumeFailsKeeps ==
  ASSUME IInv, ResumeFails
  PROVE  IInv'
  <1>1. /\ op' = Idle /\ broken' = TRUE
        /\ UNCHANGED <<marker, pending, conf, runtime, old, unit, recovery, transient>>
        /\ enabled' \in {TRUE, enabled} /\ proc' \in {proc, runtime, None}
        /\ db' \in {db, "suspended"}
    BY DEF ResumeFails, Started, records, trees, snapshots, service
  <1>2. Values'
    <2>1. enabled' \in BOOLEAN /\ proc' \in Versions \cup {None} /\ db' \in Settings
      BY <1>1 DEF IInv, Values, Settings
    <2>2. QED
      BY <1>1, <2>1 DEF IInv, Values
  <1>3. Whole(recovery) /\ recovery.sound /\ recovery.conf = None => old' = None
    BY <1>1 DEF IInv, Marked
  <1>4. QED
    BY <1>1, <1>2, <1>3, Names, Breaking

\* Where a rename that fails puts the trees back to.
LEMMA RenamedIs ==
  ASSUME IInv, Busy
  PROVE  /\ Renamed[1] \in Versions \cup {None} /\ Renamed[2] \in Versions \cup {None}
         /\ op.kind \in Flags => Renamed[1] = runtime /\ Renamed[2] = old
         /\ op.kind \in Converges =>
               /\ Renamed[2] \in {old, None}
               /\ op.pc # "runtime" => Renamed[1] = runtime /\ Renamed[2] = old
               /\ op.pc = "runtime" =>
                     /\ Renamed[1] = op.before.runtime
                     /\ op.target = "transient" => Renamed[2] = op.before.old
         /\ op.kind = "rollback" =>
               /\ op.pc \in {"stop", "swap"} =>
                     Renamed[1] = op.before.runtime /\ Renamed[2] = op.before.old
               /\ op.pc \notin {"swap", "undo trees"} => Renamed[1] = runtime /\ Renamed[2] = old
  <1>1. /\ op.aside \in Versions \cup {None} /\ runtime \in Versions \cup {None}
        /\ old \in Versions \cup {None}
    BY DEF IInv, Operating, Values
  <1>2. CASE op.kind \in Flags
    BY <1>1, <1>2 DEF Renamed, Swapping, IInv, Flagged, Flags, Uninstalls, Converges
  <1>3. CASE op.kind \in Converges
    <2>1. ~Swapping
      BY <1>3 DEF Swapping, Converges
    <2>2. CASE op.pc = "runtime" /\ op.half
      BY <1>1, <1>3, <2>2 DEF Renamed, IInv, Trees, Flags, Uninstalls, Converges
    <2>3. CASE ~(op.pc = "runtime" /\ op.half)
      BY <1>1, <1>3, <2>1, <2>3 DEF Renamed, IInv, Trees, Flags, Uninstalls, Converges
    <2>4. QED
      BY <2>2, <2>3
  <1>4. CASE op.kind = "rollback"
    <2>1. op.pc # "runtime"
      BY <1>4 DEF IInv, Rolling, Swapped, Undoing
    <2>2. CASE Swapping /\ op.aside # None
      BY <1>1, <1>4, <2>1, <2>2, Names
      DEF Renamed, Swapping, IInv, Rolling, AsBefore, Flags, Uninstalls, Converges
    <2>3. CASE ~(Swapping /\ op.aside # None)
      BY <1>1, <1>4, <2>1, <2>3
      DEF Renamed, Swapping, IInv, Rolling, AsBefore, Flags, Uninstalls, Converges
    <2>4. QED
      BY <2>2, <2>3
  <1>5. QED
    BY <1>2, <1>3, <1>4 DEF IInv, Operating, Kinds, Flags

LEMMA StepFailsKeeps ==
  ASSUME IInv, StepFails
  PROVE  IInv'
  <1>1. /\ op' = Idle /\ Busy /\ runtime' = Renamed[1] /\ old' = Renamed[2]
        /\ UNCHANGED <<pending, db, conf, unit, recovery, transient, enabled, proc>>
        /\ broken' = (broken \/ op.pc \notin {"snapshot", "keep", "flag"})
        /\ op.pc \in Undoing \cup {"snapshot", "keep"} \/ op.kind \in Flags
        /\ marker' = marker \/ (marker' = None /\ op.fresh /\ op.pc \in Undoing)
    BY DEF StepFails, IInv, Operating, records, snapshots, service
  <1>7. marker' = marker \/ (marker' = None /\ ~Whole(recovery) /\ broken')
    <2>1. SUFFICES ASSUME op.fresh, op.pc \in Undoing
                   PROVE  ~Whole(recovery) /\ broken'
      BY <1>1
    <2>2. op.kind \in Converges
      <3>1. op.kind \in Converges \cup Flags \cup {"rollback"}
        BY <1>1 DEF IInv, Operating, Kinds, Flags
      <3>2. op.kind \notin Flags
        BY <2>1 DEF IInv, Flagged, Down, Undoing
      <3>3. op.kind # "rollback"
        BY <2>1 DEF IInv, Rolling
      <3>4. QED
        BY <3>1, <3>2, <3>3
    <2>3. op.pc \notin {"snapshot", "keep", "flag"}
      BY <2>1 DEF Undoing
    <2>4. QED
      BY <1>1, <2>1, <2>2, <2>3 DEF IInv, Contents
  <1>2. Values'
    BY <1>1, RenamedIs DEF IInv, Values
  <1>3. ~broken' => runtime' = runtime /\ old' = old
    BY <1>1, RenamedIs DEF IInv, Operating, Kinds, Flags
  <1>4. ~broken' => Settled' \/ marker' = None
    <2>1. ~broken' => op.pc \in Untouched /\ ~broken
      BY <1>1 DEF Untouched
    <2>2. QED
      BY <1>1, <1>3, <1>7, <2>1 DEF IInv, Base, Settled, Current, Gone, Served
  <1>5. Whole(recovery) /\ recovery.sound /\ recovery.conf = None => old' = None
    <2>1. SUFFICES ASSUME Whole(recovery), recovery.sound, recovery.conf = None
                   PROVE  old' = None
      OBVIOUS
    <2>2. old = None /\ (op.kind = "rollback" => op.pc = "preflight")
      BY <2>1 DEF IInv, Marked
    <2>3. QED
      BY <1>1, <2>2, RenamedIs DEF IInv, Operating, Kinds, Flags
  <1>6. QED
    BY <1>1, <1>2, <1>4, <1>5, <1>7, Breaking

LEMMA StepIsUndoneKeeps ==
  ASSUME IInv, StepIsUndone
  PROVE  IInv'
  <1>1. /\ op.kind \in Converges \cup {"rollback"} /\ Busy
        /\ op.pc \notin Undoing \cup {"preflight", "snapshot", "keep"}
        /\ runtime' = Renamed[1] /\ old' = Renamed[2]
        /\ UNCHANGED <<marker, pending, db, conf, unit, recovery, transient, enabled, proc, broken>>
    BY DEF StepIsUndone, IInv, Operating, records, snapshots, service
  <1>2. /\ op'.pc = "undo stop" /\ op'.half = FALSE /\ op'.kind = op.kind /\ op'.rev = op.rev
        /\ op'.target = op.target /\ op'.kept = op.kept /\ op'.fresh = op.fresh
        /\ op'.switched = op.switched /\ op'.paused = op.paused /\ op'.before = op.before
        /\ op'.asked = op.asked /\ DOMAIN op' = Fields
        /\ op'.aside = (IF op.kind # "rollback" /\ op.switched THEN op.aside ELSE None)
        /\ op'.rolled = (op.rolled /\ op.switched)
    BY <1>1 DEF StepIsUndone, IInv, Operating, Fields
  <1>3. Values'
    BY <1>1, RenamedIs DEF IInv, Values
  <1>4. Operating' /\ Busy'
    BY <1>1, <1>2 DEF IInv, Operating, Busy
  <1>5. Base'
    BY <1>1, <1>2, MidBase DEF Untouched
  <1>6. Marked'
    <2>1. ASSUME Whole(recovery), recovery.sound, recovery.conf = None
          PROVE  old' = None /\ op.kind # "rollback"
      <3>1. old = None /\ (op.kind = "rollback" => op.pc = "preflight")
        BY <2>1 DEF IInv, Marked
      <3>2. QED
        BY <1>1, <3>1, RenamedIs
    <2>2. QED
      BY <1>1, <1>2, <2>1 DEF IInv, Marked, Whole
  <1>7. Trees'
    BY <1>1, <1>2, RenamedIs, Names
    DEF IInv, Trees, Early, MarkedPcs, WithUnit, WithDb, WithConf, Switched, Forward, UnitBack,
        ContentBack, TreesBack, Undoing, Converges
  <1>8. Contents' /\ Retained'
    BY <1>1, <1>2
    DEF IInv, Trees, Contents, Retained, Untouched, Early, MarkedPcs, WithUnit, WithDb, WithConf,
        Switched, Forward, Undoing, Whole
  <1>9. Source'
    BY <1>1, <1>2 DEF IInv, Source, UndoSource, UnitBack, ContentBack
  <1>10. Service'
    BY <1>1, <1>2 DEF IInv, Service, MarkedPcs, UnitBack
  <1>11. Rolling'
    BY <1>1, <1>2, RenamedIs
    DEF IInv, Rolling, Swapped, AsBefore, Exchanged, UnitBack, ContentBack, TreesBack, Undoing,
        Untouched, Whole
  <1>12. QED
    BY <1>1, <1>2, <1>3, <1>4, <1>5, <1>6, <1>7, <1>8, <1>9, <1>10, <1>11
    DEF IInv, Flagged, Converges, Flags, Uninstalls

LEMMA RebootKeeps ==
  ASSUME IInv, Reboot
  PROVE  IInv'
  <1>1. /\ op = Idle /\ op' = Idle
        /\ UNCHANGED <<marker, pending, db, conf, runtime, old, unit, recovery, transient, enabled,
                       broken>>
        /\ proc' = IF enabled /\ unit # None /\ conf \notin {None, Empty} THEN runtime ELSE None
    BY DEF Reboot, records, trees, snapshots
  <1>2. Values'
    BY <1>1 DEF IInv, Values
  <1>3. Whole(recovery) /\ recovery.sound /\ recovery.conf = None => old' = None
    BY <1>1 DEF IInv, Marked
  <1>4. ~broken' => Settled' \/ marker = None
    BY <1>1, Names DEF IInv, Values, Base, Settled, Current, Gone, Served
  <1>5. QED
    BY <1>1, <1>2, <1>3, <1>4, Breaking

LEMMA OwnerSuspendsKeeps ==
  ASSUME IInv, OwnerSuspends
  PROVE  IInv'
  <1>1. /\ db = "active" /\ db' = "suspended" /\ UNCHANGED <<op, marker, pending, conf, runtime, old,
              unit, recovery, transient, enabled, proc, broken>>
    BY DEF OwnerSuspends, records, trees, snapshots, service, seen
  <1>2. Values' /\ Operating'
    BY <1>1 DEF IInv, Values, Operating, Busy, Settings
  <1>3. Served' /\ (Settled => Settled') /\ (Current \/ Gone => Current' \/ Gone')
    BY <1>1 DEF Served, Settled, Current, Gone
  <1>4. Base' /\ Marked'
    BY <1>1, <1>3, Names DEF IInv, Base, Marked, Busy, Whole
  <1>5. Trees'
    BY <1>1 DEF IInv, Trees
  <1>6. Contents' /\ Retained'
    BY <1>1, Names DEF IInv, Contents, Retained, Whole
  <1>7. Source' /\ Flagged'
    BY <1>1 DEF IInv, Source, UndoSource, Flagged
  <1>8. Rolling'
    BY <1>1 DEF IInv, Rolling, Exchanged, AsBefore, Whole
  <1>9. Service'
    BY <1>1, <1>3, Names DEF IInv, Service, CanServe
  <1>10. QED
    BY <1>2, <1>4, <1>5, <1>7, <1>9, <1>6, <1>8 DEF IInv

LEMMA StutterKeeps ==
  ASSUME IInv, UNCHANGED vars
  PROVE  IInv'
  <1>1. UNCHANGED <<op, marker, pending, db, conf, runtime, old, unit, recovery, transient, enabled,
                    proc, broken>>
    BY DEF vars, records, trees, snapshots, service, seen
  <1>2. Values' /\ Operating'
    BY <1>1 DEF IInv, Values, Operating, Busy
  <1>3. Base' /\ Marked'
    BY <1>1 DEF IInv, Base, Marked, Busy, Settled, Current, Gone, Served, Whole
  <1>4. Trees'
    BY <1>1 DEF IInv, Trees
  <1>5. Contents' /\ Retained'
    BY <1>1 DEF IInv, Contents, Retained, Whole
  <1>6. Source' /\ Flagged'
    BY <1>1 DEF IInv, Source, UndoSource, Flagged
  <1>7. Rolling'
    BY <1>1 DEF IInv, Rolling, Exchanged, AsBefore, Whole
  <1>8. Service'
    BY <1>1 DEF IInv, Service, CanServe, Served
  <1>9. QED
    BY <1>2, <1>3, <1>4, <1>5, <1>6, <1>7, <1>8 DEF IInv

LEMMA NextInv == IInv /\ [Next]_vars => IInv'
  BY StartKeeps, ConvergeKeeps, RollbackKeeps, UndoKeeps, SmallKeeps, DeclinedKeeps,
     StepIsUndoneKeeps, StepFailsKeeps, ResumeFailsKeeps, KilledKeeps, RebootKeeps,
     OwnerSuspendsKeeps, StutterKeeps DEF Next

(* The inductive invariant of Imaginary Friend's manager.                  *)
THEOREM Invariance == Spec => []IInv
  BY InitInv, NextInv, PTL DEF Spec

(* Between operations marker, runtime, configuration and unit are of one   *)
(* version, or all but the marker is gone, whatever failed and was undone. *)
THEOREM OneVersion == Spec => []VersionsAgree
  <1>1. IInv => VersionsAgree
    <2>1. SUFFICES ASSUME IInv, op = Idle, ~broken, marker # None
                   PROVE  \/ {runtime, conf, unit} = {marker}
                          \/ {runtime, conf, unit} = {None}
      BY DEF VersionsAgree
    <2>2. Settled
      BY <2>1 DEF IInv, Base
    <2>3. QED
      BY <2>2 DEF Settled, Current, Gone
  <1>2. QED
    BY <1>1, Invariance, PTL

(* A Friend that is installed and not suspended is up, and starts with the *)
(* host, whatever has failed and was undone.                               *)
THEOREM ServedBetween == Spec => []ActiveIsServed
  <1>1. IInv => ActiveIsServed
    BY DEF IInv, Base, Settled, Gone, Served, ActiveIsServed
  <1>2. QED
    BY <1>1, Invariance, PTL

(* An operation that fails and is undone leaves what it found, up to what a *)
(* newer version has put into the place for a rollback.                    *)
THEOREM UndoneWhole == Spec => FailureIsUndone
  <1>1. ASSUME IInv, [Next]_vars, op # Idle, op.pc = "undo end", op' = Idle, ~broken', ~op.fresh
        PROVE  /\ marker' = op.before.marker /\ conf' = op.before.conf
               /\ runtime' = op.before.runtime /\ unit' = op.before.unit
               /\ op.target # "recovery" =>
                     /\ old' = op.before.old
                     /\ Whole(op.before.recovery) => recovery' = op.before.recovery
    <2>1. op.kind \in Converges \cup {"rollback"}
      <3>1. op.kind \notin Flags
        BY <1>1 DEF IInv, Flagged, Down
      <3>2. QED
        BY <1>1, <3>1 DEF IInv, Operating, Kinds, Flags
    <2>2. UndoEnd
      <3>1. ~Converge
        BY <1>1
        DEF Converge, Preflight, ClearSnapshot, TakeSnapshot, EnsureTransaction, EnsureAccounts,
            EnsurePaths, MoveAside, PutInPlace, DeployConfiguration, InitializeDatabase, DeployUnit,
            SettleService, WriteMarker, ForgetTransaction, Commit, In, Halfway
      <3>2. ~Rollback
        BY <1>1
        DEF Rollback, RollbackPreflight, KeepCurrent, StopService, SwapOut, SwapIn, SwapBack,
            Swapping, Restore, Rotate, In
      <3>3. ~Small
        BY <1>1
        DEF Small, FlagPreflight, Flag, Stop, Resume, RemoveHost, RemoveTrees, RemoveConfiguration,
            RemoveAccount, Retain, Purge, In
      <3>4. Undo => UndoEnd
        BY <1>1
        DEF Undo, UndoStop, UndoTrees, UndoRestore, UndoUnit, UndoService, Undoes, In
      <3>5. Undo
        BY <1>1, <3>1, <3>2, <3>3
        DEF Next, Start, Declined, StepIsUndone, StepFails, ResumeFails, Killed, Reboot,
            OwnerSuspends, Undoing, In, vars
      <3>6. QED
        BY <3>4, <3>5
    <2>3. /\ UNCHANGED <<conf, runtime, old, unit, recovery>> /\ marker' = marker
          /\ ~broken /\ op.before.runtime # None
      BY <1>1, <2>2 DEF UndoEnd, trees
    <2>4. QED
      BY <1>1, <2>1, <2>3, UndoneIs DEF Current
  <1>2. IInv /\ [Next]_vars =>
          [op # Idle /\ op.pc = "undo end" /\ op' = Idle /\ ~broken' /\ ~op.fresh =>
             /\ marker' = op.before.marker /\ conf' = op.before.conf
             /\ runtime' = op.before.runtime /\ unit' = op.before.unit
             /\ op.target # "recovery" =>
                   /\ old' = op.before.old
                   /\ Whole(op.before.recovery) => recovery' = op.before.recovery]_vars
    BY <1>1
  <1>3. QED
    BY <1>2, Invariance, PTL DEF Spec, FailureIsUndone

(* However an install, a repair, an update or a suspend ends, a Friend that *)
(* was suspended when it began still is.                                   *)
THEOREM StaysSuspended == Spec => SuspensionIsKept
  <1>1. ASSUME IInv, [Next]_vars, op # Idle, op' = Idle, op.asked = "suspended",
               op.kind \in Converges \cup {"suspend"}
        PROVE  db' = "suspended"
    <2>1. db = "suspended"
      BY <1>1 DEF IInv, Service
    <2>2. CASE Converge
      BY <2>1, <2>2, Names
      DEF Converge, Preflight, ClearSnapshot, TakeSnapshot, EnsureTransaction, EnsureAccounts,
          EnsurePaths, MoveAside, PutInPlace, DeployConfiguration, InitializeDatabase, Initialized,
          DeployUnit, SettleService, WriteMarker, ForgetTransaction, Commit
    <2>3. CASE Undo
      <3>1. ~UndoRestore
        <4>1. UndoRestore => Busy'
          BY <1>1, Moves DEF UndoRestore, IInv, Busy, Converges
        <4>2. QED
          BY <1>1, <4>1 DEF Busy, Idle
      <3>2. QED
        BY <2>1, <2>3, <3>1
        DEF Undo, UndoStop, UndoTrees, UndoUnit, UndoService, UndoEnd
    <2>4. CASE Rollback \/ Small
      BY <1>1, <2>1, <2>4
      DEF Rollback, RollbackPreflight, KeepCurrent, StopService, SwapOut, SwapIn, SwapBack,
          Swapping, Restore, Rotate, Small, FlagPreflight, Flag, Stop, Resume, RemoveHost,
          RemoveTrees, RemoveConfiguration, RemoveAccount, Retain, Purge, In, Converges
    <2>5. CASE Declined \/ StepIsUndone \/ StepFails \/ ResumeFails \/ Killed
      BY <1>1, <2>1, <2>5
      DEF Declined, StepIsUndone, StepFails, ResumeFails, Killed, In, Converges
    <2>6. QED
      BY <1>1, <2>1, <2>2, <2>3, <2>4, <2>5 DEF Next, Start, Reboot, OwnerSuspends, vars
  <1>2. IInv /\ [Next]_vars =>
          [op # Idle /\ op' = Idle /\ op.asked = "suspended"
              /\ op.kind \in Converges \cup {"suspend"} => db' = "suspended"]_vars
    BY <1>1
  <1>3. QED
    BY <1>2, Invariance, PTL DEF Spec, SuspensionIsKept

-------------------------------------------------------------------------------
(* Why the run on an update finds what it finds: the checks compare the    *)
(* tree with the marker, which they come before.                           *)

UpdateInv ==
    op.kind = "update" =>
        /\ op.pc # "preflight" => op.before.marker \notin {None, op.rev}
        /\ op.pc \notin MarkedPcs
        /\ marker = op.before.marker

\* The checks of an update never pass.
LEMMA NeverVerified ==
  ASSUME IInv, UpdateInv, op.kind = "update", op.pc = "verify"
  PROVE  ~Verified
  <1>1. runtime = op.rev
    BY DEF IInv, Trees, Converges, Switched, WithConf, WithDb, WithUnit
  <1>2. marker # None /\ marker # op.rev
    BY DEF UpdateInv
  <1>3. QED
    BY <1>1, <1>2 DEF Verified, RuntimeIsOfMarker

LEMMA UpdateStep == IInv /\ UpdateInv /\ [Next]_vars => UpdateInv'
  <1>1. SUFFICES ASSUME IInv, UpdateInv, [Next]_vars, op'.kind = "update"
                 PROVE  UpdateInv'
    BY DEF UpdateInv
  <1>2. op' # Idle
    BY <1>1 DEF Idle
  <1>3. ASSUME NEW k \in Kinds, Start(k) PROVE UpdateInv'
    BY <1>1, <1>3 DEF Start, UpdateInv, Installed, MarkedPcs, records
  <1>4. ASSUME op.kind = "update", NEW p, op'.pc = p, op'.rev = op.rev, op'.before = op.before,
               marker' = marker, p \notin MarkedPcs, p = "preflight" \/ op.pc # "preflight"
        PROVE  UpdateInv'
    BY <1>1, <1>4 DEF UpdateInv
  <1>5. CASE Converge
    <2>1. op.kind = "update" /\ Busy
      <3>1. op.kind \in Converges \cup {"rollback"} /\ Busy
        BY <1>5
        DEF Converge, Preflight, ClearSnapshot, TakeSnapshot, EnsureTransaction, EnsureAccounts,
            EnsurePaths, MoveAside, PutInPlace, DeployConfiguration, InitializeDatabase,
            DeployUnit, SettleService, WriteMarker, ForgetTransaction, Commit, In, Halfway,
            Converges, Busy
      <3>2. DOMAIN op = Fields
        BY <1>1, <3>1 DEF IInv, Operating
      <3>3. CASE Preflight \/ MoveAside \/ PutInPlace \/ InitializeDatabase
        BY <1>1, <1>2, <3>1, <3>2, <3>3
        DEF Preflight, MoveAside, PutInPlace, InitializeDatabase, GoHalfway, Fields
      <3>4. CASE ~(Preflight \/ MoveAside \/ PutInPlace \/ InitializeDatabase)
        <4>1. op'.kind = op.kind
          BY <1>1, <1>2, <1>5, <3>1, <3>4, Moves
          DEF Converge, ClearSnapshot, TakeSnapshot, EnsureTransaction, EnsureAccounts,
              EnsurePaths, DeployConfiguration, DeployUnit, SettleService, WriteMarker,
              ForgetTransaction, Commit, KeepsRest, IInv
        <4>2. QED
          BY <1>1, <3>1, <4>1
      <3>5. QED
        BY <3>1, <3>3, <3>4
    <2>2. ~WriteMarker /\ ~ForgetTransaction /\ ~Commit
      BY <1>1, <1>2, <2>1, NeverVerified
      DEF WriteMarker, ForgetTransaction, Commit, In, UpdateInv, MarkedPcs
    <2>3. CASE Preflight
      <3>1. op.rev # marker /\ marker # None /\ op.pc = "preflight" /\ marker = op.before.marker
        BY <1>1, <1>2, <2>1, <2>3 DEF Preflight, Accepted, In, UpdateInv
      <3>2. /\ op'.pc \in {"transaction", "snapshot"} /\ op'.rev = op.rev
            /\ op'.before = op.before /\ marker' = marker
        BY <1>1, <1>2, <2>1, <2>3 DEF Preflight, IInv, Operating, Fields, records
      <3>3. QED
        BY <3>1, <3>2 DEF UpdateInv, MarkedPcs
    <2>4. CASE ~Preflight
      <3>1. DOMAIN op = Fields
        BY <1>1, <2>1 DEF IInv, Operating
      <3>2. marker' = marker
        BY <1>5, <2>2, <2>4
        DEF Converge, ClearSnapshot, TakeSnapshot, EnsureTransaction, EnsureAccounts,
            EnsurePaths, MoveAside, PutInPlace, DeployConfiguration, InitializeDatabase,
            DeployUnit, SettleService, records
      <3>3. CASE MoveAside \/ PutInPlace \/ InitializeDatabase
        <4>1. /\ op.pc # "preflight" /\ op'.pc \in {op.pc, "configuration", "unit"}
              /\ op'.rev = op.rev /\ op'.before = op.before
          BY <2>1, <3>1, <3>3
          DEF MoveAside, PutInPlace, InitializeDatabase, In, Halfway, Fields
        <4>2. QED
          BY <1>1, <1>4, <2>1, <3>2, <4>1 DEF UpdateInv, MarkedPcs
      <3>4. CASE ~(MoveAside \/ PutInPlace \/ InitializeDatabase)
        <4>1. /\ op'.pc \in {op.pc, "accounts", "paths", "runtime", "database", "service",
                             "verify"}
              /\ op.pc # "preflight" /\ KeepsRest
          BY <1>1, <1>5, <2>1, <2>2, <2>4, <3>4, Moves
          DEF Converge, ClearSnapshot, TakeSnapshot, EnsureTransaction, EnsureAccounts,
              EnsurePaths, DeployConfiguration, DeployUnit, SettleService, In, Halfway, IInv
        <4>2. QED
          BY <1>1, <1>4, <2>1, <3>2, <4>1 DEF UpdateInv, MarkedPcs, KeepsRest
      <3>5. QED
        BY <3>3, <3>4
    <2>5. QED
      BY <2>3, <2>4
  <1>6. CASE Undo
    <2>1. op.kind \in Converges \cup {"rollback"} /\ Busy /\ op.pc \in Undoing
      BY <1>6
      DEF Undo, UndoStop, UndoTrees, UndoRestore, UndoUnit, UndoService, UndoEnd, Undoes, In,
          Converges, Busy, Undoing
    <2>2. /\ op'.pc \in Undoing /\ op'.rev = op.rev /\ op'.before = op.before
          /\ op'.kind = op.kind
      <3>1. op'.pc \in {op.pc, "undo trees", "undo restore", "undo unit", "undo service", "undo end"}
            /\ KeepsRest
        BY <1>1, <1>2, <1>6, <2>1, Moves
        DEF Undo, UndoStop, UndoTrees, UndoRestore, UndoUnit, UndoService, UndoEnd, IInv
      <3>2. QED
        BY <2>1, <3>1 DEF KeepsRest, Undoing
    <2>3. marker' = marker
      <3>1. CASE UndoRestore
        BY <1>1, <2>1, <2>2, <3>1, SourceIs
        DEF UndoRestore, RestoreMarker, UpdateInv, Whole
      <3>2. CASE ~UndoRestore
        BY <1>2, <1>6, <3>2
        DEF Undo, UndoStop, UndoTrees, UndoUnit, UndoService, UndoEnd, records
      <3>3. QED
        BY <3>1, <3>2
    <2>4. op.kind = "update" /\ op.pc # "preflight" /\ op'.pc \notin MarkedPcs
      BY <1>1, <2>1, <2>2 DEF MarkedPcs, Undoing
    <2>5. QED
      BY <1>4, <2>2, <2>3, <2>4
  <1>7. CASE StepIsUndone
    <2>1. /\ op'.pc = "undo stop" /\ op'.rev = op.rev /\ op'.before = op.before
          /\ op'.kind = op.kind /\ marker' = marker
      BY <1>1, <1>7 DEF StepIsUndone, IInv, Operating, Busy, Fields, Converges, records
    <2>2. op.kind = "update" /\ op.pc # "preflight" /\ op'.pc \notin MarkedPcs
      BY <1>1, <1>7, <2>1 DEF StepIsUndone, MarkedPcs
    <2>3. QED
      BY <1>4, <2>1, <2>2
  <1>8. CASE Rollback \/ Small
    <2>1. op.kind \in Flags \cup {"rollback"} /\ Busy
      BY <1>8
      DEF Rollback, RollbackPreflight, KeepCurrent, StopService, SwapOut, SwapIn, SwapBack,
          Swapping, Restore, Rotate, Small, FlagPreflight, Flag, Stop, Resume, RemoveHost,
          RemoveTrees, RemoveConfiguration, RemoveAccount, Retain, Purge, In, Flags, Uninstalls,
          Busy
    <2>2. op'.kind = op.kind
      <3>1. DOMAIN op = Fields
        BY <1>1, <2>1 DEF IInv, Operating
      <3>2. CASE KeepCurrent \/ SwapOut \/ SwapIn \/ SwapBack
        BY <1>2, <3>1, <3>2 DEF KeepCurrent, SwapOut, SwapIn, SwapBack, Fields
      <3>3. CASE ~(KeepCurrent \/ SwapOut \/ SwapIn \/ SwapBack)
        BY <1>1, <1>2, <1>8, <2>1, <3>3, Moves
        DEF Rollback, RollbackPreflight, StopService, Restore, Rotate, Small, FlagPreflight,
            Flag, Stop, Resume, RemoveHost, RemoveTrees, RemoveConfiguration, RemoveAccount,
            Retain, Purge, KeepsRest, IInv
      <3>4. QED
        BY <3>2, <3>3
    <2>3. QED
      BY <1>1, <2>1, <2>2 DEF Flags, Uninstalls
  <1>9. CASE OwnerSuspends \/ Reboot \/ UNCHANGED vars
    BY <1>1, <1>9 DEF OwnerSuspends, Reboot, vars, records, UpdateInv
  <1>10. QED
    BY <1>1, <1>2, <1>3, <1>5, <1>6, <1>7, <1>8, <1>9
    DEF Next, Declined, StepFails, ResumeFails, Killed

(* No update to another version ever gets as far as writing the marker,    *)
(* whatever fails or does not: it is undone, or is left half-way.  The     *)
(* documented order of update (products/imaginary-friend/docs/UPGRADING.md)*)
(* has no run that ends well.                                              *)
THEOREM UpdateNeverInstalls == Spec => [][op.kind = "update" => marker' = marker]_vars
  <1>1. Init => UpdateInv
    BY DEF Init, Idle, UpdateInv
  <1>2. IInv /\ UpdateInv /\ [Next]_vars => [op.kind = "update" => marker' = marker]_vars
    <2>1. SUFFICES ASSUME IInv, UpdateInv, Next, op.kind = "update"
                   PROVE  marker' = marker
      BY DEF vars, records
    <2>2. CASE Converge
      <3>1. ~WriteMarker
        BY <2>1, NeverVerified DEF WriteMarker, In
      <3>2. QED
        BY <2>2, <3>1
        DEF Converge, Preflight, ClearSnapshot, TakeSnapshot, EnsureTransaction, EnsureAccounts,
            EnsurePaths, MoveAside, PutInPlace, DeployConfiguration, InitializeDatabase, DeployUnit,
            SettleService, ForgetTransaction, Commit, records
    <2>3. CASE Undo
      <3>1. Busy /\ op.kind \in Converges
        BY <2>1 DEF Busy, Converges
      <3>2. CASE UndoRestore
        BY <2>1, <3>1, <3>2, SourceIs DEF UndoRestore, RestoreMarker, UpdateInv, Whole
      <3>3. CASE UndoEnd
        <4>1. op.pc = "undo end"
          BY <3>3 DEF UndoEnd, Undoes, In
        <4>2. ~op.fresh
          BY <2>1, <3>1, <4>1 DEF UpdateInv, IInv, Contents
        <4>3. QED
          BY <3>3, <4>2 DEF UndoEnd
      <3>4. QED
        BY <2>3, <3>2, <3>3 DEF Undo, UndoStop, UndoTrees, UndoUnit, UndoService, records
    <2>4. CASE Rollback \/ Small
      BY <2>1, <2>4
      DEF Rollback, RollbackPreflight, KeepCurrent, StopService, SwapOut, SwapIn, SwapBack,
          Swapping, Restore, Rotate, Small, FlagPreflight, Flag, Stop, Resume, RemoveHost,
          RemoveTrees, RemoveConfiguration, RemoveAccount, Retain, Purge, In, Flags, Uninstalls
    <2>5. CASE StepFails
      <3>1. op.kind \in Converges
        BY <2>1 DEF Converges
      <3>2. op.pc \in Undoing => ~op.fresh
        <4>1. "preflight" \notin Undoing
          BY DEF Undoing
        <4>2. QED
          BY <2>1, <3>1, <4>1 DEF UpdateInv, IInv, Contents
      <3>3. QED
        BY <2>5, <3>2 DEF StepFails
    <2>6. QED
      BY <2>1, <2>2, <2>3, <2>4, <2>5
      DEF Next, Start, Declined, StepIsUndone, ResumeFails, Killed, Reboot,
          OwnerSuspends, Idle, records
  <1>3. QED
    BY <1>1, <1>2, UpdateStep, Invariance, PTL DEF Spec
==============================================================================
