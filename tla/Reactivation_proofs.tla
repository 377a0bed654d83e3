------------------------ MODULE Reactivation_proofs --------------------------
(***************************************************************************)
(* Proofs about timer reactivation, for any number of timers, turns,       *)
(* conversations, operators, crashes and faults.  The state predicate      *)
(* Inductive of module Reactivation is an inductive invariant; the safety  *)
(* properties and the step simulation of TimerLedger follow from it.       *)
(***************************************************************************)
EXTENDS Reactivation, Lifecycle, TLAPS

-------------------------------------------------------------------------------
(* Types.                                                                  *)

LEMMA TypeInit == Init => TypeOK
  <1>1. UnusedTurn \in TurnRecord
    BY DEF UnusedTurn, TurnRecord, Kinds
  <1>2. IdleDaemon \in DaemonRecord
    BY DEF IdleDaemon, DaemonRecord
  <1>3. IdleOp \in OpRecord
    BY DEF IdleOp, OpRecord
  <1>4. 0 \in 0..MaxCrashes /\ 0 \in 0..MaxFaults
    BY BoundsAssumption
  <1> QED
    BY <1>1, <1>2, <1>3, <1>4 DEF Init, TypeOK, Status

\* The helpers that rewrite the rows keep their type.
LEMMA RowTypes ==
    ASSUME status \in [Timers -> Status]
    PROVE  /\ WithoutPending \in [Timers -> Status]
           /\ \A t \in Timers, outcome \in Status :
                 Finish(t, outcome) => status' \in [Timers -> Status]
  BY DEF WithoutPending, Finish, Status

\* What a turn thread's step does to the turns: it changes the pc and ret of
\* one turn that was active, and starts none.
TurnFrame(s) ==
    /\ turn' \in [Turns -> TurnRecord]
    /\ turn'[s].pc \in ActivePcs \cup {"done"}
    /\ turn'[s].kind = turn[s].kind
    /\ turn'[s].conv = turn[s].conv
    /\ turn'[s].timer = turn[s].timer
    /\ turn'[s].cancelled = turn[s].cancelled
    /\ \A r \in Turns : r # s => turn'[r] = turn[r]

LEMMA TurnUpdateFrame ==
    ASSUME turn \in [Turns -> TurnRecord], NEW s \in Turns,
           NEW pc \in ActivePcs \cup {"done"}, NEW ret \in {"model", "closing"},
           turn' = [turn EXCEPT ![s].pc = pc, ![s].ret = ret]
    PROVE  TurnFrame(s)
  <1>1. turn'[s] = [turn[s] EXCEPT !.pc = pc, !.ret = ret]
    BY DEF TurnRecord
  <1>2. turn'[s] \in TurnRecord
    BY <1>1 DEF TurnRecord
  <1>3. turn' = [turn EXCEPT ![s] = turn'[s]]
    BY <1>1
  <1> QED BY <1>1, <1>2, <1>3 DEF TurnFrame, TurnRecord

LEMMA TurnGoesFrame ==
    ASSUME turn \in [Turns -> TurnRecord], NEW s \in Turns,
           NEW pc \in ActivePcs \cup {"done"}, TurnGoes(s, pc)
    PROVE  TurnFrame(s)
  <1>1. turn'[s] = [turn[s] EXCEPT !.pc = pc]
    BY DEF TurnGoes
  <1>2. turn'[s] \in TurnRecord
    BY <1>1 DEF TurnRecord
  <1>3. turn' = [turn EXCEPT ![s] = turn'[s]]
    BY <1>1 DEF TurnGoes
  <1> QED BY <1>1, <1>2, <1>3 DEF TurnFrame, TurnRecord

LEMMA TurnReturnsFrame ==
    ASSUME turn \in [Turns -> TurnRecord], NEW s \in Turns, TurnReturns(s)
    PROVE  TurnFrame(s)
  <1>1. turn[s].ret \in {"model", "closing"}
    BY DEF TurnRecord
  <1> QED BY <1>1, TurnUpdateFrame DEF TurnReturns, ActivePcs

LEMMA TurnStepFrame ==
    ASSUME TypeOK, NEW s \in Turns, TurnStep(s)
    PROVE  turn[s].pc \in ActivePcs /\ TurnFrame(s)
  <1>0. turn \in [Turns -> TurnRecord]
    BY DEF TypeOK
  <1>1. CASE TurnBegin(s)
    BY <1>0, <1>1, TurnGoesFrame DEF TurnBegin, ActivePcs
  <1>2. CASE TurnReply(s)
    BY <1>0, <1>2, TurnGoesFrame DEF TurnReply, ActivePcs
  <1>3. CASE TurnModelEnds(s)
    BY <1>0, <1>3, TurnGoesFrame DEF TurnModelEnds, ActivePcs
  <1>4. CASE TurnToolCall(s)
    BY <1>0, <1>4, TurnUpdateFrame DEF TurnToolCall, ActivePcs
  <1>5. CASE TurnSettings(s)
    BY <1>0, <1>5, TurnGoesFrame, TurnReturnsFrame DEF TurnSettings, ActivePcs
  <1>6. CASE TurnLife(s)
    BY <1>0, <1>6, TurnGoesFrame, TurnReturnsFrame DEF TurnLife, ActivePcs
  <1>7. CASE TurnInsert(s)
    BY <1>0, <1>7, TurnReturnsFrame DEF TurnInsert, ActivePcs
  <1>8. CASE TurnDone(s)
    BY <1>0, <1>8, TurnGoesFrame DEF TurnDone, ActivePcs
  <1> QED BY <1>1, <1>2, <1>3, <1>4, <1>5, <1>6, <1>7, <1>8 DEF TurnStep

LEMMA DaemonGoesFrame ==
    ASSUME daemon \in DaemonRecord, NEW pc \in ClaimedPcs, DaemonGoes(pc)
    PROVE  /\ daemon' \in DaemonRecord
           /\ daemon'.pc = pc
           /\ daemon'.item = daemon.item /\ daemon'.busy = daemon.busy
  BY DEF DaemonGoes, DaemonRecord

LEMMA DaemonRestsFrame ==
    ASSUME DaemonRests
    PROVE  /\ daemon' \in DaemonRecord
           /\ daemon'.pc = "wait"
           /\ control' = IF control = "daemon" THEN Null ELSE control
  BY DEF DaemonRests, IdleDaemon, DaemonRecord

LEMMA BusyType ==
    ASSUME turn \in [Turns -> TurnRecord], TurnsInv
    PROVE  Busy \subseteq Convs
  BY DEF Busy, Registered, InFlight, ActivePcs, TurnsInv

LEMMA NewTurnType ==
    ASSUME NEW kind \in Kinds, NEW conv \in Convs, NEW timer \in Timers \cup {Null},
           NEW pc \in ActivePcs
    PROVE  LET new == [UnusedTurn EXCEPT !.pc = pc, !.kind = kind,
                                         !.conv = conv, !.timer = timer]
           IN  /\ new \in TurnRecord
               /\ new.pc = pc /\ new.kind = kind /\ new.conv = conv
               /\ new.timer = timer /\ new.cancelled = FALSE
  BY DEF UnusedTurn, TurnRecord

\* A turn keeps what it was started with.
Same(s) ==
    /\ turn'[s].kind = turn[s].kind
    /\ turn'[s].conv = turn[s].conv
    /\ turn'[s].timer = turn[s].timer

LEMMA CrashFrame ==
    ASSUME turn \in [Turns -> TurnRecord], Crash
    PROVE  /\ turn' \in [Turns -> TurnRecord]
           /\ \A s \in Turns :
                 /\ Same(s)
                 /\ turn'[s].cancelled = turn[s].cancelled
                 /\ ~InFlight(s)'
                 /\ turn'[s].pc = "unused" <=> turn[s].pc = "unused"
  <1>1. turn' = [s \in Turns |-> [turn[s] EXCEPT
                    !.pc = IF turn[s].pc \in ActivePcs THEN "lost" ELSE turn[s].pc]]
    BY DEF Crash
  <1>2. ASSUME NEW s \in Turns, turn[s].pc \in ActivePcs
        PROVE  /\ turn'[s] = [turn[s] EXCEPT !.pc = "lost"]
               /\ turn'[s] \in TurnRecord
               /\ turn'[s].pc = "lost"
    BY <1>1, <1>2 DEF TurnRecord
  <1>3. ASSUME NEW s \in Turns, turn[s].pc \notin ActivePcs
        PROVE  turn'[s] = turn[s]
    BY <1>1, <1>3 DEF TurnRecord
  <1>4. turn' \in [Turns -> TurnRecord]
    BY <1>1, <1>2, <1>3
  <1>5. ASSUME NEW s \in Turns
        PROVE  /\ Same(s)
               /\ turn'[s].cancelled = turn[s].cancelled
               /\ ~InFlight(s)'
               /\ turn'[s].pc = "unused" <=> turn[s].pc = "unused"
    BY <1>2, <1>3 DEF Same, InFlight, TurnRecord, ActivePcs
  <1> QED BY <1>4, <1>5

LEMMA ResetStopFrame ==
    ASSUME turn \in [Turns -> TurnRecord], NEW o \in Operators, ResetStop(o)
    PROVE  /\ turn' \in [Turns -> TurnRecord]
           /\ \A s \in Turns :
                 /\ Same(s)
                 /\ turn'[s].cancelled = (turn[s].cancelled \/ ActiveContinuation(s))
                 /\ turn'[s].pc = turn[s].pc
  <1>1. turn' = [s \in Turns |-> [turn[s] EXCEPT
                    !.cancelled = turn[s].cancelled \/ ActiveContinuation(s)]]
    BY DEF ResetStop
  <1>2. \A s \in Turns : ActiveContinuation(s) \in BOOLEAN
    BY DEF ActiveContinuation
  <1> QED
    BY <1>1, <1>2 DEF Same, TurnRecord

LEMMA StopTurnFrame ==
    ASSUME turn \in [Turns -> TurnRecord], NEW r \in Turns, StopTurn(r)
    PROVE  /\ turn' \in [Turns -> TurnRecord]
           /\ \A s \in Turns :
                 /\ Same(s)
                 /\ turn[s].cancelled => turn'[s].cancelled
                 /\ turn'[s].pc = turn[s].pc
  <1>1. turn[r] \in TurnRecord /\ [turn[r] EXCEPT !.cancelled = TRUE] \in TurnRecord
    BY DEF TurnRecord
  <1>2. turn' = [turn EXCEPT ![r] = [turn[r] EXCEPT !.cancelled = TRUE]]
    BY DEF StopTurn
  <1>3. turn' \in [Turns -> TurnRecord]
    BY <1>1, <1>2
  <1>4. \A s \in Turns : turn'[s] = IF s = r THEN [turn[r] EXCEPT !.cancelled = TRUE]
                                  ELSE turn[s]
    BY <1>2
  <1> QED
    BY <1>1, <1>3, <1>4 DEF Same, TurnRecord

\* Every step keeps the types.
LEMMA TypeStep ==
    ASSUME TypeOK, RowsInv, TurnsInv, LockInv, [Next]_vars
    PROVE  TypeOK'
  <1> USE DEF TypeOK
  <1>1. ASSUME NEW s \in PostTurns, NEW k \in PostKinds, NEW c \in Convs,
               PostTurn(s, k, c)
        PROVE  TypeOK'
    <2>1. s \in Turns /\ k \in Kinds
      BY PostKindsAssumption DEF Turns, Kinds
    <2>2. [UnusedTurn EXCEPT !.pc = IF k = "approval" THEN "settings" ELSE "begin",
                             !.kind = k, !.conv = c] \in TurnRecord
      BY <2>1 DEF UnusedTurn, TurnRecord, ActivePcs
    <2> QED
      BY <1>1, <2>1, <2>2 DEF PostTurn, store, world
  <1>2. ASSUME NEW s \in Turns, TurnStep(s)
        PROVE  TypeOK'
    <2>1. turn' \in [Turns -> TurnRecord]
      BY <1>2, TurnStepFrame DEF TurnFrame
    <2>2. CASE TurnInsert(s)
      <3>1. turn[s].pc = "insert" /\ turn[s].conv \in Convs \cup {Null}
        BY <2>2 DEF TurnInsert, TurnRecord
      <3>2. WithoutPending \in [Timers -> Status]
        BY RowTypes
      <3> QED
        BY <2>1, <2>2, <3>1, <3>2 DEF TurnInsert, store, world, Status
    <2>3. CASE ~TurnInsert(s)
      BY <1>2, <2>1, <2>3 DEF TurnStep, TurnBegin, TurnReply, TurnModelEnds,
         TurnToolCall, TurnSettings, TurnLife, TurnDone, store, world
    <2> QED BY <2>2, <2>3
  <1>3. ASSUME NEW s \in Turns, StopTurn(s)
        PROVE  TypeOK'
    <2>1. turn' \in [Turns -> TurnRecord]
      BY <1>3, StopTurnFrame
    <2> QED BY <1>3, <2>1 DEF StopTurn, store, world
  <1>4. CASE DaemonCheck
    BY <1>4 DEF DaemonCheck, DaemonRecord, Pending, store, world
  <1>5. CASE DaemonBusy
    <2>1. IdleDaemon \in DaemonRecord
      BY DEF IdleDaemon, DaemonRecord
    <2>2. Busy \subseteq Convs
      BY BusyType
    <2>3. [daemon EXCEPT !.pc = "claim", !.busy = Busy] \in DaemonRecord
      BY <2>2 DEF DaemonRecord
    <2> QED BY <1>5, <2>1, <2>3 DEF DaemonBusy, store, world
  <1>6. CASE DaemonClaim
    <2>1. CASE DaemonRests /\ UNCHANGED <<status, sawEnabled>>
      BY <1>6, <2>1, DaemonRestsFrame DEF DaemonClaim, world
    <2>2. ASSUME NEW t \in Claimable, MarkFiring(t),
                 daemon' = [daemon EXCEPT !.pc = "enabled", !.item = t],
                 control' = "daemon", sawEnabled' = enabled
          PROVE  TypeOK'
      <3>1. t \in Timers
        BY DEF Claimable, Pending
      <3>2. daemon' \in DaemonRecord
        BY <2>2, <3>1 DEF DaemonRecord, ClaimedPcs
      <3> QED
        BY <1>6, <2>2, <3>1, <3>2 DEF DaemonClaim, MarkFiring, Status, world
    <2> QED BY <1>6, <2>1, <2>2 DEF DaemonClaim
  <1>7. CASE DaemonEnabled \/ DaemonLife \/ DaemonStart \/ DaemonFinish
    <2>1. daemon.pc \in ClaimedPcs /\ daemon.item \in Timers
      BY <1>7 DEF DaemonEnabled, DaemonLife, DaemonStart, DaemonFinish, LockInv,
         Claimed, ClaimedPcs
    <2>2. \A outcome \in {"cancelled", "failed", "fired"} :
             Finish(daemon.item, outcome) => status' \in [Timers -> Status]
      BY <2>1, RowTypes DEF Status
    <2>3. DaemonRests => daemon' \in DaemonRecord /\ control' \in {control, Null}
      BY DaemonRestsFrame
    <2>4. \A pc \in ClaimedPcs : DaemonGoes(pc) => daemon' \in DaemonRecord
      BY DaemonGoesFrame
    <2>5. CASE DaemonEnabled
      BY <2>2, <2>3, <2>4, <2>5 DEF DaemonEnabled, ClaimedPcs, world
    <2>6. CASE DaemonLife
      BY <2>2, <2>3, <2>4, <2>6 DEF DaemonLife, ClaimedPcs, world
    <2>7. CASE DaemonFinish
      BY <2>2, <2>3, <2>7 DEF DaemonFinish, world
    <2>8. CASE DaemonStart
      <3>1. home[daemon.item] \in Convs
        BY <2>1 DEF LockInv, RowsInv, Claimed
      <3>2. [UnusedTurn EXCEPT !.pc = "begin", !.kind = "timer",
                               !.conv = home[daemon.item],
                               !.timer = daemon.item] \in TurnRecord
        BY <2>1, <3>1 DEF UnusedTurn, TurnRecord, ActivePcs, Kinds
      <3>3. turn' \in [Turns -> TurnRecord]
        BY <2>8, <3>2 DEF DaemonStart, Turns
      <3> QED
        BY <2>2, <2>3, <2>4, <2>8, <3>3 DEF DaemonStart, ClaimedPcs, world
    <2> QED BY <1>7, <2>5, <2>6, <2>7, <2>8
  <1>8. CASE DaemonFault
    <2>1. faults + 1 \in 0..MaxFaults
      BY <1>8, BoundsAssumption DEF DaemonFault
    <2> QED BY <1>8, <2>1, DaemonRestsFrame DEF DaemonFault, store
  <1>9. CASE CancelReactivation
    BY <1>9, RowTypes DEF CancelReactivation, world
  <1>10. ASSUME NEW o \in Operators, NEW want \in {"on", "off", "keep"},
                ConfigureRead(o, want)
         PROVE  TypeOK'
    BY <1>10 DEF ConfigureRead, OpRecord, store, world
  <1>11. ASSUME NEW o \in Operators, ConfigureWrite(o)
         PROVE  TypeOK'
    <2>1. op[o] \in OpRecord
      OBVIOUS
    <2>2. op[o].read \in BOOLEAN
      BY <2>1 DEF OpRecord
    <2>3. enabled' \in BOOLEAN /\ sawEnabled' \in BOOLEAN
      BY <1>11, <2>2 DEF ConfigureWrite
    <2>4. op' \in [Operators -> OpRecord]
      BY <1>11 DEF ConfigureWrite, OpRecord, IdleOp
    <2> QED BY <1>11, <2>3, <2>4 DEF ConfigureWrite, world
  <1>12. ASSUME NEW o \in Operators, ConfigureCancel(o)
         PROVE  TypeOK'
    BY <1>12, RowTypes DEF ConfigureCancel, OpRecord, IdleOp, world
  <1>13. ASSUME NEW o \in Operators, ResetStore(o)
         PROVE  TypeOK'
    BY <1>13, RowTypes DEF ResetStore, OpRecord, world
  <1>14. ASSUME NEW o \in Operators, ResetStop(o)
         PROVE  TypeOK'
    <2>1. turn' \in [Turns -> TurnRecord]
      BY <1>14, ResetStopFrame
    <2> QED BY <1>14, <2>1 DEF ResetStop, OpRecord, IdleOp, store, world
  <1>15. ASSUME NEW t \in Timers, TimerDue(t)
         PROVE  TypeOK'
    BY <1>15 DEF TimerDue, world
  <1>16. CASE Die
    BY <1>16 DEF Die, store
  <1>17. CASE Crash
    <2>1. turn' \in [Turns -> TurnRecord]
      BY <1>17, CrashFrame
    <2>2. crashes + 1 \in 0..MaxCrashes
      BY <1>17, BoundsAssumption DEF Crash
    <2> QED
      BY <1>17, <2>1, <2>2 DEF Crash, IdleDaemon, DaemonRecord, IdleOp, OpRecord, store
  <1>18. CASE Start
    BY <1>18 DEF Start, OrphanOutcome, Status, world
  <1>19. CASE UNCHANGED vars
    BY <1>19 DEF vars, store, world
  <1> QED
    BY <1>1, <1>2, <1>3, <1>4, <1>5, <1>6, <1>7, <1>8, <1>9, <1>10, <1>11, <1>12,
       <1>13, <1>14, <1>15, <1>16, <1>17, <1>18, <1>19
    DEF Next, DaemonStep, OpStep

-------------------------------------------------------------------------------
(* What the steps do to the turns, the rows and the threads.               *)

\* A turn is neither started nor brought back.
Kept(s) ==
    /\ Same(s)
    /\ turn[s].cancelled => turn'[s].cancelled
    /\ turn'[s].pc = "unused" <=> turn[s].pc = "unused"
    /\ InFlight(s)' => InFlight(s)

\* The daemon starts turn s for the timer it claimed.
Started(s) ==
    /\ turn[s].pc = "unused"
    /\ turn'[s].pc = "begin"
    /\ turn'[s].kind = "timer"
    /\ turn'[s].conv = home[daemon.item]
    /\ turn'[s].timer = daemon.item
    /\ \A r \in Turns : r # s => turn'[r] = turn[r]

Starts == \E s \in TimerTurns : Started(s)

LEMMA DaemonStartFrame ==
    ASSUME TypeOK, DaemonStart
    PROVE  /\ daemon.pc = "start"
           /\ UNCHANGED <<home, due, fresh, enabled, up, op, world, sawEnabled>>
           /\ \/ Finish(daemon.item, "failed") /\ DaemonRests /\ UNCHANGED turn
              \/ Starts /\ DaemonGoes("finish") /\ UNCHANGED <<status, control>>
  <1>1. CASE dead
    BY <1>1 DEF DaemonStart
  <1>2. CASE ~dead
    <2>1. PICK s \in TimerTurns :
             /\ turn[s].pc = "unused"
             /\ turn' = [turn EXCEPT ![s] =
                  [UnusedTurn EXCEPT !.pc = "begin", !.kind = "timer",
                                     !.conv = home[daemon.item],
                                     !.timer = daemon.item]]
      BY <1>2 DEF DaemonStart
    <2>2. turn \in [Turns -> TurnRecord] /\ s \in Turns
      BY DEF TypeOK, Turns
    <2>3. Started(s)
      BY <2>1, <2>2 DEF Started, UnusedTurn
    <2> QED BY <1>2, <2>3 DEF DaemonStart, Starts
  <1> QED BY <1>1, <1>2

\* A turn of any thread is kept, or an operator's request starts it, or the
\* daemon starts one.
LEMMA TurnsMove ==
    ASSUME TypeOK, [Next]_vars
    PROVE  \/ \A s \in Turns : Kept(s)
           \/ /\ \E s \in PostTurns, k \in PostKinds, c \in Convs : PostTurn(s, k, c)
              /\ \A s \in TimerTurns : Kept(s)
           \/ DaemonStart /\ Starts
  <1>0. turn \in [Turns -> TurnRecord]
    BY DEF TypeOK
  <1> USE DEF Kept, Same, InFlight
  <1>1. ASSUME UNCHANGED turn
        PROVE  \A s \in Turns : Kept(s)
    BY <1>1
  <1>2. ASSUME NEW s \in PostTurns, NEW k \in PostKinds, NEW c \in Convs,
               PostTurn(s, k, c)
        PROVE  \A r \in TimerTurns : Kept(r)
    <2>1. \A r \in TimerTurns : r # s /\ r \in Turns
      BY TurnsAssumption DEF Turns
    <2>2. \A r \in TimerTurns : turn'[r] = turn[r]
      BY <1>0, <1>2, <2>1 DEF PostTurn, Turns
    <2> QED BY <2>2
  <1>3. ASSUME NEW s \in Turns, TurnStep(s)
        PROVE  \A r \in Turns : Kept(r)
    <2>1. turn[s].pc \in ActivePcs /\ TurnFrame(s)
      BY <1>3, TurnStepFrame
    <2>2. Kept(s)
      BY <2>1 DEF TurnFrame, ActivePcs
    <2> QED BY <2>1, <2>2 DEF TurnFrame
  <1>4. ASSUME NEW s \in Turns, StopTurn(s)
        PROVE  \A r \in Turns : Kept(r)
    BY <1>0, <1>4, StopTurnFrame
  <1>5. CASE DaemonStart
    BY <1>1, <1>5, DaemonStartFrame
  <1>6. ASSUME NEW o \in Operators, ResetStop(o)
        PROVE  \A r \in Turns : Kept(r)
    BY <1>0, <1>6, ResetStopFrame
  <1>7. CASE Crash
    BY <1>0, <1>7, CrashFrame
  <1>8. CASE \/ DaemonCheck \/ DaemonBusy \/ DaemonClaim \/ DaemonEnabled
             \/ DaemonLife \/ DaemonFinish \/ DaemonFault \/ CancelReactivation
             \/ \E o \in Operators :
                   \/ \E want \in {"on", "off", "keep"} : ConfigureRead(o, want)
                   \/ ConfigureWrite(o) \/ ConfigureCancel(o) \/ ResetStore(o)
             \/ \E t \in Timers : TimerDue(t)
             \/ Die \/ Start \/ UNCHANGED vars
    <2>1. UNCHANGED turn
      BY <1>8 DEF DaemonCheck, DaemonBusy, DaemonClaim, DaemonEnabled,
         DaemonLife, DaemonFinish, DaemonFault, CancelReactivation, ConfigureRead,
         ConfigureWrite, ConfigureCancel, ResetStore, TimerDue, Die, Start, vars
    <2> QED BY <1>1, <2>1
  <1> QED
    BY <1>2, <1>3, <1>4, <1>5, <1>6, <1>7, <1>8 DEF Next, DaemonStep, OpStep

\* Nothing that concerns the rows or the control lock happens.
Plain ==
    /\ UNCHANGED <<status, home, fresh, up, daemon, control>>
    /\ \A o \in Operators : op'[o].pc = "stop" <=> op[o].pc = "stop"

\* The pending row is cancelled, and nothing else happens to rows and lock.
Withdrawn ==
    /\ status' = WithoutPending
    /\ UNCHANGED <<home, fresh, up, daemon, control>>
    /\ \A o \in Operators : op'[o].pc = "stop" <=> op[o].pc = "stop"

LEMMA StepCases ==
    ASSUME TypeOK, [Next]_vars
    PROVE  \/ Plain
           \/ Withdrawn
           \/ \E s \in Turns : TurnInsert(s)
           \/ DaemonStep \/ DaemonFault
           \/ \E o \in Operators : ResetStore(o) \/ ResetStop(o)
           \/ Crash \/ Start
  <1>1. ASSUME NEW s \in PostTurns, NEW k \in PostKinds, NEW c \in Convs,
               PostTurn(s, k, c)
        PROVE  Plain
    BY <1>1 DEF PostTurn, Plain, store
  <1>2. ASSUME NEW s \in Turns, TurnStep(s), ~TurnInsert(s)
        PROVE  Plain
    BY <1>2 DEF TurnStep, TurnBegin, TurnReply, TurnModelEnds, TurnToolCall,
       TurnSettings, TurnLife, TurnDone, Plain, store
  <1>3. ASSUME NEW s \in Turns, StopTurn(s)
        PROVE  Plain
    BY <1>3 DEF StopTurn, Plain, store
  <1>4. ASSUME NEW o \in Operators, NEW want \in {"on", "off", "keep"},
               ConfigureRead(o, want)
        PROVE  Plain
    BY <1>4 DEF TypeOK, ConfigureRead, Plain, store
  <1>5. ASSUME NEW o \in Operators, ConfigureWrite(o)
        PROVE  Plain
    BY <1>5 DEF TypeOK, ConfigureWrite, Plain, IdleOp
  <1>6. ASSUME NEW o \in Operators, ConfigureCancel(o)
        PROVE  Withdrawn
    BY <1>6 DEF TypeOK, ConfigureCancel, Withdrawn, IdleOp
  <1>7. CASE CancelReactivation
    BY <1>7 DEF CancelReactivation, Withdrawn
  <1>8. ASSUME NEW t \in Timers, TimerDue(t)
        PROVE  Plain
    BY <1>8 DEF TimerDue, Plain
  <1>9. CASE Die \/ UNCHANGED vars
    BY <1>9 DEF Die, vars, Plain, store
  <1> QED
    BY <1>1, <1>2, <1>3, <1>4, <1>5, <1>6, <1>7, <1>8, <1>9 DEF Next, OpStep

\* history.schedule_reactivation inserts a row or changes nothing.
Inserted(t) ==
    /\ status[t] = "absent"
    /\ status' = [WithoutPending EXCEPT ![t] = "pending"]
    /\ \E c \in Convs : home' = [home EXCEPT ![t] = c]
    /\ fresh' = fresh \cup {t}

LEMMA InsertFrame ==
    ASSUME TypeOK, TurnsInv, NEW s \in Turns, TurnInsert(s)
    PROVE  /\ \/ UNCHANGED <<status, home, fresh>>
              \/ \E t \in Timers : Inserted(t)
           /\ UNCHANGED <<enabled, up, daemon, control, op, sawEnabled>>
  <1>1. turn[s].conv \in Convs
    BY DEF TurnInsert, TurnsInv
  <1>2. UNCHANGED <<enabled, up, daemon, control, op, sawEnabled>>
    BY DEF TurnInsert, store
  <1>3. CASE UNCHANGED store
    BY <1>2, <1>3 DEF store
  <1>4. CASE ~UNCHANGED store
    <2>1. PICK t \in Timers :
             /\ status[t] = "absent"
             /\ status' = [WithoutPending EXCEPT ![t] = "pending"]
             /\ home' = [home EXCEPT ![t] = turn[s].conv]
             /\ fresh' = fresh \cup {t}
      BY <1>4 DEF TurnInsert
    <2> QED BY <1>1, <1>2, <2>1 DEF Inserted
  <1> QED BY <1>3, <1>4

LEMMA FinishFrame ==
    ASSUME status \in [Timers -> Status], NEW t, NEW outcome, Finish(t, outcome)
    PROVE  \A u \in Timers :
              status'[u] = IF u = t /\ status[t] \in {"pending", "firing"}
                           THEN outcome ELSE status[u]
  BY DEF Finish

LEMMA RanMembers ==
    \A t : t \in Ran <=>
              \E s \in TimerTurns : turn[s].pc # "unused" /\ turn[s].timer = t
  BY DEF Ran

\* A step that starts no continuation leaves Ran as it is; one that does adds
\* the timer the daemon claimed.
LEMMA RanMoves ==
    ASSUME TypeOK, [Next]_vars
    PROVE  \/ Ran' = Ran /\ \A s \in TimerTurns : Kept(s)
           \/ /\ DaemonStart /\ Starts
              /\ Ran' = Ran \cup {daemon.item}
  <1>1. ASSUME \A s \in TimerTurns : Kept(s)
        PROVE  Ran' = Ran
    BY <1>1 DEF Ran, Kept, Same
  <1>2. ASSUME Starts
        PROVE  Ran' = Ran \cup {daemon.item}
    <2>1. PICK s \in TimerTurns : Started(s)
      BY <1>2 DEF Starts
    <2>2. \A r \in TimerTurns : r # s => turn'[r] = turn[r]
      BY <2>1 DEF Started, Turns
    <2> QED BY <2>1, <2>2 DEF Started, Ran
  <1> QED BY <1>1, <1>2, TurnsMove DEF Turns

-------------------------------------------------------------------------------
(* The parts of the invariant, one by one.                                 *)

LEMMA RowsStep ==
    ASSUME Inductive, [Next]_vars
    PROVE  RowsInv'
  <1> USE DEF RowsInv
  <1>0. TypeOK /\ RowsInv /\ TurnsInv /\ LockInv
    BY DEF Inductive
  <1>t. status \in [Timers -> Status] /\ home \in [Timers -> Convs \cup {Null}]
    BY <1>0 DEF TypeOK
  <1>1. CASE Plain
    BY <1>0, <1>1 DEF Plain
  <1>2. CASE Withdrawn
    BY <1>0, <1>2 DEF Withdrawn, WithoutPending
  <1>3. ASSUME NEW s \in Turns, TurnInsert(s)
        PROVE  RowsInv'
    BY <1>0, <1>3, <1>t, InsertFrame DEF Inserted, WithoutPending
  <1>4. CASE DaemonCheck \/ DaemonBusy \/ DaemonFault
    BY <1>0, <1>4 DEF DaemonCheck, DaemonBusy, DaemonFault, store
  <1>5. CASE DaemonClaim
    BY <1>0, <1>5, <1>t DEF DaemonClaim, Claimable, Pending, MarkFiring
  <1>6. CASE DaemonEnabled \/ DaemonLife \/ DaemonStart \/ DaemonFinish
    <2>1. UNCHANGED <<home, fresh>>
      BY <1>6 DEF DaemonEnabled, DaemonLife, DaemonStart, DaemonFinish
    <2>2. \/ UNCHANGED status
          \/ \E outcome \in {"cancelled", "failed", "fired"} : Finish(daemon.item, outcome)
      BY <1>6 DEF DaemonEnabled, DaemonLife, DaemonStart, DaemonFinish
    <2> QED BY <1>0, <1>t, <2>1, <2>2, FinishFrame
  <1>7. ASSUME NEW o \in Operators, ResetStore(o)
        PROVE  RowsInv'
    BY <1>0, <1>7 DEF ResetStore, WithoutPending
  <1>8. ASSUME NEW o \in Operators, ResetStop(o)
        PROVE  RowsInv'
    BY <1>0, <1>8 DEF ResetStop, store
  <1>9. CASE Crash \/ Start
    BY <1>0, <1>9 DEF Crash, Start, store, OrphanOutcome
  <1> QED
    BY <1>0, <1>1, <1>2, <1>3, <1>4, <1>5, <1>6, <1>7, <1>8, <1>9, StepCases
    DEF DaemonStep

LEMMA TurnsStep ==
    ASSUME Inductive, [Next]_vars
    PROVE  TurnsInv'
  <1>0. TypeOK /\ RowsInv /\ TurnsInv /\ LockInv
    BY DEF Inductive
  <1>1. CASE \A s \in Turns : Kept(s)
    BY <1>0, <1>1 DEF TurnsInv, Kept, Same, Turns
  <1>2. ASSUME NEW s \in PostTurns, NEW k \in PostKinds, NEW c \in Convs,
               PostTurn(s, k, c), \A r \in TimerTurns : Kept(r)
        PROVE  TurnsInv'
    <2>1. /\ turn'[s].conv = c
          /\ \A r \in Turns : r # s => turn'[r] = turn[r]
      BY <1>0, <1>2 DEF TypeOK, PostTurn, UnusedTurn, Turns
    <2>2. \A r \in Turns : turn'[r].pc # "unused" => turn'[r].conv \in Convs
      BY <1>0, <2>1 DEF TurnsInv
    <2>3. \A r \in TimerTurns : turn'[r].pc # "unused" =>
             turn'[r].kind = "timer" /\ turn'[r].timer \in Timers
      BY <1>0, <1>2 DEF TurnsInv, Kept, Same
    <2> QED BY <2>2, <2>3 DEF TurnsInv
  <1>3. ASSUME DaemonStart, NEW s \in TimerTurns, Started(s)
        PROVE  TurnsInv'
    <2>1. daemon.item \in Timers /\ home[daemon.item] \in Convs
      BY <1>0, <1>3 DEF DaemonStart, LockInv, RowsInv
    <2> QED BY <1>0, <1>3, <2>1 DEF TurnsInv, Started, Turns
  <1> QED BY <1>0, <1>1, <1>2, <1>3, TurnsMove DEF Starts

\* The claim in the daemon's hands stays whole under anything but its own
\* steps, because whoever touches the rows leaves "firing" ones alone, and
\* whoever moves the reset mark needs the control lock.
LEMMA LockStep ==
    ASSUME Inductive, [Next]_vars
    PROVE  LockInv'
  <1> USE DEF LockInv, Claimed
  <1>0. TypeOK /\ RowsInv /\ TurnsInv /\ LockInv
    BY DEF Inductive
  <1>t. /\ status \in [Timers -> Status] /\ daemon \in DaemonRecord
        /\ op \in [Operators -> OpRecord]
        /\ Null \notin Operators /\ "daemon" \notin Operators /\ Null # "daemon"
    BY <1>0, NullAssumption, OperatorsAssumption DEF TypeOK
  <1>1. CASE Plain
    <2>1. UNCHANGED <<status, home, fresh, up, daemon, control>>
      BY <1>1 DEF Plain
    <2>2. \A o \in Operators : op'[o].pc = "stop" => op[o].pc = "stop"
      BY <1>1 DEF Plain
    <2> QED BY <1>0, <2>1, <2>2
  <1>2. CASE Withdrawn
    <2>1. UNCHANGED <<home, fresh, up, daemon, control>>
      BY <1>2 DEF Withdrawn
    <2>2. \A o \in Operators : op'[o].pc = "stop" => op[o].pc = "stop"
      BY <1>2 DEF Withdrawn
    <2>3. \A u \in Timers : /\ status[u] # "absent" => status'[u] # "absent"
                            /\ status[u] = "firing" => status'[u] = "firing"
      BY <1>2 DEF Withdrawn, WithoutPending
    <2> QED BY <1>0, <2>1, <2>2, <2>3 DEF ClaimedPcs
  <1>3. ASSUME NEW s \in Turns, TurnInsert(s)
        PROVE  LockInv'
    <2>1. CASE UNCHANGED <<status, home, fresh>>
      BY <1>0, <1>3, <2>1, InsertFrame
    <2>2. ASSUME NEW t \in Timers, Inserted(t)
          PROVE  LockInv'
      <3>1. /\ UNCHANGED <<up, daemon, control, op>>
            /\ fresh \subseteq fresh'
        BY <1>0, <1>3, <2>2, InsertFrame DEF Inserted
      <3>2. \A u \in Timers : /\ status[u] # "absent" => status'[u] # "absent"
                              /\ status[u] = "firing" => status'[u] = "firing"
        BY <1>t, <2>2 DEF Inserted, WithoutPending
      <3> QED BY <1>0, <3>1, <3>2 DEF ClaimedPcs
    <2> QED BY <1>0, <1>3, <2>1, <2>2, InsertFrame
  <1>4. CASE DaemonCheck
    BY <1>0, <1>4 DEF DaemonCheck, Pending, ClaimedPcs, store
  <1>5. CASE DaemonBusy
    BY <1>0, <1>t, <1>5 DEF DaemonBusy, IdleDaemon, DaemonRecord, ClaimedPcs, store
  <1>6. CASE DaemonClaim
    <2>1. CASE DaemonRests /\ UNCHANGED <<status, sawEnabled>>
      BY <1>0, <1>t, <1>6, <2>1, DaemonRestsFrame
      DEF DaemonClaim, ControlFree, ClaimedPcs
    <2>2. ASSUME NEW t \in Claimable, MarkFiring(t),
                 daemon' = [daemon EXCEPT !.pc = "enabled", !.item = t],
                 control' = "daemon"
          PROVE  LockInv'
      <3>1. t \in Timers /\ status[t] = "pending" /\ t \in fresh
        BY <1>0 DEF Claimable, Pending, RowsInv
      <3>2. daemon'.pc = "enabled" /\ daemon'.item = t
        BY <1>t, <2>2 DEF DaemonRecord
      <3>3. status'[t] = "firing" /\ UNCHANGED <<fresh, up, op>> /\ up
        BY <1>0, <1>t, <1>6, <2>2, <3>1 DEF DaemonClaim, MarkFiring
      <3>4. \A o \in Operators : op[o].pc # "stop"
        BY <1>0, <1>t, <1>6 DEF DaemonClaim, ControlFree
      <3> QED BY <2>2, <3>1, <3>2, <3>3, <3>4
    <2> QED BY <1>6, <2>1, <2>2 DEF DaemonClaim
  <1>7. CASE DaemonEnabled \/ DaemonLife \/ DaemonStart \/ DaemonFinish
    <2>1. /\ daemon.pc \in ClaimedPcs /\ control = "daemon"
          /\ UNCHANGED <<home, fresh, up, op>>
      BY <1>0, <1>7 DEF DaemonEnabled, DaemonLife, DaemonStart, DaemonFinish, ClaimedPcs
    <2>2. CASE DaemonRests
      BY <1>0, <1>t, <2>1, <2>2, DaemonRestsFrame DEF ClaimedPcs
    <2>3. CASE ~DaemonRests
      <3>1. /\ UNCHANGED <<status, control>>
            /\ \E pc \in ClaimedPcs : DaemonGoes(pc)
        BY <1>7, <2>3, <1>0, DaemonStartFrame
        DEF DaemonEnabled, DaemonLife, DaemonFinish, ClaimedPcs
      <3>2. daemon'.item = daemon.item
        BY <1>t, <3>1, DaemonGoesFrame
      <3> QED BY <1>0, <2>1, <3>1, <3>2 DEF ClaimedPcs
    <2> QED BY <2>2, <2>3
  <1>8. CASE DaemonFault
    BY <1>0, <1>t, <1>8, DaemonRestsFrame DEF DaemonFault, ClaimedPcs, store
  <1>9. ASSUME NEW o \in Operators, ResetStore(o)
        PROVE  LockInv'
    BY <1>0, <1>t, <1>9 DEF ResetStore, ControlFree, WithoutPending
  <1>10. ASSUME NEW o \in Operators, ResetStop(o)
         PROVE  LockInv'
    BY <1>0, <1>t, <1>10 DEF ResetStop, IdleOp, store
  <1>11. CASE Crash
    BY <1>0, <1>t, <1>11 DEF Crash, IdleDaemon, IdleOp, ClaimedPcs
  <1>12. CASE Start
    BY <1>0, <1>t, <1>12 DEF Start, ClaimedPcs
  <1> QED
    BY <1>0, <1>1, <1>2, <1>3, <1>4, <1>5, <1>6, <1>7, <1>8, <1>9, <1>10, <1>11,
       <1>12, StepCases
    DEF DaemonStep

\* What the daemon's steps on a claimed timer do: it ends in an outcome, or
\* the daemon goes on to its next step.
LEMMA ClaimedStepFrame ==
    ASSUME Inductive, DaemonEnabled \/ DaemonLife \/ DaemonStart \/ DaemonFinish
    PROVE  /\ Claimed /\ daemon.item \in Timers /\ status[daemon.item] = "firing"
           /\ UNCHANGED <<home, fresh, enabled, up, op, sawEnabled>>
           /\ \/ /\ daemon'.pc = "wait" /\ UNCHANGED turn
                 /\ \E outcome \in {"cancelled", "failed", "fired"} :
                       /\ outcome = "fired" <=> daemon.pc = "finish"
                       /\ \A u \in Timers : status'[u] =
                             IF u = daemon.item THEN outcome ELSE status[u]
              \/ /\ UNCHANGED status
                 /\ daemon'.item = daemon.item
                 /\ \/ daemon.pc = "enabled" /\ daemon'.pc = "life" /\ enabled
                       /\ UNCHANGED turn
                    \/ daemon.pc = "life" /\ daemon'.pc = "start" /\ UNCHANGED turn
                    \/ daemon.pc = "start" /\ daemon'.pc = "finish" /\ Starts
  <1>0. TypeOK /\ LockInv
    BY DEF Inductive
  <1>1. /\ Claimed /\ daemon.item \in Timers /\ status[daemon.item] = "firing"
        /\ status \in [Timers -> Status] /\ daemon \in DaemonRecord
    BY <1>0 DEF LockInv, Claimed, ClaimedPcs, DaemonEnabled, DaemonLife,
       DaemonStart, DaemonFinish, TypeOK
  <1>2. \A outcome \in {"cancelled", "failed", "fired"} :
           Finish(daemon.item, outcome) =>
              \A u \in Timers : status'[u] =
                 IF u = daemon.item THEN outcome ELSE status[u]
    BY <1>1, FinishFrame
  <1>3. DaemonRests => daemon'.pc = "wait"
    BY DaemonRestsFrame
  <1>4. \A pc \in ClaimedPcs : DaemonGoes(pc) =>
                                  daemon'.pc = pc /\ daemon'.item = daemon.item
    BY <1>1, DaemonGoesFrame
  <1>5. CASE DaemonEnabled
    BY <1>1, <1>2, <1>3, <1>4, <1>5 DEF DaemonEnabled, ClaimedPcs
  <1>6. CASE DaemonLife
    BY <1>1, <1>2, <1>3, <1>4, <1>6 DEF DaemonLife, ClaimedPcs
  <1>7. CASE DaemonStart
    BY <1>0, <1>1, <1>2, <1>3, <1>4, <1>7, DaemonStartFrame DEF ClaimedPcs
  <1>8. CASE DaemonFinish
    BY <1>1, <1>2, <1>3, <1>8 DEF DaemonFinish
  <1> QED BY <1>5, <1>6, <1>7, <1>8

LEMMA RunStep ==
    ASSUME Inductive, [Next]_vars
    PROVE  RunInv'
  <1> USE DEF RunInv, Claimed
  <1>0. TypeOK /\ TurnsInv /\ LockInv /\ RunInv
    BY DEF Inductive
  <1>t. status \in [Timers -> Status] /\ daemon \in DaemonRecord
    BY <1>0 DEF TypeOK
  <1>1. CASE DaemonEnabled \/ DaemonLife \/ DaemonStart \/ DaemonFinish
    <2>1. CASE ~Starts
      <3>1. Ran' = Ran
        BY <1>0, <2>1, RanMoves
      <3> QED
        BY <1>0, <1>1, <2>1, <3>1, ClaimedStepFrame DEF ClaimedPcs
    <2>2. CASE Starts
      <3>1. /\ UNCHANGED status
            /\ daemon.pc = "start" /\ daemon'.pc = "finish"
            /\ daemon'.item = daemon.item
            /\ daemon.item \in Timers /\ status[daemon.item] = "firing"
        <4>1. turn' # turn
          BY <2>2 DEF Starts, Started
        <4> QED BY <1>1, <4>1, ClaimedStepFrame
      <3>2. Ran' = Ran \cup {daemon.item}
        <4>1. \E s \in TimerTurns : ~Kept(s)
          BY <2>2 DEF Starts, Started, Kept
        <4> QED BY <1>0, <4>1, RanMoves
      <3> QED BY <1>0, <3>1, <3>2 DEF ClaimedPcs
    <2> QED BY <2>1, <2>2
  <1>2. CASE ~(DaemonEnabled \/ DaemonLife \/ DaemonStart \/ DaemonFinish)
    <2>0. Ran' = Ran
      BY <1>0, <1>2, RanMoves
    <2>1. CASE Plain
      BY <1>0, <2>0, <2>1 DEF Plain, ClaimedPcs
    <2>2. CASE Withdrawn
      BY <1>0, <1>t, <2>0, <2>2 DEF Withdrawn, WithoutPending, ClaimedPcs
    <2>3. ASSUME NEW s \in Turns, TurnInsert(s)
          PROVE  RunInv'
      BY <1>0, <1>t, <2>0, <2>3, InsertFrame DEF Inserted, WithoutPending, ClaimedPcs
    <2>4. CASE DaemonCheck
      BY <1>0, <2>0, <2>4 DEF DaemonCheck, ClaimedPcs, store
    <2>5. CASE DaemonBusy
      BY <1>0, <1>t, <2>0, <2>5 DEF DaemonBusy, IdleDaemon, DaemonRecord, ClaimedPcs, store
    <2>6. CASE DaemonClaim
      <3>1. CASE DaemonRests /\ UNCHANGED status
        BY <1>0, <2>0, <3>1, DaemonRestsFrame DEF ClaimedPcs
      <3>2. ASSUME NEW t \in Claimable, MarkFiring(t),
                   daemon' = [daemon EXCEPT !.pc = "enabled", !.item = t]
            PROVE  RunInv'
        <4>1. t \in Timers /\ status[t] = "pending" /\ t \notin Ran
          BY <1>0 DEF Claimable, Pending
        <4>2. daemon'.pc = "enabled" /\ daemon'.item = t
          BY <1>t, <3>2 DEF DaemonRecord
        <4>3. \A u \in Timers : status'[u] = IF u = t THEN "firing" ELSE status[u]
          BY <1>t, <3>2 DEF MarkFiring
        <4> QED BY <1>0, <2>0, <4>1, <4>2, <4>3 DEF ClaimedPcs
      <3> QED BY <2>6, <3>1, <3>2 DEF DaemonClaim
    <2>7. CASE DaemonFault
      BY <1>0, <2>0, <2>7, DaemonRestsFrame DEF DaemonFault, ClaimedPcs, store
    <2>8. ASSUME NEW o \in Operators, ResetStore(o)
          PROVE  RunInv'
      BY <1>0, <1>t, <2>0, <2>8 DEF ResetStore, WithoutPending, ClaimedPcs
    <2>9. ASSUME NEW o \in Operators, ResetStop(o)
          PROVE  RunInv'
      BY <1>0, <2>0, <2>9 DEF ResetStop, store, ClaimedPcs
    <2>10. CASE Crash
      BY <1>0, <2>0, <2>10 DEF Crash, IdleDaemon, ClaimedPcs, store
    <2>11. CASE Start
      BY <1>0, <1>t, <2>0, <2>11 DEF Start, OrphanOutcome, ClaimedPcs
    <2> QED
      BY <1>0, <1>2, <2>1, <2>2, <2>3, <2>4, <2>5, <2>6, <2>7, <2>8, <2>9, <2>10,
         <2>11, StepCases
      DEF DaemonStep
  <1> QED BY <1>1, <1>2

LEMMA SettingStep ==
    ASSUME Inductive, [Next]_vars
    PROVE  SettingInv'
  <1> USE DEF SettingInv
  <1>0. TypeOK /\ TurnsInv /\ LockInv /\ SettingInv
    BY DEF Inductive
  <1>t. daemon \in DaemonRecord
    BY <1>0 DEF TypeOK
  <1>1. CASE DaemonEnabled \/ DaemonLife \/ DaemonStart \/ DaemonFinish
    BY <1>0, <1>1, ClaimedStepFrame DEF Claimed
  <1>2. CASE DaemonCheck
    BY <1>0, <1>2 DEF DaemonCheck, store
  <1>3. CASE DaemonBusy
    BY <1>0, <1>t, <1>3 DEF DaemonBusy, IdleDaemon, DaemonRecord, store
  <1>4. CASE DaemonClaim
    <2>1. UNCHANGED enabled
      BY <1>4 DEF DaemonClaim
    <2>2. CASE DaemonRests /\ UNCHANGED sawEnabled
      BY <1>0, <2>1, <2>2, DaemonRestsFrame
    <2>3. ASSUME NEW t, daemon' = [daemon EXCEPT !.pc = "enabled", !.item = t],
                 sawEnabled' = enabled
          PROVE  SettingInv'
      BY <1>0, <1>t, <2>1, <2>3 DEF DaemonRecord
    <2> QED BY <1>4, <2>2, <2>3 DEF DaemonClaim
  <1>5. CASE DaemonFault
    BY <1>0, <1>5, DaemonRestsFrame DEF DaemonFault, store
  <1>6. ASSUME NEW o \in Operators, ConfigureWrite(o)
        PROVE  SettingInv'
    BY <1>0, <1>6 DEF ConfigureWrite
  <1>7. ASSUME NEW o \in Operators, ResetStore(o)
        PROVE  SettingInv'
    BY <1>0, <1>7 DEF ResetStore
  <1>8. ASSUME NEW s \in Turns, TurnStep(s)
        PROVE  SettingInv'
    BY <1>0, <1>8 DEF TurnStep, TurnBegin, TurnReply, TurnModelEnds, TurnToolCall,
       TurnSettings, TurnLife, TurnInsert, TurnDone, store
  <1>9. CASE Crash
    BY <1>0, <1>9 DEF Crash, IdleDaemon, store
  <1>10. CASE CancelReactivation \/ Die \/ Start
    BY <1>0, <1>10 DEF CancelReactivation, Die, Start, store
  <1>11. CASE \E s \in PostTurns, k \in PostKinds, c \in Convs : PostTurn(s, k, c)
    BY <1>0, <1>11 DEF PostTurn, store
  <1>12. CASE \/ \E o \in Operators, want \in {"on", "off", "keep"} : ConfigureRead(o, want)
              \/ \E o \in Operators : ConfigureCancel(o) \/ ResetStop(o)
              \/ \E s \in Turns : StopTurn(s)
              \/ \E t \in Timers : TimerDue(t)
    BY <1>0, <1>12 DEF ConfigureRead, ConfigureCancel, ResetStop, StopTurn, TimerDue, store
  <1>13. CASE UNCHANGED vars
    BY <1>0, <1>13 DEF vars, store
  <1> QED
    BY <1>1, <1>2, <1>3, <1>4, <1>5, <1>6, <1>7, <1>8, <1>9, <1>10, <1>11, <1>12,
       <1>13
    DEF Next, DaemonStep, OpStep

LEMMA BusyStep ==
    ASSUME Inductive, [Next]_vars
    PROVE  BusyInv'
  <1> USE DEF BusyInv, Claimed
  <1>0. TypeOK /\ TurnsInv /\ LockInv /\ BusyInv
    BY DEF Inductive
  <1>t. /\ status \in [Timers -> Status] /\ daemon \in DaemonRecord
        /\ home \in [Timers -> Convs \cup {Null}]
    BY <1>0 DEF TypeOK
  <1>1. CASE DaemonStart /\ Starts
    <2>1. daemon'.pc = "finish"
      <3>1. turn' # turn
        BY <1>1 DEF Starts, Started
      <3> QED BY <1>1, <3>1, ClaimedStepFrame
    <2> QED BY <2>1 DEF ClaimedPcs
  <1>2. CASE \A s \in TimerTurns : Kept(s)
    <2>0. \A s \in TimerTurns :
             InFlight(s)' => InFlight(s) /\ turn'[s].conv = turn[s].conv
      BY <1>2 DEF Kept, Same
    <2>1. CASE UNCHANGED <<home, daemon>>
      BY <1>0, <2>0, <2>1 DEF ClaimedPcs
    <2>2. ASSUME NEW s \in Turns, TurnInsert(s)
          PROVE  BusyInv'
      <3>1. CASE UNCHANGED <<home, daemon>>
        BY <2>1, <3>1
      <3>2. ASSUME NEW t \in Timers, Inserted(t)
            PROVE  BusyInv'
        <4>1. UNCHANGED daemon
          BY <1>0, <2>2, InsertFrame
        <4>2. daemon.pc # "wait" => home'[daemon.item] = home[daemon.item]
          BY <1>0, <1>t, <3>2 DEF LockInv, Inserted
        <4> QED BY <1>0, <2>0, <4>1, <4>2 DEF ClaimedPcs
      <3> QED BY <1>0, <2>2, <3>1, <3>2, InsertFrame
    <2>3. CASE DaemonBusy
      <3>1. UNCHANGED turn
        BY <2>3 DEF DaemonBusy
      <3>2. \A s \in TimerTurns : InFlight(s) => turn[s].conv \in Busy
        BY <1>0 DEF TurnsInv, Busy, Registered, InFlight, ActivePcs, Turns
      <3>3. \/ daemon'.pc = "wait"
            \/ daemon'.pc = "claim" /\ daemon'.busy = Busy
        BY <1>t, <2>3 DEF DaemonBusy, IdleDaemon, DaemonRecord
      <3> QED BY <2>0, <3>2, <3>3 DEF ClaimedPcs
    <2>4. CASE DaemonClaim
      <3>1. CASE DaemonRests
        BY <3>1, DaemonRestsFrame DEF ClaimedPcs
      <3>2. ASSUME NEW t \in Claimable,
                   daemon' = [daemon EXCEPT !.pc = "enabled", !.item = t]
            PROVE  BusyInv'
        <4>1. daemon.pc = "claim" /\ UNCHANGED home
          BY <2>4 DEF DaemonClaim
        <4>2. \A s \in TimerTurns : InFlight(s) => turn[s].conv # home[t]
          BY <1>0, <4>1 DEF Claimable
        <4>3. daemon'.pc = "enabled" /\ daemon'.item = t
          BY <1>t, <3>2 DEF DaemonRecord
        <4> QED BY <2>0, <4>1, <4>2, <4>3
      <3> QED BY <2>4, <3>1, <3>2 DEF DaemonClaim
    <2>5. CASE DaemonEnabled \/ DaemonLife \/ DaemonStart \/ DaemonFinish
      <3>1. \/ daemon'.pc = "wait"
            \/ /\ daemon'.item = daemon.item /\ UNCHANGED home
               /\ daemon.pc \in {"enabled", "life", "start"}
               /\ daemon'.pc \in {"life", "start", "finish"}
        BY <2>5, ClaimedStepFrame
      <3> QED BY <1>0, <2>0, <3>1 DEF ClaimedPcs
    <2>6. CASE DaemonCheck
      BY <2>6 DEF DaemonCheck, ClaimedPcs
    <2>7. CASE DaemonFault
      BY <2>7, DaemonRestsFrame DEF DaemonFault, ClaimedPcs
    <2>8. CASE Crash
      BY <2>8 DEF Crash, IdleDaemon, ClaimedPcs
    <2>9. CASE \/ Plain \/ Withdrawn \/ Start
               \/ \E o \in Operators : ResetStore(o) \/ ResetStop(o)
      BY <2>1, <2>9 DEF Plain, Withdrawn, Start, ResetStore, ResetStop, store
    <2> QED
      BY <1>0, <2>2, <2>3, <2>4, <2>5, <2>6, <2>7, <2>8, <2>9, StepCases DEF DaemonStep
  <1> QED BY <1>0, <1>1, <1>2, RanMoves

LEMMA PendingStep ==
    ASSUME Inductive, [Next]_vars
    PROVE  AtMostOnePending'
  <1> USE DEF AtMostOnePending, Pending
  <1>0. TypeOK /\ TurnsInv /\ AtMostOnePending
    BY DEF Inductive
  <1>t. status \in [Timers -> Status]
    BY <1>0 DEF TypeOK
  <1>1. ASSUME \A t \in Timers : status'[t] = "pending" => status[t] = "pending"
        PROVE  AtMostOnePending'
    BY <1>0, <1>1
  <1>2. CASE Plain \/ Withdrawn
    BY <1>0, <1>1, <1>2 DEF Plain, Withdrawn, WithoutPending
  <1>3. ASSUME NEW s \in Turns, TurnInsert(s)
        PROVE  AtMostOnePending'
    BY <1>0, <1>t, <1>3, InsertFrame DEF Inserted, WithoutPending
  <1>4. CASE DaemonCheck \/ DaemonBusy \/ DaemonFault
    BY <1>1, <1>4 DEF DaemonCheck, DaemonBusy, DaemonFault, store
  <1>5. CASE DaemonClaim
    BY <1>1, <1>5, <1>t DEF DaemonClaim, MarkFiring
  <1>6. CASE DaemonEnabled \/ DaemonLife \/ DaemonStart \/ DaemonFinish
    <2>1. \A t \in Timers : status'[t] = status[t] \/ status'[t] # "pending"
      BY <1>6, ClaimedStepFrame
    <2> QED BY <1>1, <2>1
  <1>7. ASSUME NEW o \in Operators, ResetStore(o)
        PROVE  AtMostOnePending'
    BY <1>1, <1>7 DEF ResetStore, WithoutPending
  <1>8. ASSUME NEW o \in Operators, ResetStop(o)
        PROVE  AtMostOnePending'
    BY <1>1, <1>8 DEF ResetStop, store
  <1>9. CASE Crash \/ Start
    BY <1>1, <1>9 DEF Crash, Start, store, OrphanOutcome
  <1> QED
    BY <1>0, <1>2, <1>3, <1>4, <1>5, <1>6, <1>7, <1>8, <1>9, StepCases DEF DaemonStep

\* The timer the daemon starts was not in Ran, and no running continuation is
\* in its conversation.
LEMMA StartingStep ==
    ASSUME Inductive, [Next]_vars
    PROVE  FiresAtMostOnce' /\ ContinuationsNeverOverlap'
  <1>0. /\ TypeOK /\ TurnsInv /\ LockInv /\ RunInv /\ BusyInv
        /\ FiresAtMostOnce /\ ContinuationsNeverOverlap
    BY DEF Inductive
  <1>1. CASE \A s \in TimerTurns : Kept(s)
    BY <1>0, <1>1 DEF Kept, Same, FiresAtMostOnce, ContinuationsNeverOverlap
  <1>2. ASSUME DaemonStart, NEW s \in TimerTurns, Started(s)
        PROVE  FiresAtMostOnce' /\ ContinuationsNeverOverlap'
    <2>1. /\ daemon.pc = "start" /\ Claimed
          /\ daemon.item \notin Ran
          /\ \A r \in TimerTurns : InFlight(r) => turn[r].conv # home[daemon.item]
      BY <1>0, <1>2 DEF DaemonStart, RunInv, BusyInv, Claimed, ClaimedPcs
    <2>2. \A r \in TimerTurns : turn[r].pc # "unused" => turn[r].timer # daemon.item
      BY <2>1, RanMembers
    <2>3. \A r \in TimerTurns : r # s => turn'[r] = turn[r]
      BY <1>2 DEF Started, Turns
    <2>4. FiresAtMostOnce'
      BY <1>0, <1>2, <2>2, <2>3 DEF FiresAtMostOnce, Started
    <2>5. ContinuationsNeverOverlap'
      BY <1>0, <1>2, <2>1, <2>3 DEF ContinuationsNeverOverlap, Started, InFlight
    <2> QED BY <2>4, <2>5
  <1> QED BY <1>0, <1>1, <1>2, RanMoves DEF Starts

LEMMA ResetStep ==
    ASSUME Inductive, [Next]_vars
    PROVE  ResetStopsContinuations'
  <1> USE DEF ResetStopsContinuations
  <1>0. TypeOK /\ TurnsInv /\ LockInv /\ ResetStopsContinuations
    BY DEF Inductive
  <1>t. turn \in [Turns -> TurnRecord] /\ op \in [Operators -> OpRecord]
    BY <1>0 DEF TypeOK
  <1>1. ASSUME DaemonStart, NEW s \in TimerTurns, Started(s)
        PROVE  ResetStopsContinuations'
    <2>1. daemon.item \in fresh /\ UNCHANGED <<fresh, op>>
      BY <1>0, <1>1 DEF DaemonStart, LockInv, Claimed, ClaimedPcs
    <2>2. \A r \in TimerTurns : r # s => turn'[r] = turn[r]
      BY <1>1 DEF Started, Turns
    <2> QED BY <1>0, <1>1, <2>1, <2>2 DEF Started, InFlight
  <1>2. CASE \A s \in TimerTurns : Kept(s)
    <2>0. \A s \in TimerTurns : InFlight(s)' =>
             /\ InFlight(s) /\ turn'[s].timer = turn[s].timer
             /\ turn[s].cancelled => turn'[s].cancelled
      BY <1>2 DEF Kept, Same
    <2>1. CASE /\ fresh \subseteq fresh'
               /\ \A o \in Operators : op[o].pc = "stop" => op'[o].pc = "stop"
      BY <1>0, <2>0, <2>1
    <2>2. CASE Plain \/ Withdrawn
      BY <2>1, <2>2 DEF Plain, Withdrawn
    <2>3. ASSUME NEW s \in Turns, TurnInsert(s)
          PROVE  ResetStopsContinuations'
      BY <1>0, <2>1, <2>3, InsertFrame DEF Inserted
    <2>4. CASE DaemonCheck \/ DaemonBusy \/ DaemonClaim \/ DaemonFault \/ Start
      BY <2>1, <2>4 DEF DaemonCheck, DaemonBusy, DaemonClaim, DaemonFault, Start, store
    <2>5. CASE DaemonEnabled \/ DaemonLife \/ DaemonStart \/ DaemonFinish
      BY <2>1, <2>5, ClaimedStepFrame
    <2>6. ASSUME NEW o \in Operators, ResetStore(o)
          PROVE  ResetStopsContinuations'
      <3>1. op'[o].pc = "stop"
        BY <1>t, <2>6 DEF ResetStore, OpRecord
      <3> QED BY <3>1
    <2>7. ASSUME NEW o \in Operators, ResetStop(o)
          PROVE  ResetStopsContinuations'
      <3>1. \A s \in TimerTurns : InFlight(s) =>
               ActiveContinuation(s) \/ turn[s].cancelled
        BY <1>0 DEF TurnsInv, ActiveContinuation, Registered, InFlight, ActivePcs
      <3>2. \A s \in TimerTurns :
               turn'[s].cancelled = (turn[s].cancelled \/ ActiveContinuation(s))
        BY <1>t, <2>7, ResetStopFrame DEF Turns
      <3> QED BY <2>0, <3>1, <3>2
    <2>8. CASE Crash
      <3>1. \A s \in TimerTurns : ~InFlight(s)'
        BY <1>t, <2>8, CrashFrame DEF Turns
      <3> QED BY <3>1
    <2> QED
      BY <1>0, <2>2, <2>3, <2>4, <2>5, <2>6, <2>7, <2>8, StepCases DEF DaemonStep
  <1> QED BY <1>0, <1>1, <1>2, RanMoves DEF Starts

-------------------------------------------------------------------------------
(* The theorems.                                                           *)

LEMMA InductiveInit == Init => Inductive
  <1> SUFFICES ASSUME Init PROVE Inductive
    OBVIOUS
  <1>1. TypeOK
    BY TypeInit
  <1>2. /\ \A s \in Turns : turn[s].pc = "unused"
        /\ TimerTurns \subseteq Turns
    BY DEF Init, UnusedTurn, Turns
  <1>3. Ran = {}
    BY <1>2 DEF Ran
  <1>4. /\ \A t \in Timers : status[t] = "absent"
        /\ daemon.pc = "wait" /\ up /\ enabled /\ sawEnabled
        /\ \A o \in Operators : op[o].pc = "idle"
    BY DEF Init, IdleDaemon, IdleOp
  <1>5. RowsInv /\ TurnsInv /\ LockInv /\ SettingInv /\ AtMostOnePending
    BY <1>2, <1>4 DEF RowsInv, TurnsInv, LockInv, Claimed, ClaimedPcs, SettingInv,
       AtMostOnePending, Pending
  <1>6. RunInv
    BY <1>3, <1>4 DEF RunInv, Claimed, ClaimedPcs
  <1>7. BusyInv /\ FiresAtMostOnce /\ ContinuationsNeverOverlap /\ ResetStopsContinuations
    BY <1>2, <1>4 DEF BusyInv, Claimed, ClaimedPcs, FiresAtMostOnce,
       ContinuationsNeverOverlap, ResetStopsContinuations, InFlight, ActivePcs
  <1> QED BY <1>1, <1>5, <1>6, <1>7 DEF Inductive

LEMMA InductiveStep == Inductive /\ [Next]_vars => Inductive'
  <1> SUFFICES ASSUME Inductive, [Next]_vars PROVE Inductive'
    OBVIOUS
  <1>1. TypeOK'
    BY TypeStep DEF Inductive
  <1> QED
    BY <1>1, RowsStep, TurnsStep, LockStep, RunStep, BusyStep, SettingStep,
       PendingStep, StartingStep, ResetStep
    DEF Inductive

\* Inductive holds in every reachable state, for every value of the constants.
THEOREM Invariance == Spec => []Inductive
  BY InductiveInit, InductiveStep, PTL DEF Spec

\* Every variable keeps its type: every row, turn, thread and lock holder is
\* one of the values the code gives it.
THEOREM TypeCorrect == Spec => []TypeOK
  <1>1. Inductive => TypeOK
    BY DEF Inductive
  <1> QED BY <1>1, Invariance, PTL

\* At most one timer is pending, however many turns schedule and replace.
THEOREM OnePending == Spec => []AtMostOnePending
  <1>1. Inductive => AtMostOnePending
    BY DEF Inductive
  <1> QED BY <1>1, Invariance, PTL

\* A timer starts at most one turn over all lives of the process.
THEOREM FiresOnce == Spec => []FiresAtMostOnce
  <1>1. Inductive => FiresAtMostOnce
    BY DEF Inductive
  <1> QED BY <1>1, Invariance, PTL

\* A row recorded as fired stands for a turn that started, one recorded as
\* cancelled for one that never did.
THEOREM RecordTrue == Spec => []RecordTellsTheTruth
  <1>1. Inductive => RecordTellsTheTruth
    BY DEF Inductive, RunInv, RecordTellsTheTruth
  <1> QED BY <1>1, Invariance, PTL

\* No two continuations of one conversation run at the same time.
THEOREM NoOverlap == Spec => []ContinuationsNeverOverlap
  <1>1. Inductive => ContinuationsNeverOverlap
    BY DEF Inductive
  <1> QED BY <1>1, Invariance, PTL

\* After a reset no continuation from before it runs without its stop signal.
THEOREM ResetStops == Spec => []ResetStopsContinuations
  <1>1. Inductive => ResetStopsContinuations
    BY DEF Inductive
  <1> QED BY <1>1, Invariance, PTL

\* The firing of a timer and a reset, or two resets, never run together.
THEOREM ControlExclusive == Spec => []ControlIsExclusive
  <1>1. Inductive => ControlIsExclusive
    BY OperatorsAssumption DEF Inductive, LockInv, Claimed, ControlIsExclusive
  <1> QED BY <1>1, Invariance, PTL

\* A continuation starts only if scheduling was on at some moment since its
\* timer was claimed.
THEOREM OffStops == Spec => OffStopsContinuations
  <1>1. Inductive /\ [Next]_vars => [StartsContinuation => sawEnabled]_vars
    <2> SUFFICES ASSUME Inductive, [Next]_vars, StartsContinuation
                 PROVE  sawEnabled
      OBVIOUS
    <2>1. \E s \in TimerTurns : ~Kept(s)
      BY DEF StartsContinuation, Kept
    <2>2. DaemonStart
      BY <2>1, RanMoves DEF Inductive
    <2> QED BY <2>2 DEF DaemonStart, Inductive, SettingInv
  <1> QED BY <1>1, Invariance, PTL DEF Spec, OffStopsContinuations

-------------------------------------------------------------------------------
(* The service implements the ledger.                                      *)

\* Each step of the service is a step of the ledger or leaves it alone.
LEMMA LedgerStep ==
    ASSUME Inductive, [Next]_vars
    PROVE  [Ledger!LedgerNext]_(Ledger!ledgerVars)
  <1> USE DEF Ledger!ledgerVars, Ledger!LedgerNext
  <1>0. TypeOK /\ TurnsInv /\ LockInv /\ RunInv
    BY DEF Inductive
  <1>t. status \in [Timers -> Status] /\ daemon \in DaemonRecord
    BY <1>0 DEF TypeOK
  <1>w. ASSUME status' = WithoutPending, Ran' = Ran
        PROVE  Ledger!Withdraw
    BY <1>w DEF Ledger!Withdraw, WithoutPending
  <1>1. CASE DaemonEnabled \/ DaemonLife \/ DaemonStart \/ DaemonFinish
    <2>0. /\ daemon.item \in Timers /\ status[daemon.item] = "firing"
          /\ daemon.item \in Ran <=> daemon.pc = "finish"
      BY <1>0, <1>1, ClaimedStepFrame DEF RunInv
    <2>1. CASE UNCHANGED turn
      <3>1. Ran' = Ran
        BY <2>1 DEF Ran
      <3>2. \/ UNCHANGED status
            \/ \E outcome \in {"cancelled", "failed", "fired"} :
                  /\ outcome = "fired" <=> daemon.pc = "finish"
                  /\ status' = [status EXCEPT ![daemon.item] = outcome]
        <4>1. \A outcome : Finish(daemon.item, outcome) =>
                              status' = [status EXCEPT ![daemon.item] = outcome]
          BY <1>t, <2>0 DEF Finish
        <4>2. CASE DaemonEnabled
          BY <4>1, <4>2 DEF DaemonEnabled
        <4>3. CASE DaemonLife
          BY <4>1, <4>3 DEF DaemonLife
        <4>4. CASE DaemonStart
          BY <1>0, <4>1, <4>4, DaemonStartFrame
        <4>5. CASE DaemonFinish
          BY <4>1, <4>5 DEF DaemonFinish
        <4> QED BY <1>1, <4>2, <4>3, <4>4, <4>5
      <3> QED BY <2>0, <3>1, <3>2 DEF Ledger!Settle, Ledger!Final
    <2>2. CASE ~UNCHANGED turn
      <3>1. /\ UNCHANGED status /\ daemon.pc = "start" /\ Starts
        BY <1>1, <2>2, ClaimedStepFrame
      <3>2. \E s \in TimerTurns : ~Kept(s)
        BY <3>1 DEF Starts, Started, Kept
      <3>3. Ran' = Ran \cup {daemon.item}
        BY <1>0, <3>2, RanMoves
      <3> QED BY <2>0, <3>1, <3>3 DEF Ledger!Run
    <2> QED BY <2>1, <2>2
  <1>2. CASE ~(DaemonEnabled \/ DaemonLife \/ DaemonStart \/ DaemonFinish)
    <2>0. Ran' = Ran
      BY <1>0, <1>2, RanMoves
    <2>1. CASE UNCHANGED status
      BY <2>0, <2>1
    <2>2. CASE Withdrawn
      BY <1>w, <2>0, <2>2 DEF Withdrawn
    <2>3. ASSUME NEW s \in Turns, TurnInsert(s), ~UNCHANGED status
          PROVE  Ledger!LedgerNext
      <3>1. PICK t \in Timers : Inserted(t)
        BY <1>0, <2>3, InsertFrame
      <3>2. status' = [x \in Timers |->
                         IF x = t THEN "pending"
                         ELSE IF status[x] = "pending" THEN "cancelled"
                         ELSE status[x]]
        BY <3>1 DEF Inserted, WithoutPending
      <3> QED BY <2>0, <3>1, <3>2 DEF Ledger!Enqueue, Inserted
    <2>4. CASE DaemonClaim
      <3>1. ASSUME NEW t \in Claimable, MarkFiring(t)
            PROVE  Ledger!LedgerNext
        BY <2>0, <3>1 DEF Claimable, Pending, MarkFiring, Ledger!Claim
      <3> QED BY <2>1, <2>4, <3>1 DEF DaemonClaim
    <2>5. ASSUME NEW o \in Operators, ResetStore(o)
          PROVE  Ledger!LedgerNext
      BY <1>w, <2>0, <2>5 DEF ResetStore
    <2>6. CASE Start
      BY <2>0, <2>6 DEF Start, OrphanOutcome, Ledger!Abandon
    <2>7. CASE \/ Plain \/ DaemonCheck \/ DaemonBusy \/ DaemonFault \/ Crash
               \/ \E o \in Operators : ResetStop(o)
      BY <2>1, <2>7 DEF Plain, DaemonCheck, DaemonBusy, DaemonFault, Crash,
         ResetStop, store
    <2> QED
      BY <1>0, <1>2, <2>1, <2>2, <2>3, <2>4, <2>5, <2>6, <2>7, StepCases DEF DaemonStep
  <1> QED BY <1>1, <1>2

\* Claims, crashes, resets and all, the rows of the reactivations table live
\* the life that TimerLedger allows.
THEOREM LedgerImplemented == Spec => ImplementsLedger
  <1>1. Init => Ledger!LedgerInit
    <2> SUFFICES ASSUME Init PROVE Ledger!LedgerInit
      OBVIOUS
    <2>1. Ran = {}
      BY DEF Init, Ran, UnusedTurn, Turns
    <2> QED BY <2>1 DEF Init, Ledger!LedgerInit
  <1>2. Inductive /\ [Next]_vars => [Ledger!LedgerNext]_(Ledger!ledgerVars)
    BY LedgerStep
  <1> QED BY <1>1, <1>2, Invariance, PTL DEF Spec, ImplementsLedger, Ledger!LedgerSpec

-------------------------------------------------------------------------------
(***************************************************************************)
(* The kill switch (module Lifecycle), for any times and extensions and    *)
(* any number of callers: what a save that no other raced with leaves,     *)
(* through every failure, and what holds if all only look and kill.        *)
(***************************************************************************)

LEMMA ParsedType ==
    ASSUME NEW c \in Contents
    PROVE  Parsed(c) \in Records
  BY TimesAssumption DEF Contents, Parsed, Records, NoExpiry

LEMMA JsonType ==
    ASSUME NEW r \in Records
    PROVE  Json(r) \in Contents /\ Parsed(Json(r)) = r /\ Json(r).text = "json"
  BY DEF Contents, Parsed, Json

LEMMA OverwriteType ==
    ASSUME NEW c \in Contents, NEW r \in Records, NEW d \in Overwrite(c, r)
    PROVE  d \in Contents
  BY JsonType DEF Overwrite, Torn, Contents

LEMMA IdleType ==
    /\ IdleThread \in ThreadRecord
    /\ \A a \in {"none", "alive", "dead", "error"} :
          /\ Answered(a) \in ThreadRecord
          /\ Answered(a).pc = "idle" /\ Answered(a).op = "status"
          /\ Answered(a).fd = "closed" /\ Answered(a).answer = a
  <1>1. [expires |-> NoExpiry, dead |-> FALSE] \in Records
    BY TimesAssumption DEF Records, NoExpiry
  <1>2. IdleThread \in ThreadRecord
    BY <1>1 DEF IdleThread, ThreadRecord, Pcs, Calls
  <1> QED BY <1>2 DEF Answered, IdleThread, ThreadRecord

LEMMA SavesFrame ==
    ASSUME thread \in [Threads -> ThreadRecord], NEW t \in Threads,
           NEW call \in Calls, NEW r \in Records, Saves(t, call, r)
    PROVE  /\ thread' \in [Threads -> ThreadRecord]
           /\ thread'[t].pc = "open" /\ thread'[t].op = call /\ thread'[t].data = r
           /\ thread'[t].fd = "closed" /\ thread'[t].answer = "none"
           /\ \A u \in Threads : u # t => thread'[u] = thread[u]
  <1>1. thread'[t] = [IdleThread EXCEPT !.pc = "open", !.op = call, !.data = r]
    BY DEF Saves
  <1>2. thread'[t] \in ThreadRecord
    BY <1>1, IdleType DEF ThreadRecord, Pcs
  <1> QED BY <1>1, <1>2 DEF Saves, IdleThread

\* Other saves under way keep all but whether they were raced.
SaveFrame(t, th) ==
    \A u \in Threads : u # t =>
       /\ th[u].pc = thread[u].pc /\ th[u].op = thread[u].op
       /\ th[u].data = thread[u].data /\ th[u].answer = thread[u].answer
       /\ Saving(u) => th[u].raced

LEMMA SaveGoesFrame ==
    ASSUME thread \in [Threads -> ThreadRecord], NEW t \in Threads,
           NEW r \in ThreadRecord
    PROVE  /\ SaveGoes(t, r) \in [Threads -> ThreadRecord]
           /\ SaveGoes(t, r)[t] = r
           /\ SaveFrame(t, SaveGoes(t, r))
  <1>1. SaveGoes(t, r)[t] = r
    BY DEF SaveGoes
  <1>2. ASSUME NEW u \in Threads, u # t
        PROVE  SaveGoes(t, r)[u] = [thread[u] EXCEPT !.raced = thread[u].raced \/ Saving(u)]
    BY <1>2 DEF SaveGoes
  <1>3. ASSUME NEW u \in Threads
        PROVE  (thread[u].raced \/ Saving(u)) \in BOOLEAN
    BY DEF ThreadRecord, Saving
  <1>4. ASSUME NEW u \in Threads, u # t
        PROVE  SaveGoes(t, r)[u] \in ThreadRecord
    BY <1>2, <1>3, <1>4 DEF ThreadRecord
  <1>5. SaveGoes(t, r) \in [Threads -> ThreadRecord]
    BY <1>1, <1>4 DEF SaveGoes
  <1>6. ASSUME NEW u \in Threads, u # t
        PROVE  /\ SaveGoes(t, r)[u].pc = thread[u].pc /\ SaveGoes(t, r)[u].op = thread[u].op
               /\ SaveGoes(t, r)[u].data = thread[u].data
               /\ SaveGoes(t, r)[u].answer = thread[u].answer
               /\ Saving(u) => SaveGoes(t, r)[u].raced
    <2>1. thread[u] \in ThreadRecord
      OBVIOUS
    <2>2. CASE Saving(u)
      <3>1. SaveGoes(t, r)[u] = [thread[u] EXCEPT !.raced = TRUE]
        BY <1>2, <1>6, <2>2
      <3> QED BY <2>1, <3>1 DEF ThreadRecord
    <2>3. CASE ~Saving(u)
      BY <1>2, <1>3, <1>6, <2>1, <2>3 DEF ThreadRecord
    <2> QED BY <2>2, <2>3
  <1>7. SaveFrame(t, SaveGoes(t, r))
    BY <1>6 DEF SaveFrame
  <1> QED BY <1>1, <1>5, <1>7

LEMMA OpenFrame ==
    ASSUME thread \in [Threads -> ThreadRecord], NEW t \in Threads, OpenTmp(t)
    PROVE  /\ thread' \in [Threads -> ThreadRecord]
           /\ thread'[t].pc = "write" /\ thread'[t].fd = "tmp"
           /\ thread'[t].op = thread[t].op /\ thread'[t].data = thread[t].data
           /\ thread'[t].answer = thread[t].answer /\ thread'[t].raced = thread[t].raced
           /\ SaveFrame(t, thread')
  <1> DEFINE r == [thread[t] EXCEPT !.pc = "write", !.fd = "tmp"]
  <1>1. /\ r \in ThreadRecord /\ r.pc = "write" /\ r.fd = "tmp"
        /\ r.op = thread[t].op /\ r.data = thread[t].data
        /\ r.answer = thread[t].answer /\ r.raced = thread[t].raced
    BY DEF ThreadRecord, Pcs
  <1>2. thread' = SaveGoes(t, r)
    BY DEF OpenTmp
  <1> HIDE DEF r
  <1> QED BY <1>1, <1>2, SaveGoesFrame

LEMMA WriteFrame ==
    ASSUME thread \in [Threads -> ThreadRecord], NEW t \in Threads, WriteTmp(t)
    PROVE  /\ thread' \in [Threads -> ThreadRecord]
           /\ thread'[t].pc = "rename" /\ thread'[t].fd = "closed"
           /\ thread'[t].op = thread[t].op /\ thread'[t].data = thread[t].data
           /\ thread'[t].answer = thread[t].answer /\ thread'[t].raced = thread[t].raced
           /\ SaveFrame(t, thread')
  <1> DEFINE r == [thread[t] EXCEPT !.pc = "rename", !.fd = "closed"]
  <1>1. /\ r \in ThreadRecord /\ r.pc = "rename" /\ r.fd = "closed"
        /\ r.op = thread[t].op /\ r.data = thread[t].data
        /\ r.answer = thread[t].answer /\ r.raced = thread[t].raced
    BY DEF ThreadRecord, Pcs
  <1>2. thread' = SaveGoes(t, r)
    BY DEF WriteTmp
  <1> HIDE DEF r
  <1> QED BY <1>1, <1>2, SaveGoesFrame

\* The renaming thread answers or looks again; the others also have the file
\* they hold open renamed.
LEMMA RenameFrame ==
    ASSUME thread \in [Threads -> ThreadRecord], NEW t \in Threads, Rename(t)
    PROVE  /\ thread' \in [Threads -> ThreadRecord]
           /\ thread'[t].pc \in {"idle", "look"} /\ thread'[t].op = "status"
           /\ thread'[t].answer \in {"dead", "none"}
           /\ thread'[t].pc = "look" => thread'[t].answer = "none"
           /\ thread'[t].answer = "dead" => thread[t].op = "status"
           /\ SaveFrame(t, thread')
  <1> DEFINE th == SaveGoes(t, AfterSave(t))
  <1>1. /\ AfterSave(t) \in ThreadRecord
        /\ AfterSave(t).pc \in {"idle", "look"} /\ AfterSave(t).op = "status"
        /\ AfterSave(t).answer \in {"dead", "none"}
        /\ AfterSave(t).pc = "look" => AfterSave(t).answer = "none"
        /\ AfterSave(t).answer = "dead" => thread[t].op = "status"
    <2>1. CASE thread[t].op = "status"
      BY <2>1, IdleType DEF AfterSave
    <2>2. CASE thread[t].op # "status"
      BY <2>2, IdleType DEF AfterSave, IdleThread, ThreadRecord, Pcs
    <2> QED BY <2>1, <2>2
  <1>2. th \in [Threads -> ThreadRecord] /\ th[t] = AfterSave(t) /\ SaveFrame(t, th)
    BY <1>1, SaveGoesFrame
  <1>3. thread' = [u \in Threads |-> [th[u] EXCEPT !.fd = RenamedFd(th[u].fd)]]
    BY DEF Rename
  <1> HIDE DEF th
  <1>4. ASSUME NEW u \in Threads
        PROVE  /\ thread'[u] \in ThreadRecord
               /\ thread'[u].pc = th[u].pc /\ thread'[u].op = th[u].op
               /\ thread'[u].data = th[u].data /\ thread'[u].answer = th[u].answer
               /\ thread'[u].raced = th[u].raced
    <2>1. thread'[u] = [th[u] EXCEPT !.fd = RenamedFd(th[u].fd)]
      BY <1>3
    <2>2. th[u] \in ThreadRecord
      BY <1>2
    <2>3. RenamedFd(th[u].fd) \in {"closed", "tmp", "file", "gone"}
      BY <2>2 DEF RenamedFd, ThreadRecord
    <2> QED BY <2>1, <2>2, <2>3 DEF ThreadRecord
  <1>5. thread' \in [Threads -> ThreadRecord]
    BY <1>3, <1>4
  <1> QED BY <1>1, <1>2, <1>4, <1>5 DEF SaveFrame

LEMMA MarkedType ==
    ASSUME NEW r \in Records
    PROVE  Marked(r) \in Records /\ Marked(r).dead /\ Marked(r).expires = r.expires
  BY DEF Marked, Records

LEMMA RenewedType ==
    ASSUME NEW call, NEW r \in Records, NEW d \in Extensions, now \in 1..MaxNow,
           Renewed(call, r, d).expires <= MaxExpiry
    PROVE  /\ Renewed(call, r, d) \in Records
           /\ Renewed(call, r, d).dead = r.dead
           /\ call = "extend" => Renewed(call, r, d).expires >= r.expires
  <1>1. d \in Nat /\ now \in Nat /\ r.expires \in Nat /\ MaxExpiry \in Nat
    BY TimesAssumption DEF Records
  <1>2. Renewed(call, r, d).expires =
           (IF call = "extend" THEN Later(r.expires, now) ELSE now) + d
    BY DEF Renewed, Records
  <1>3. Renewed(call, r, d).expires \in 0..MaxExpiry
    BY <1>1, <1>2 DEF Later
  <1> QED BY <1>1, <1>2, <1>3 DEF Renewed, Records, Later

LEMMA LifecycleTypeInit == LifecycleInit => LifecycleTypeOK
  <1> SUFFICES ASSUME LifecycleInit PROVE LifecycleTypeOK
    OBVIOUS
  <1>1. PICK e \in Extensions :
           1 + e <= MaxExpiry /\ file = Json([expires |-> 1 + e, dead |-> FALSE])
    BY DEF LifecycleInit
  <1>2. [expires |-> 1 + e, dead |-> FALSE] \in Records
    BY <1>1, TimesAssumption DEF Records
  <1>3. tmp \in Contents /\ now \in 1..MaxNow
    BY TimesAssumption DEF LifecycleInit, Absent, Contents
  <1> QED BY <1>1, <1>2, <1>3, JsonType, IdleType DEF LifecycleTypeOK, LifecycleInit

\* Every step keeps the types, for any number of callers of any kind.
LEMMA LifecycleTypeStep == LifecycleTypeOK /\ [LifecycleNext]_lifecycleVars => LifecycleTypeOK'
  <1> SUFFICES ASSUME LifecycleTypeOK, [LifecycleNext]_lifecycleVars PROVE LifecycleTypeOK'
    OBVIOUS
  <1> USE DEF LifecycleTypeOK
  <1>0. Parsed(file) \in Records
    BY ParsedType
  <1>1. ASSUME NEW t \in Threads, NEW call \in Ops, Call(t, call)
        PROVE  LifecycleTypeOK'
    <2>1. [IdleThread EXCEPT !.pc = IF call = "kill" THEN "load" ELSE "look",
                             !.op = call] \in ThreadRecord
      BY IdleType, OpsAssumption DEF ThreadRecord, Pcs
    <2> QED BY <1>1, <2>1 DEF Call
  <1>i. ASSUME NEW t \in Threads, Initialize(t)
        PROVE  LifecycleTypeOK'
    <2>1. PICK d \in Extensions :
             /\ now + d <= MaxExpiry
             /\ Saves(t, "init", [expires |-> now + d, dead |-> FALSE])
      BY <1>i DEF Initialize
    <2>2. [expires |-> now + d, dead |-> FALSE] \in Records
      BY <2>1, TimesAssumption DEF Records
    <2> QED BY <1>i, <2>1, <2>2, SavesFrame DEF Initialize, Calls
  <1>2. ASSUME NEW t \in Threads, LookExpired(t)
        PROVE  LifecycleTypeOK'
    BY <1>0, <1>2, MarkedType, SavesFrame DEF LookExpired, Calls
  <1>3. ASSUME NEW t \in Threads, Look(t)
        PROVE  LifecycleTypeOK'
    <2>1. CASE \E a \in {"alive", "dead"} : thread' = [thread EXCEPT ![t] = Answered(a)]
      BY <1>3, <2>1, IdleType DEF Look
    <2>2. CASE thread' = [thread EXCEPT ![t].pc = "load"]
      BY <1>3, <2>2 DEF Look, ThreadRecord, Pcs
    <2>3. ASSUME NEW d \in Extensions, now + d <= MaxExpiry,
                 Saves(t, "reinstall", [expires |-> now + d, dead |-> FALSE])
          PROVE  LifecycleTypeOK'
      <3>1. [expires |-> now + d, dead |-> FALSE] \in Records
        BY <2>3, TimesAssumption DEF Records
      <3> QED BY <1>3, <2>3, <3>1, SavesFrame DEF Look, Calls
    <2> QED BY <1>3, <2>1, <2>2, <2>3 DEF Look
  <1>4. ASSUME NEW t \in Threads, LoadRenew(t)
        PROVE  LifecycleTypeOK'
    <2>1. thread[t].op \in Calls
      BY DEF ThreadRecord
    <2> QED BY <1>0, <1>4, <2>1, RenewedType, SavesFrame DEF LoadRenew
  <1>5. ASSUME NEW t \in Threads, LoadKill(t)
        PROVE  LifecycleTypeOK'
    <2>1. CASE thread' = [thread EXCEPT ![t].pc = "look", ![t].op = "status"]
      BY <1>5, <2>1 DEF LoadKill, ThreadRecord, Pcs, Calls
    <2>2. CASE Saves(t, "kill", Marked(Parsed(file)))
      BY <1>0, <1>5, <2>2, MarkedType, SavesFrame DEF LoadKill, Calls
    <2> QED BY <1>5, <2>1, <2>2 DEF LoadKill
  <1>6. ASSUME NEW t \in Threads, OpenTmp(t)
        PROVE  LifecycleTypeOK'
    <2>1. Empty \in Contents
      BY DEF Empty, Contents
    <2>2. thread' \in [Threads -> ThreadRecord]
      BY <1>6, OpenFrame
    <2> QED BY <1>6, <2>1, <2>2 DEF OpenTmp
  <1>7. ASSUME NEW t \in Threads, WriteTmp(t)
        PROVE  LifecycleTypeOK'
    <2>1. thread[t].data \in Records
      BY DEF ThreadRecord
    <2>2. file' \in Contents /\ tmp' \in Contents
      BY <1>7, <2>1, OverwriteType DEF WriteTmp
    <2>3. thread' \in [Threads -> ThreadRecord]
      BY <1>7, WriteFrame
    <2> QED BY <1>7, <2>2, <2>3 DEF WriteTmp
  <1>8. ASSUME NEW t \in Threads, Rename(t)
        PROVE  LifecycleTypeOK'
    <2>1. thread' \in [Threads -> ThreadRecord]
      BY <1>8, RenameFrame
    <2> QED BY <1>8, <2>1 DEF Rename, Absent, Contents
  <1>9. ASSUME NEW t \in Threads, Fails(t)
        PROVE  LifecycleTypeOK'
    BY <1>9, IdleType DEF Fails
  <1>10. CASE Tick
    <2>1. now + 1 \in 1..MaxNow
      BY <1>10, TimesAssumption DEF Tick
    <2> QED BY <1>10, <2>1 DEF Tick
  <1>11. CASE UNCHANGED lifecycleVars
    BY <1>11 DEF lifecycleVars
  <1> QED
    BY <1>1, <1>i, <1>2, <1>3, <1>4, <1>5, <1>6, <1>7, <1>8, <1>9, <1>10, <1>11
    DEF LifecycleNext, Step

\* Every variable keeps its type.
THEOREM LifecycleTypes == LifecycleSpec => []LifecycleTypeOK
  BY LifecycleTypeInit, LifecycleTypeStep, PTL DEF LifecycleSpec

-------------------------------------------------------------------------------
(* Callers that only look or kill.                                         *)

LEMMA TombstoneInit ==
    ASSUME LifecycleInit
    PROVE  TombstoneInv
  <1>1. LifecycleTypeOK
    BY LifecycleTypeInit
  <1>2. tmp.text = "absent" /\ \A t \in Threads :
           thread[t].op = "status" /\ thread[t].pc = "idle"
    BY DEF LifecycleInit, Absent, IdleThread
  <1> QED BY <1>1, <1>2 DEF TombstoneInv, Saving

LEMMA TombstoneStep ==
    ASSUME Ops \subseteq {"status", "kill"}, TombstoneInv, [LifecycleNext]_lifecycleVars
    PROVE  /\ TombstoneInv'
           /\ [file' # file /\ file'.text = "json" => file'.data.dead]_lifecycleVars
  <1> DEFINE Written == file' # file /\ file'.text = "json" => file'.data.dead
  <1> SUFFICES TombstoneInv' /\ Written
    OBVIOUS
  <1> USE DEF TombstoneInv, Saving
  <1>0. LifecycleTypeOK /\ LifecycleTypeOK' /\ thread \in [Threads -> ThreadRecord]
    BY LifecycleTypeStep DEF LifecycleTypeOK
  <1>p. Parsed(file) \in Records
    BY <1>0, ParsedType DEF LifecycleTypeOK
  <1>1. ASSUME NEW t \in Threads, NEW call \in Ops, Call(t, call)
        PROVE  TombstoneInv' /\ Written
    <2>1. /\ thread'[t].op = call /\ thread'[t].pc \in {"load", "look"}
          /\ \A u \in Threads : u # t => thread'[u] = thread[u]
          /\ UNCHANGED <<file, tmp>>
      BY <1>0, <1>1 DEF Call, IdleThread
    <2> QED BY <1>0, <2>1
  <1>i. ASSUME NEW t \in Threads, Initialize(t)
        PROVE  FALSE
    BY <1>i DEF Initialize
  <1>2. ASSUME NEW t \in Threads, LookExpired(t)
        PROVE  TombstoneInv' /\ Written
    <2>1. /\ thread'[t].op = "status" /\ thread'[t].data.dead
          /\ \A u \in Threads : u # t => thread'[u] = thread[u]
          /\ UNCHANGED <<file, tmp>>
      BY <1>0, <1>p, <1>2, SavesFrame, MarkedType DEF LookExpired, Calls
    <2> QED BY <1>0, <2>1
  <1>3. ASSUME NEW t \in Threads, Look(t)
        PROVE  TombstoneInv' /\ Written
    <2>1. \E a \in {"alive", "dead"} : thread' = [thread EXCEPT ![t] = Answered(a)]
      BY <1>3 DEF Look
    <2>2. /\ thread'[t].op = "status" /\ thread'[t].pc = "idle"
          /\ \A u \in Threads : u # t => thread'[u] = thread[u]
          /\ UNCHANGED <<file, tmp>>
      BY <1>0, <1>3, <2>1, IdleType DEF Look
    <2> QED BY <1>0, <2>2
  <1>4. ASSUME NEW t \in Threads, LoadRenew(t)
        PROVE  FALSE
    BY <1>4 DEF LoadRenew
  <1>5. ASSUME NEW t \in Threads, LoadKill(t)
        PROVE  TombstoneInv' /\ Written
    <2>1. /\ thread'[t].op \in {"status", "kill"}
          /\ thread'[t].pc = "look" \/ thread'[t].data.dead
          /\ \A u \in Threads : u # t => thread'[u] = thread[u]
          /\ UNCHANGED <<file, tmp>>
      <3>1. CASE thread' = [thread EXCEPT ![t].pc = "look", ![t].op = "status"]
        BY <1>0, <1>5, <3>1 DEF LoadKill, ThreadRecord
      <3>2. CASE Saves(t, "kill", Marked(Parsed(file)))
        BY <1>0, <1>p, <1>5, <3>2, SavesFrame, MarkedType DEF LoadKill, Calls
      <3> QED BY <1>5, <3>1, <3>2 DEF LoadKill
    <2> QED BY <1>0, <2>1
  <1>6. ASSUME NEW t \in Threads, OpenTmp(t)
        PROVE  TombstoneInv' /\ Written
    <2>1. /\ tmp'.text = "empty" /\ UNCHANGED file /\ thread[t].pc = "open"
          /\ thread'[t].op = thread[t].op /\ thread'[t].data = thread[t].data
          /\ SaveFrame(t, thread')
      BY <1>0, <1>6, OpenFrame DEF OpenTmp, Empty
    <2> QED BY <1>0, <2>1 DEF SaveFrame
  <1>7. ASSUME NEW t \in Threads, WriteTmp(t)
        PROVE  TombstoneInv' /\ Written
    <2>1. thread[t].data.dead
      BY <1>7 DEF WriteTmp
    <2>2. \A c, d : d \in Overwrite(c, thread[t].data) =>
             (d.text = "json" => d.data.dead)
      BY <2>1 DEF Overwrite, Json, Torn
    <2>3. /\ tmp'.text = "json" => tmp'.data.dead
          /\ Written
      BY <1>7, <2>2 DEF WriteTmp
    <2> QED BY <1>0, <1>7, <2>1, <2>3, WriteFrame DEF SaveFrame
  <1>8. ASSUME NEW t \in Threads, Rename(t)
        PROVE  TombstoneInv' /\ Written
    BY <1>0, <1>8, RenameFrame DEF Rename, Absent, SaveFrame
  <1>9. ASSUME NEW t \in Threads, Fails(t)
        PROVE  TombstoneInv' /\ Written
    <2>1. /\ thread'[t].op = "status" /\ thread'[t].pc = "idle"
          /\ \A u \in Threads : u # t => thread'[u] = thread[u]
          /\ UNCHANGED <<file, tmp>>
      BY <1>0, <1>9, IdleType DEF Fails
    <2> QED BY <1>0, <2>1
  <1>10. CASE Tick \/ UNCHANGED lifecycleVars
    BY <1>0, <1>10 DEF Tick, lifecycleVars
  <1> QED
    BY <1>1, <1>i, <1>2, <1>3, <1>4, <1>5, <1>6, <1>7, <1>8, <1>9, <1>10
    DEF LifecycleNext, Step

\* However many threads look and kill at once, and share the temporary file,
\* what lands in the file is a tombstone or cannot be read.
THEOREM OnlyTombstonesWritten ==
    ASSUME Ops \subseteq {"status", "kill"}
    PROVE  LifecycleSpec => OnlyTombstones
  <1>1. LifecycleInit => TombstoneInv
    BY TombstoneInit
  <1>2. TombstoneInv /\ [LifecycleNext]_lifecycleVars => TombstoneInv'
    BY TombstoneStep
  <1>3. TombstoneInv /\ [LifecycleNext]_lifecycleVars
           => [file' # file /\ file'.text = "json" => file'.data.dead]_lifecycleVars
    BY TombstoneStep
  <1> QED BY <1>1, <1>2, <1>3, PTL DEF LifecycleSpec, OnlyTombstones

-------------------------------------------------------------------------------
(* Callers of every kind: what a save that was not raced leaves.           *)

LEMMA SavesInit ==
    ASSUME LifecycleInit
    PROVE  SavesInv
  <1>1. LifecycleTypeOK
    BY LifecycleTypeInit
  <1>2. \A t \in Threads : thread[t].pc = "idle"
    BY DEF LifecycleInit, IdleThread
  <1> QED
    BY <1>1, <1>2 DEF SavesInv, Saving

\* Thread t brings what it safely saved into the file.
Lands(t) == thread[t].pc = "rename" /\ file' = Json(thread[t].data) /\ SafeSave(t)

\* Only a safe save or a raced one touches the file, and a call that was not
\* raced answers "dead" of a file that says so.
Lawful ==
    /\ UNCHANGED file \/ \E t \in Threads : Saved(t) /\ (thread[t].raced \/ Lands(t))
    /\ \A t \in Threads : ~thread[t].raced =>
          /\ thread[t].pc = "rename" /\ thread'[t].pc # "rename" =>
                UNCHANGED file \/ Lands(t)
          /\ thread[t].pc # "idle" /\ thread'[t].answer = "dead" => ReadsDead(file')

LEMMA SavesStep ==
    ASSUME SavesInv, [LifecycleNext]_lifecycleVars
    PROVE  SavesInv' /\ Lawful
  <1>0. /\ LifecycleTypeOK /\ LifecycleTypeOK'
        /\ thread \in [Threads -> ThreadRecord] /\ thread' \in [Threads -> ThreadRecord]
        /\ Parsed(file) \in Records
    BY LifecycleTypeStep, ParsedType DEF SavesInv, LifecycleTypeOK
  <1>i. \A t \in Threads :
           /\ thread[t].pc \in {"open", "write", "rename"} /\ ~thread[t].raced => SafeSave(t)
           /\ thread[t].pc # "idle" => thread[t].answer = "none"
    BY DEF SavesInv, Saving
  \* A step of thread t that leaves both files and the other threads alone.
  <1>q. ASSUME NEW t \in Threads, UNCHANGED <<file, tmp>>,
               \A u \in Threads : u # t => thread'[u] = thread[u],
               thread'[t].pc \notin {"write", "rename"},
               thread'[t].pc = "open" => SafeSave(t)',
               thread'[t].pc # "idle" => thread'[t].answer = "none",
               thread'[t].answer = "dead" => ReadsDead(file)
        PROVE  SavesInv' /\ Lawful
    <2>1. ASSUME NEW u \in Threads, u # t, SafeSave(u)
          PROVE  SafeSave(u)'
      BY <1>q, <2>1 DEF SafeSave, ReadsDead
    <2>2. SavesInv'
      BY <1>0, <1>i, <1>q, <2>1 DEF SavesInv, Saving
    <2>3. Lawful
      BY <1>i, <1>q DEF Lawful, ReadsDead
    <2> QED BY <2>2, <2>3
  <1>1. ASSUME NEW t \in Threads, NEW call \in Ops, Call(t, call)
        PROVE  SavesInv' /\ Lawful
    <2>1. /\ thread'[t].pc \in {"load", "look"} /\ thread'[t].answer = "none"
          /\ UNCHANGED <<file, tmp>>
          /\ \A u \in Threads : u # t => thread'[u] = thread[u]
      BY <1>0, <1>1 DEF Call, IdleThread
    <2> QED BY <1>q, <2>1
  <1>r. ASSUME NEW t \in Threads, Initialize(t)
        PROVE  SavesInv' /\ Lawful
    <2>1. PICK d \in Extensions :
             /\ now + d <= MaxExpiry
             /\ Saves(t, "init", [expires |-> now + d, dead |-> FALSE])
      BY <1>r DEF Initialize
    <2>2. [expires |-> now + d, dead |-> FALSE] \in Records
      BY <1>0, <2>1, TimesAssumption DEF Records, LifecycleTypeOK
    <2>3. /\ thread'[t].pc = "open" /\ thread'[t].op = "init"
          /\ thread'[t].fd = "closed" /\ thread'[t].answer = "none"
          /\ \A u \in Threads : u # t => thread'[u] = thread[u]
      BY <1>0, <2>1, <2>2, SavesFrame DEF Calls
    <2> QED BY <1>q, <1>r, <2>3 DEF SafeSave, Initialize
  <1>2. ASSUME NEW t \in Threads, LookExpired(t)
        PROVE  SavesInv' /\ Lawful
    <2>1. /\ thread'[t].pc = "open" /\ thread'[t].op = "status"
          /\ thread'[t].data = Marked(Parsed(file))
          /\ thread'[t].fd = "closed" /\ thread'[t].answer = "none"
          /\ UNCHANGED <<file, tmp>>
          /\ \A u \in Threads : u # t => thread'[u] = thread[u]
      BY <1>0, <1>2, SavesFrame, MarkedType DEF LookExpired, Calls
    <2> QED BY <1>0, <1>q, <2>1, MarkedType DEF SafeSave
  <1>3. ASSUME NEW t \in Threads, Look(t)
        PROVE  SavesInv' /\ Lawful
    <2>0. thread[t].pc = "look" /\ UNCHANGED <<file, tmp>>
      BY <1>3 DEF Look
    <2>1. CASE thread' = [thread EXCEPT ![t] =
                            Answered(IF Parsed(file).dead THEN "dead" ELSE "alive")]
      <3>1. /\ thread'[t].pc = "idle"
            /\ thread'[t].answer = "dead" => Parsed(file).dead
            /\ \A u \in Threads : u # t => thread'[u] = thread[u]
        <4>1. thread'[t] \in {Answered("dead"), Answered("alive")}
          BY <1>0, <2>1
        <4>2. thread'[t].answer = "dead" => Parsed(file).dead
          BY <1>0, <2>1, IdleType
        <4>3. \A u \in Threads : u # t => thread'[u] = thread[u]
          BY <2>1
        <4> QED BY <4>1, <4>2, <4>3, IdleType
      <3> QED BY <1>q, <2>0, <3>1 DEF ReadsDead
    <2>2. CASE thread' = [thread EXCEPT ![t].pc = "load"]
      <3>1. /\ thread'[t].pc = "load" /\ thread'[t].answer = thread[t].answer
            /\ \A u \in Threads : u # t => thread'[u] = thread[u]
        BY <1>0, <2>2 DEF ThreadRecord
      <3> QED BY <1>i, <1>q, <2>0, <3>1
    <2>3. ASSUME NEW d \in Extensions, now + d <= MaxExpiry, ~Parsed(file).dead,
                 Saves(t, "reinstall", [expires |-> now + d, dead |-> FALSE])
          PROVE  SavesInv' /\ Lawful
      <3>1. [expires |-> now + d, dead |-> FALSE] \in Records
        BY <1>0, <2>3, TimesAssumption DEF Records, LifecycleTypeOK
      <3>2. /\ thread'[t].pc = "open" /\ thread'[t].op = "reinstall"
            /\ thread'[t].fd = "closed" /\ thread'[t].answer = "none"
            /\ \A u \in Threads : u # t => thread'[u] = thread[u]
        BY <1>0, <2>3, <3>1, SavesFrame DEF Calls
      <3> QED BY <1>q, <2>0, <2>3, <3>2 DEF SafeSave, ReadsDead
    <2> QED BY <1>3, <2>1, <2>2, <2>3 DEF Look, Configured
  <1>4. ASSUME NEW t \in Threads, LoadRenew(t)
        PROVE  SavesInv' /\ Lawful
    <2>1. PICK d \in Extensions :
             /\ Renewed(thread[t].op, Parsed(file), d).expires <= MaxExpiry
             /\ Saves(t, thread[t].op, Renewed(thread[t].op, Parsed(file), d))
      BY <1>4 DEF LoadRenew
    <2> DEFINE r == Renewed(thread[t].op, Parsed(file), d)
    <2>2. /\ r \in Records /\ r.dead = Parsed(file).dead
          /\ thread[t].op = "extend" => r.expires >= Parsed(file).expires
      BY <1>0, <2>1, RenewedType DEF LifecycleTypeOK
    <2>3. thread[t].op \in {"extend", "reset"} /\ UNCHANGED <<file, tmp>>
      BY <1>4 DEF LoadRenew
    <2> HIDE DEF r
    <2>4. /\ thread'[t].pc = "open" /\ thread'[t].op = thread[t].op
          /\ thread'[t].data = r
          /\ thread'[t].fd = "closed" /\ thread'[t].answer = "none"
          /\ \A u \in Threads : u # t => thread'[u] = thread[u]
      BY <1>0, <2>1, <2>2, <2>3, SavesFrame DEF Calls, r
    <2>5. SafeSave(t)'
      BY <2>2, <2>3, <2>4 DEF SafeSave, ReadsDead
    <2> QED BY <1>q, <2>3, <2>4, <2>5
  <1>5. ASSUME NEW t \in Threads, LoadKill(t)
        PROVE  SavesInv' /\ Lawful
    <2>0. thread[t].pc = "load" /\ UNCHANGED <<file, tmp>>
      BY <1>5 DEF LoadKill
    <2>1. CASE thread' = [thread EXCEPT ![t].pc = "look", ![t].op = "status"]
      <3>1. /\ thread'[t].pc = "look" /\ thread'[t].answer = thread[t].answer
            /\ \A u \in Threads : u # t => thread'[u] = thread[u]
        BY <1>0, <2>1 DEF ThreadRecord
      <3> QED BY <1>i, <1>q, <2>0, <3>1
    <2>2. CASE Saves(t, "kill", Marked(Parsed(file)))
      <3>1. /\ thread'[t].pc = "open" /\ thread'[t].op = "kill"
            /\ thread'[t].data = Marked(Parsed(file))
            /\ thread'[t].fd = "closed" /\ thread'[t].answer = "none"
            /\ \A u \in Threads : u # t => thread'[u] = thread[u]
        BY <1>0, <2>2, SavesFrame, MarkedType DEF Calls
      <3> QED BY <1>0, <1>q, <2>0, <3>1, MarkedType DEF SafeSave
    <2> QED BY <1>5, <2>1, <2>2 DEF LoadKill
  <1>6. ASSUME NEW t \in Threads, OpenTmp(t)
        PROVE  SavesInv' /\ Lawful
    <2>1. /\ tmp' = Empty /\ UNCHANGED file /\ thread[t].pc = "open"
          /\ thread'[t].pc = "write" /\ thread'[t].fd = "tmp"
          /\ thread'[t].op = thread[t].op /\ thread'[t].data = thread[t].data
          /\ thread'[t].answer = thread[t].answer /\ thread'[t].raced = thread[t].raced
          /\ SaveFrame(t, thread')
      BY <1>0, <1>6, OpenFrame DEF OpenTmp
    <2>2. ~thread[t].raced => SafeSave(t)'
      BY <1>i, <2>1 DEF SafeSave, ReadsDead
    <2>3. SavesInv'
      BY <1>0, <1>i, <2>1, <2>2 DEF SavesInv, Saving, SaveFrame
    <2>4. Lawful
      BY <1>i, <2>1 DEF Lawful, SaveFrame
    <2> QED BY <2>3, <2>4
  <1>7. ASSUME NEW t \in Threads, WriteTmp(t)
        PROVE  SavesInv' /\ Lawful
    <2>1. /\ thread[t].pc = "write" /\ thread'[t].pc = "rename" /\ thread'[t].fd = "closed"
          /\ thread'[t].op = thread[t].op /\ thread'[t].data = thread[t].data
          /\ thread'[t].answer = thread[t].answer /\ thread'[t].raced = thread[t].raced
          /\ SaveFrame(t, thread')
      BY <1>0, <1>7, WriteFrame DEF WriteTmp
    <2>2. ASSUME ~thread[t].raced
          PROVE  /\ tmp' = Json(thread[t].data) /\ UNCHANGED file
                 /\ SafeSave(t)'
      <3>1. SafeSave(t) /\ thread[t].fd = "tmp" /\ tmp = Empty
        BY <1>i, <2>1, <2>2 DEF SafeSave
      <3>2. tmp' = Json(thread[t].data) /\ UNCHANGED file
        BY <1>7, <3>1 DEF WriteTmp, Overwrite, Empty
      <3> QED BY <2>1, <3>1, <3>2 DEF SafeSave, ReadsDead
    <2>3. SavesInv'
      BY <1>0, <1>i, <2>1, <2>2 DEF SavesInv, Saving, SaveFrame
    <2>4. Lawful
      BY <1>i, <2>1, <2>2 DEF Lawful, SaveFrame, Saved
    <2> QED BY <2>3, <2>4
  <1>8. ASSUME NEW t \in Threads, Rename(t)
        PROVE  SavesInv' /\ Lawful
    <2>1. /\ thread[t].pc = "rename" /\ file' = tmp
          /\ thread'[t].pc \in {"idle", "look"}
          /\ thread'[t].pc = "look" => thread'[t].answer = "none"
          /\ thread'[t].answer = "dead" => thread[t].op = "status"
          /\ SaveFrame(t, thread')
      BY <1>0, <1>8, RenameFrame DEF Rename
    <2>2. ASSUME ~thread[t].raced
          PROVE  Lands(t) /\ (thread[t].op = "status" => ReadsDead(file'))
      <3>1. SafeSave(t) /\ tmp = Json(thread[t].data)
        BY <1>i, <2>1, <2>2 DEF SafeSave
      <3> QED BY <2>1, <3>1 DEF Lands, SafeSave, ReadsDead, Parsed, Json
    <2>3. SavesInv'
      BY <1>0, <1>i, <2>1 DEF SavesInv, Saving, SaveFrame
    <2>4. Lawful
      BY <1>i, <2>1, <2>2 DEF Lawful, SaveFrame, Saved
    <2> QED BY <2>3, <2>4
  <1>9. ASSUME NEW t \in Threads, Fails(t)
        PROVE  SavesInv' /\ Lawful
    <2>1. /\ thread'[t].pc = "idle" /\ thread'[t].answer = "error"
          /\ UNCHANGED <<file, tmp>>
          /\ \A u \in Threads : u # t => thread'[u] = thread[u]
      BY <1>0, <1>9, IdleType DEF Fails
    <2> QED BY <1>q, <2>1
  <1>10. CASE Tick \/ UNCHANGED lifecycleVars
    <2>1. UNCHANGED <<file, tmp, thread>>
      BY <1>10 DEF Tick, lifecycleVars
    <2>2. \A t \in Threads : SafeSave(t) => SafeSave(t)'
      BY <2>1 DEF SafeSave, ReadsDead
    <2> QED
      BY <1>0, <1>i, <2>1, <2>2 DEF SavesInv, Saving, Lawful
  <1> QED
    BY <1>1, <1>r, <1>2, <1>3, <1>4, <1>5, <1>6, <1>7, <1>8, <1>9, <1>10
    DEF LifecycleNext, Step

LEMMA SavesInvariance == LifecycleSpec => []SavesInv
  <1>1. LifecycleInit => SavesInv
    BY SavesInit
  <1>2. SavesInv /\ [LifecycleNext]_lifecycleVars => SavesInv'
    BY SavesStep
  <1> QED BY <1>1, <1>2, PTL DEF LifecycleSpec

\* Without an explicit initialize() a tombstone is lost only in a race: no
\* extension, reset, reinstall, failure or crash takes it away otherwise.
THEOREM TombstoneKept == LifecycleSpec => OnlyRacesRevive
  <1> DEFINE Revives == ReadsDead(file) /\ ~ReadsDead(file')
        => \E t \in Threads : Saved(t) /\ (thread[t].raced \/ thread[t].op = "init")
  <1>1. SavesInv /\ [LifecycleNext]_lifecycleVars => [Revives]_lifecycleVars
    <2> SUFFICES ASSUME SavesInv, [LifecycleNext]_lifecycleVars,
                        ReadsDead(file), ~ReadsDead(file')
                 PROVE  \E t \in Threads : Saved(t) /\ (thread[t].raced \/ thread[t].op = "init")
      OBVIOUS
    <2>1. ~UNCHANGED file
      OBVIOUS
    <2>2. PICK t \in Threads : Saved(t) /\ (thread[t].raced \/ Lands(t))
      BY <2>1, SavesStep DEF Lawful
    <2>3. Lands(t) => thread[t].op = "init"
      BY DEF Lands, SafeSave, ReadsDead, Parsed, Json
    <2> QED BY <2>2, <2>3
  <1> QED BY <1>1, SavesInvariance, PTL DEF LifecycleSpec, OnlyRacesRevive

\* ... nor makes the file unreadable,
THEOREM FileKeptWhole == LifecycleSpec => OnlyRacesTear
  <1> DEFINE Tears == file.text = "json" /\ file'.text # "json"
        => \E t \in Threads : Saved(t) /\ thread[t].raced
  <1>1. SavesInv /\ [LifecycleNext]_lifecycleVars => [Tears]_lifecycleVars
    <2> SUFFICES ASSUME SavesInv, [LifecycleNext]_lifecycleVars,
                        file.text = "json", file'.text # "json"
                 PROVE  \E t \in Threads : Saved(t) /\ thread[t].raced
      OBVIOUS
    <2>1. ~UNCHANGED file
      OBVIOUS
    <2>2. PICK t \in Threads : Saved(t) /\ (thread[t].raced \/ Lands(t))
      BY <2>1, SavesStep DEF Lawful
    <2>3. ~Lands(t)
      BY DEF Lands, Json
    <2> QED BY <2>2, <2>3
  <1> QED BY <1>1, SavesInvariance, PTL DEF LifecycleSpec, OnlyRacesTear

\* ... nor is answered "dead" before the file says so,
THEOREM AnswersAreTrue == LifecycleSpec => AnswerIsDurable
  <1> DEFINE Durable == \A t \in Threads :
          thread[t].pc # "idle" /\ thread'[t].answer = "dead" /\ ~thread[t].raced
          => ReadsDead(file')
  <1>1. SavesInv /\ [LifecycleNext]_lifecycleVars => [Durable]_lifecycleVars
    BY SavesStep DEF Lawful
  <1> QED BY <1>1, SavesInvariance, PTL DEF LifecycleSpec, AnswerIsDurable

\* ... and an extension that was not raced only ever adds time.
THEOREM ExtensionsAdd == LifecycleSpec => ExtensionNeverShortens
  <1> DEFINE Prolongs == \A t \in Threads :
          /\ thread[t].pc = "rename" /\ thread'[t].pc # "rename"
          /\ thread[t].op = "extend" /\ ~thread[t].raced
          => Parsed(file').expires >= Parsed(file).expires
  <1>1. SavesInv /\ [LifecycleNext]_lifecycleVars => [Prolongs]_lifecycleVars
    <2> SUFFICES ASSUME SavesInv, [LifecycleNext]_lifecycleVars, NEW t \in Threads,
                        thread[t].pc = "rename", thread'[t].pc # "rename",
                        thread[t].op = "extend", ~thread[t].raced
                 PROVE  Parsed(file').expires >= Parsed(file).expires
      OBVIOUS
    <2>1. Parsed(file).expires \in Nat
      BY ParsedType, TimesAssumption DEF SavesInv, LifecycleTypeOK, Records
    <2>2. CASE UNCHANGED file
      BY <2>1, <2>2
    <2>3. CASE Lands(t)
      BY <2>3 DEF Lands, SafeSave, Parsed, Json
    <2> QED BY <2>2, <2>3, SavesStep DEF Lawful
  <1> QED BY <1>1, SavesInvariance, PTL DEF LifecycleSpec, ExtensionNeverShortens
===============================================================================
