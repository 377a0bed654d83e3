--------------------------- MODULE Approvals_proofs ---------------------------
(***************************************************************************)
(* The approval gate, for any number of calls, turns, requests and         *)
(* restarts, whatever tool-call ids the provider makes up.                 *)
(*                                                                         *)
(* A place of the queue is the audit entry of the call that took it.  The  *)
(* key of a place points to it or to nothing; a tool-call id points to a   *)
(* place of that id, whose own key still points to it (QueueInv).  So what *)
(* a request finds, and what it later pops, is a call of the id it was     *)
(* shown (RequestInv).  A place in a request's hands has left the queue,   *)
(* is in no other request's hands and has had no outcome (PlaceInv), nor   *)
(* has one that still waits (FateInv): each place has one outcome at most. *)
(* A call that shares its id with no other is only ever answered in its    *)
(* own place, so that what happened to the call is what happened in the    *)
(* place (AloneInv).                                                       *)
(***************************************************************************)
EXTENDS Approvals, FiniteSetTheorems, TLAPS

InHands == {"deny", "dispatch"}

QueueInv ==
    /\ \A e \in Entries : queue[e] # Null => queue[e] = e /\ item[e] # Null
    /\ \A c \in CallIds : queue[c] # Null =>
          /\ item[queue[c]] # Null /\ item[queue[c]].call = c
          /\ queue[queue[c]] = queue[c]

RequestInv ==
    \A o \in Requests :
        /\ request[o].pc # "idle" =>
              /\ request[o].item \in Logged /\ request[o].shown \in Logged
              /\ item[request[o].item].call = item[request[o].shown].call
        /\ request[o].pc \in InHands =>
              /\ request[o].place \in Logged
              /\ item[request[o].place].call = item[request[o].item].call

PlaceInv ==
    \A o \in Requests : request[o].pc \in InHands =>
        /\ queue[request[o].place] = Null /\ fate[request[o].place] = "none"
        /\ \A p \in Requests :
              request[p].pc \in InHands /\ request[p].place = request[o].place => p = o

FateInv ==
    \A e \in Entries :
        /\ queue[e] # Null => fate[e] = "none"
        /\ item[e] = Null => fate[e] = "none" /\ ran[e] = 0 /\ Refused(e) \notin audit
        /\ fate[e] # "twice"

AloneInv ==
    \A e \in Entries : Alone(e) =>
        /\ ran[e] = IF fate[e] = "ran" THEN 1 ELSE 0
        /\ Refused(e) \in audit => fate[e] = "denied"

Core == QueueInv /\ RequestInv /\ PlaceInv /\ FateInv /\ AloneInv

IInv == TypeOK /\ Core

-------------------------------------------------------------------------------
LEMMA IdleType == IdleRequest \in RequestRecord
BY DEF IdleRequest, RequestRecord, Decisions

LEMMA InitInv == Init => IInv
<1> SUFFICES ASSUME Init PROVE IInv
  OBVIOUS
<1>1. TypeOK
  <2>1. queue \in [Keys -> Entries \cup {Null}] /\ item \in [Entries -> ItemRecord \cup {Null}]
    BY DEF Init
  <2>2. elevated \in [Turns -> 0..MaxElevated] /\ restarts \in 0..MaxRestarts
    BY SizesAssumption DEF Init
  <2>3. request \in [Requests -> RequestRecord]
    BY IdleType DEF Init
  <2>4. audit \subseteq AuditRows /\ ran \in [Entries -> Nat]
    BY DEF Init
  <2> QED BY <2>1, <2>2, <2>3, <2>4 DEF Init, TypeOK
<1>2. Core
  BY DEF Init, Core, QueueInv, RequestInv, PlaceInv, FateInv, AloneInv, Alone, Logged,
         InHands, IdleRequest, Keys
<1> QED BY <1>1, <1>2 DEF IInv

-------------------------------------------------------------------------------
(* What the steps do.                                                      *)

\* The rows of the audit log are told apart by call and by wording.
LEMMA RowsDiffer ==
  \A e, f : /\ Refused(e) # Approved(f) /\ Refused(e) # Unconfirmed(f)
            /\ Refused(e) = Refused(f) => e = f
BY DEF Refused, Approved, Unconfirmed

LEMMA RowsLogged ==
  \A e \in Entries : {Approved(e), Refused(e), Unconfirmed(e)} \subseteq AuditRows
BY DEF AuditRows

\* A request that is answered has nothing in its hands.
LEMMA AnsweredFacts ==
  ASSUME TypeOK, NEW o \in Requests, Answered(o)
  PROVE  /\ request' \in [Requests -> RequestRecord]
         /\ request'[o].pc = "idle"
         /\ \A p \in Requests : p # o => request'[p] = request[p]
BY IdleType DEF TypeOK, Answered, IdleRequest

\* A request finds a logged call of the id it names.
LEMMA AskFacts ==
  ASSUME TypeOK, QueueInv,
         NEW o \in Requests, NEW e \in Entries, NEW d \in Decisions, Ask(o, e, d)
  PROVE  /\ request' \in [Requests -> RequestRecord]
         /\ request[o].pc = "idle" /\ request'[o].pc = "found"
         /\ e \in Logged /\ request'[o].shown = e
         /\ request'[o].item \in Logged /\ item[request'[o].item].call = item[e].call
         /\ \A p \in Requests : p # o => request'[p] = request[p]
<1>1. PICK key \in {e, item[e].call} : \E found \in Found(key) :
         request' = [request EXCEPT ![o] =
                        [pc |-> "found", item |-> found, decision |-> d,
                         shown |-> e, place |-> Null, late |-> dead]]
  BY DEF Ask
<1>2. PICK found \in Found(key) :
         request' = [request EXCEPT ![o] =
                        [pc |-> "found", item |-> found, decision |-> d,
                         shown |-> e, place |-> Null, late |-> dead]]
  BY <1>1
<1>3. e \in Logged /\ item[e].call \in CallIds /\ key \in Keys /\ request[o].pc = "idle"
  BY <1>1 DEF Ask, Logged, TypeOK, ItemRecord, Keys
<1>4. found = queue[key] /\ found \in Entries
  BY <1>2, <1>3 DEF Found, TypeOK
<1>5. found # Null
  BY <1>2 DEF Found
<1>6. found \in Logged /\ item[found].call = item[e].call
  <2>1. CASE key = e
    BY <1>3, <1>4, <1>5, <2>1 DEF QueueInv, Logged
  <2>2. CASE key = item[e].call
    BY <1>3, <1>4, <1>5, <2>2 DEF QueueInv, Logged
  <2> QED BY <1>1, <2>1, <2>2
<1>7. [pc |-> "found", item |-> found, decision |-> d, shown |-> e, place |-> Null,
       late |-> dead] \in RequestRecord
  BY <1>4 DEF RequestRecord, TypeOK
<1> QED BY <1>2, <1>3, <1>6, <1>7 DEF TypeOK

\* What is popped is a waiting call of the id that was found.
LEMMA PoppedFacts ==
  ASSUME TypeOK, QueueInv, NEW e \in Logged, Popped(e) # Null
  PROVE  /\ Popped(e) \in Logged /\ queue[Popped(e)] = Popped(e)
         /\ item[Popped(e)].call = item[e].call
<1>1. e \in Entries /\ item[e].call \in CallIds /\ e \in Keys /\ item[e].call \in Keys
  BY DEF Logged, TypeOK, ItemRecord, Keys
<1>2. CASE queue[e] # Null
  BY <1>1, <1>2 DEF Popped, QueueInv, Logged
<1>3. CASE queue[e] = Null
  <2>1. Popped(e) = queue[item[e].call] /\ Popped(e) \in Entries
    BY <1>1, <1>3 DEF Popped, TypeOK
  <2> QED BY <1>1, <2>1 DEF QueueInv, Logged
<1> QED BY <1>2, <1>3

\* A request that pops nothing is answered; else it has the place in its hands.
LEMMA PopFacts ==
  ASSUME TypeOK, QueueInv, RequestInv, NEW o \in Requests, Pop(o)
  PROVE  /\ request[o].pc = "found" /\ UNCHANGED <<item, audit, observed, restarts>>
         /\ \/ UNCHANGED queue /\ Answered(o)
            \/ \E e \in Logged :
                  /\ queue[e] = e /\ item[e].call \in CallIds
                  /\ queue' = [queue EXCEPT ![e] = Null, ![item[e].call] = Null]
                  /\ item[request[o].item].call = item[e].call
                  /\ request' \in [Requests -> RequestRecord]
                  /\ request'[o].pc \in InHands /\ request'[o].place = e
                  /\ request'[o].item = request[o].item
                  /\ request'[o].shown = request[o].shown
                  /\ \A p \in Requests : p # o => request'[p] = request[p]
<1> DEFINE e == Popped(request[o].item)
<1>1. request[o].pc = "found" /\ UNCHANGED <<item, audit, observed, restarts>>
  BY DEF Pop
<1>2. request[o].item \in Logged
  BY <1>1 DEF RequestInv
<1>3. CASE e = Null
  BY <1>1, <1>3 DEF Pop
<1>4. CASE e # Null
  <2>1. e \in Logged /\ queue[e] = e /\ item[request[o].item].call = item[e].call
    BY <1>2, <1>4, PoppedFacts
  <2>2. e \in Entries /\ item[e].call \in CallIds
    BY <2>1 DEF Logged, TypeOK, ItemRecord
  <2>3. queue' = [queue EXCEPT ![e] = Null, ![item[e].call] = Null]
    BY <1>4 DEF Pop, Without
  <2>4. PICK pc \in InHands :
           request' = [request EXCEPT ![o].pc = pc, ![o].place = e]
    BY <1>4 DEF Pop, InHands
  <2>5. /\ request' \in [Requests -> RequestRecord]
        /\ request'[o].pc \in InHands /\ request'[o].place = e
        /\ request'[o].item = request[o].item
        /\ request'[o].shown = request[o].shown
        /\ \A p \in Requests : p # o => request'[p] = request[p]
    <3>1. request[o] \in RequestRecord
      BY DEF TypeOK
    <3>2. request'[o] = [request[o] EXCEPT !.pc = pc, !.place = e]
      BY <2>4 DEF TypeOK
    <3>3. request'[o] \in RequestRecord
      BY <2>2, <3>1, <3>2 DEF RequestRecord, InHands
    <3>4. /\ request'[o].pc = pc /\ request'[o].place = e
          /\ request'[o].item = request[o].item
          /\ request'[o].shown = request[o].shown
      BY <3>1, <3>2 DEF RequestRecord
    <3> QED BY <2>4, <3>3, <3>4 DEF TypeOK
  <2> QED BY <1>1, <2>1, <2>2, <2>3, <2>5
<1> QED BY <1>3, <1>4

LEMMA DispatchFacts ==
  ASSUME TypeOK, RequestInv, NEW o \in Requests, Dispatch(o)
  PROVE  /\ request[o].pc = "dispatch" /\ UNCHANGED <<queue, item, audit>>
         /\ request[o].item \in Logged /\ request[o].place \in Logged
         /\ item[request[o].place].call = item[request[o].item].call
         /\ ran' = [ran EXCEPT ![request[o].item] = @ + 1]
         /\ fate' = Settled(request[o].place, "ran")
         /\ request' \in [Requests -> RequestRecord]
         /\ request'[o].pc = "record" /\ request'[o].item = request[o].item
         /\ request'[o].shown = request[o].shown
         /\ \A p \in Requests : p # o => request'[p] = request[p]
<1>1. /\ request[o].pc = "dispatch" /\ UNCHANGED <<queue, item, audit>>
      /\ ran' = [ran EXCEPT ![request[o].item] = @ + 1]
      /\ fate' = Settled(request[o].place, "ran")
      /\ request' = [request EXCEPT ![o].pc = "record"]
  BY DEF Dispatch
<1>2. request[o] \in RequestRecord
  BY DEF TypeOK
<1>3. request'[o] = [request[o] EXCEPT !.pc = "record"]
  BY <1>1 DEF TypeOK
<1>4. /\ request'[o] \in RequestRecord
      /\ request'[o].pc = "record" /\ request'[o].item = request[o].item
      /\ request'[o].shown = request[o].shown
  BY <1>2, <1>3 DEF RequestRecord
<1>5. /\ request[o].item \in Logged /\ request[o].place \in Logged
      /\ item[request[o].place].call = item[request[o].item].call
  BY <1>1 DEF RequestInv, InHands
<1> QED BY <1>1, <1>4, <1>5 DEF TypeOK

\* The first outcome in a place is its fate.
LEMMA SettledFacts ==
  ASSUME TypeOK, NEW e \in Entries, NEW outcome \in {"ran", "denied"},
         fate[e] = "none", fate' = Settled(e, outcome)
  PROVE  /\ fate' \in [Entries -> {"none", "ran", "denied", "twice"}]
         /\ fate'[e] = outcome
         /\ \A f \in Entries : f # e => fate'[f] = fate[f]
BY DEF TypeOK, Settled

-------------------------------------------------------------------------------
(* The types, one step per action.                                         *)

LEMMA TypeStep == IInv /\ [Next]_vars => TypeOK'
<1> SUFFICES ASSUME TypeOK, QueueInv, RequestInv, PlaceInv, [Next]_vars PROVE TypeOK'
  BY DEF IInv, Core
<1>1. ASSUME NEW t \in Turns, StartTurn(t) \/ EndTurn(t) PROVE TypeOK'
  BY <1>1 DEF StartTurn, EndTurn, TypeOK, observed
<1>2. ASSUME NEW t \in Turns, NEW e \in Entries, NEW c \in CallIds, NEW k \in Classes,
             Log(t, e, c, k)
      PROVE  /\ item' \in [Entries -> ItemRecord \cup {Null}]
             /\ elevated' \in [Turns -> 0..MaxElevated]
  <2>1. item' \in [Entries -> ItemRecord \cup {Null}]
    BY <1>2 DEF Log, ItemRecord, TypeOK
  <2>2. elevated' \in [Turns -> 0..MaxElevated]
    BY <1>2, SizesAssumption DEF Log, Budgeted, TypeOK
  <2> QED BY <2>1, <2>2
<1>3. ASSUME NEW t \in Turns, NEW e \in Entries, NEW c \in CallIds, NEW k \in Classes,
             AutoCall(t, e, c, k)
      PROVE  TypeOK'
  <2>1. ran' \in [Entries -> Nat]
    BY <1>3 DEF AutoCall, TypeOK
  <2>2. fate' \in [Entries -> {"none", "ran", "denied", "twice"}]
    BY <1>3 DEF AutoCall, Settled, TypeOK
  <2> QED BY <1>2, <1>3, <2>1, <2>2 DEF AutoCall, TypeOK
<1>4. ASSUME NEW t \in Turns, NEW e \in Entries, NEW c \in CallIds, NEW k \in Classes,
             QueuedCall(t, e, c, k)
      PROVE  TypeOK'
  <2>1. queue' \in [Keys -> Entries \cup {Null}]
    BY <1>4 DEF QueuedCall, Enqueued, Keys, TypeOK
  <2> QED BY <1>2, <1>4, <2>1 DEF QueuedCall, TypeOK, observed
<1>5. ASSUME NEW o \in Requests, NEW e \in Entries, NEW d \in Decisions, Ask(o, e, d)
      PROVE  TypeOK'
  <2>1. request' \in [Requests -> RequestRecord]
    BY <1>5, AskFacts
  <2> QED BY <1>5, <2>1 DEF Ask, TypeOK, observed
<1>6. ASSUME NEW o \in Requests, AskPhrase(o) PROVE TypeOK'
  <2>1. request' \in [Requests -> RequestRecord]
    BY <1>6, AnsweredFacts DEF AskPhrase
  <2>2. request[o].item \in Entries
    BY <1>6 DEF AskPhrase, RequestInv, Logged
  <2>3. audit' \subseteq AuditRows
    BY <1>6, <2>2, RowsLogged DEF AskPhrase, TypeOK
  <2> QED BY <1>6, <2>1, <2>3 DEF AskPhrase, TypeOK, observed
<1>7. ASSUME NEW o \in Requests, Pop(o) PROVE TypeOK'
  <2>1. \A e : [queue EXCEPT ![e] = Null, ![item[e].call] = Null] \in [Keys -> Entries \cup {Null}]
    BY DEF TypeOK
  <2>2. queue' \in [Keys -> Entries \cup {Null}]
    BY <1>7, <2>1, PopFacts DEF TypeOK
  <2>3. request' \in [Requests -> RequestRecord]
    BY <1>7, PopFacts, AnsweredFacts
  <2> QED BY <1>7, <2>2, <2>3 DEF Pop, TypeOK, observed
<1>8. ASSUME NEW o \in Requests, Dispatch(o) PROVE TypeOK'
  <2>1. /\ request' \in [Requests -> RequestRecord]
        /\ request[o].item \in Entries /\ request[o].place \in Entries
    BY <1>8, DispatchFacts DEF Logged
  <2>2. ran' \in [Entries -> Nat]
    BY <1>8, <2>1 DEF Dispatch, TypeOK
  <2>3. fate' \in [Entries -> {"none", "ran", "denied", "twice"}]
    BY <1>8, <2>1 DEF Dispatch, Settled, TypeOK
  <2> QED BY <1>8, <2>1, <2>2, <2>3 DEF Dispatch, TypeOK
<1>9. ASSUME NEW o \in Requests, RecordRun(o) PROVE TypeOK'
  <2>1. request[o].item \in Entries
    BY <1>9 DEF RecordRun, RequestInv, Logged
  <2>2. request' \in [Requests -> RequestRecord]
    BY <1>9, AnsweredFacts DEF RecordRun
  <2>3. audit' \subseteq AuditRows
    BY <1>9, <2>1, RowsLogged DEF RecordRun, TypeOK
  <2> QED BY <1>9, <2>2, <2>3 DEF RecordRun, TypeOK, observed
<1>10. ASSUME NEW o \in Requests, RecordDenial(o) PROVE TypeOK'
  <2>1. request[o].item \in Entries
    BY <1>10 DEF RecordDenial, RequestInv, Logged
  <2>2. request' \in [Requests -> RequestRecord]
    BY <1>10, AnsweredFacts DEF RecordDenial
  <2>3. audit' \subseteq AuditRows
    BY <1>10, <2>1, RowsLogged DEF RecordDenial, TypeOK
  <2>4. fate' \in [Entries -> {"none", "ran", "denied", "twice"}]
    BY <1>10 DEF RecordDenial, Settled, TypeOK
  <2> QED BY <1>10, <2>2, <2>3, <2>4 DEF RecordDenial, TypeOK
<1>11. CASE Restart
  <2>1. request' \in [Requests -> RequestRecord]
    BY <1>11, IdleType DEF Restart
  <2>2. restarts' \in 0..MaxRestarts
    BY <1>11, SizesAssumption DEF Restart, TypeOK
  <2> QED BY <1>11, <2>1, <2>2 DEF Restart, TypeOK, observed
<1>12. CASE Die \/ UNCHANGED vars
  BY <1>12 DEF Die, vars, TypeOK, observed
<1>13. ASSUME NEW o \in Requests, NEW key \in Keys, AskUnknown(o, key) PROVE TypeOK'
  BY <1>13 DEF AskUnknown, vars, TypeOK, observed
<1> QED
  BY <1>1, <1>3, <1>4, <1>5, <1>6, <1>7, <1>8, <1>9, <1>10, <1>11, <1>12, <1>13
  DEF Next, RequestStep

-------------------------------------------------------------------------------
(* The rest of the invariant, one lemma per action.                        *)

\* What leaves the queue, the calls, the requests and the outcomes alone.
LEMMA FrameStep == Core /\ UNCHANGED <<queue, item, request, audit, observed>> => Core'
BY DEF Core, QueueInv, RequestInv, PlaceInv, FateInv, AloneInv, Alone, Logged, observed

\* Nothing waits in the place of a new call, or is in hands there.
LEMMA LogFacts ==
  ASSUME IInv, NEW t \in Turns, NEW e \in Entries, NEW c \in CallIds, NEW k \in Classes,
         Log(t, e, c, k)
  PROVE  /\ item[e] = Null /\ item'[e] # Null /\ item'[e].call = c
         /\ \A f \in Entries : f # e => item'[f] = item[f]
         /\ Logged' = Logged \cup {e} /\ e \notin Logged
         /\ \A f \in Logged : Alone(f)' => Alone(f)
         /\ queue[e] = Null /\ ran[e] = 0 /\ fate[e] = "none" /\ Refused(e) \notin audit
<1> USE DEF Log, IInv, Core
<1>1. item[e] = Null /\ item' = [item EXCEPT ![e] = [call |-> c, class |-> k, turn |-> t]]
  OBVIOUS
<1>2. item'[e] = [call |-> c, class |-> k, turn |-> t]
  BY <1>1 DEF TypeOK
<1>3. item'[e] \in ItemRecord
  BY <1>2 DEF ItemRecord
<1>4. item'[e] # Null
  BY <1>2, <1>3, ItemAssumption
<1>5. \A f \in Entries : f # e => item'[f] = item[f]
  BY <1>1 DEF TypeOK
<1>6. Logged' = Logged \cup {e} /\ e \notin Logged
  BY <1>1, <1>4, <1>5 DEF Logged
<1>7. \A f \in Logged : f # e /\ item'[f] = item[f]
  BY <1>5, <1>6 DEF Logged
<1>8. \A f \in Logged : Alone(f)' => Alone(f)
  BY <1>6, <1>7 DEF Alone
<1>9. queue[e] = Null
  BY <1>1 DEF QueueInv
<1> QED BY <1>1, <1>2, <1>4, <1>5, <1>6, <1>8, <1>9 DEF FateInv

\* Requests have only to do with calls that were logged.
LEMMA RequestsKeep ==
  ASSUME IInv, UNCHANGED request, Logged \subseteq Logged',
         \A f \in Logged : item'[f] = item[f]
  PROVE  RequestInv'
<1> USE DEF IInv, Core
<1> SUFFICES ASSUME NEW o \in Requests
             PROVE  /\ request[o].pc # "idle" =>
                         /\ request[o].item \in Logged' /\ request[o].shown \in Logged'
                         /\ item'[request[o].item].call = item'[request[o].shown].call
                    /\ request[o].pc \in InHands =>
                         /\ request[o].place \in Logged'
                         /\ item'[request[o].place].call = item'[request[o].item].call
  BY DEF RequestInv
<1>1. request[o].pc \in InHands => request[o].pc # "idle"
  BY DEF InHands
<1> QED BY <1>1 DEF RequestInv

LEMMA AutoCallStep ==
  ASSUME IInv, NEW t \in Turns, NEW e \in Entries, NEW c \in CallIds, NEW k \in Classes,
         AutoCall(t, e, c, k)
  PROVE  Core'
<1> USE DEF IInv, Core
<1>1. /\ item[e] = Null /\ item'[e] # Null
      /\ \A f \in Entries : f # e => item'[f] = item[f]
      /\ Logged' = Logged \cup {e} /\ e \notin Logged
      /\ \A f \in Logged : Alone(f)' => Alone(f)
      /\ queue[e] = Null /\ ran[e] = 0 /\ fate[e] = "none" /\ Refused(e) \notin audit
  BY LogFacts DEF AutoCall
<1>2. /\ UNCHANGED <<queue, request, audit>>
      /\ ran' = [ran EXCEPT ![e] = @ + 1] /\ fate' = Settled(e, "ran")
  BY DEF AutoCall
<1>3. /\ ran'[e] = 1 /\ \A f \in Entries : f # e => ran'[f] = ran[f]
  BY <1>1, <1>2 DEF TypeOK
<1>4. /\ fate'[e] = "ran" /\ \A f \in Entries : f # e => fate'[f] = fate[f]
  BY <1>1, <1>2, SettledFacts
<1>5. QueueInv'
  <2>1. \A f \in Entries : queue[f] # Null => item'[f] = item[f]
    BY <1>1
  <2>2. \A d \in CallIds : queue[d] # Null => queue[d] \in Entries /\ item'[queue[d]] = item[queue[d]]
    BY <1>1 DEF QueueInv, TypeOK, Keys
  <2> QED BY <1>2, <2>1, <2>2 DEF QueueInv
<1>6. RequestInv'
  BY <1>1, <1>2, RequestsKeep DEF Logged
<1>7. \A o \in Requests : request[o].pc \in InHands =>
         request[o].place \in Entries /\ request[o].place # e
  BY <1>1 DEF RequestInv, Logged
<1>8. PlaceInv'
  BY <1>2, <1>4, <1>7 DEF PlaceInv
<1>9. FateInv'
  <2> SUFFICES ASSUME NEW f \in Entries
               PROVE  /\ queue[f] # Null => fate'[f] = "none"
                      /\ item'[f] = Null =>
                            fate'[f] = "none" /\ ran'[f] = 0 /\ Refused(f) \notin audit
                      /\ fate'[f] # "twice"
    BY <1>2 DEF FateInv, Refused
  <2>1. CASE f = e
    BY <1>1, <1>4, <2>1
  <2>2. CASE f # e
    BY <1>1, <1>3, <1>4, <2>2 DEF FateInv
  <2> QED BY <2>1, <2>2
<1>10. AloneInv'
  <2> SUFFICES ASSUME NEW f \in Entries, Alone(f)'
               PROVE  /\ ran'[f] = IF fate'[f] = "ran" THEN 1 ELSE 0
                      /\ Refused(f) \in audit => fate'[f] = "denied"
    BY <1>2 DEF AloneInv, Refused
  <2>1. CASE f = e
    BY <1>1, <1>3, <1>4, <2>1
  <2>2. CASE f # e
    <3>1. Alone(f)
      BY <1>1, <2>2 DEF Alone
    <3> QED BY <1>3, <1>4, <2>2, <3>1 DEF AloneInv
  <2> QED BY <2>1, <2>2
<1> QED BY <1>5, <1>6, <1>8, <1>9, <1>10

LEMMA QueuedCallStep ==
  ASSUME IInv, NEW t \in Turns, NEW e \in Entries, NEW c \in CallIds, NEW k \in Classes,
         QueuedCall(t, e, c, k)
  PROVE  Core'
<1> USE DEF IInv, Core
<1>1. /\ item[e] = Null /\ item'[e] # Null /\ item'[e].call = c
      /\ \A f \in Entries : f # e => item'[f] = item[f]
      /\ Logged' = Logged \cup {e} /\ e \notin Logged
      /\ \A f \in Logged : Alone(f)' => Alone(f)
      /\ queue[e] = Null /\ ran[e] = 0 /\ fate[e] = "none" /\ Refused(e) \notin audit
  BY LogFacts DEF QueuedCall
<1>2. /\ UNCHANGED <<request, audit, ran, fate>>
      /\ queue' = [queue EXCEPT ![e] = e, ![c] = e]
  BY DEF QueuedCall, Enqueued, observed
<1>3. /\ queue'[e] = e /\ queue'[c] = e
      /\ \A key \in Keys : key # e /\ key # c => queue'[key] = queue[key]
  BY <1>2, IdsAssumption DEF TypeOK, Keys
<1>4. QueueInv'
  <2>1. ASSUME NEW f \in Entries, queue'[f] # Null
        PROVE  queue'[f] = f /\ item'[f] # Null
    <3>1. CASE f = e
      BY <1>1, <1>3, <3>1
    <3>2. CASE f # e
      <4>1. queue'[f] = queue[f]
        BY <1>3, <3>2, IdsAssumption DEF Keys
      <4> QED BY <1>1, <2>1, <3>2, <4>1 DEF QueueInv
    <3> QED BY <3>1, <3>2
  <2>2. ASSUME NEW d \in CallIds, queue'[d] # Null, d # c
        PROVE  /\ item'[queue'[d]] # Null /\ item'[queue'[d]].call = d
               /\ queue'[queue'[d]] = queue'[d]
    <3>1. queue'[d] = queue[d] /\ queue[d] \in Entries
      BY <1>3, <2>2, IdsAssumption DEF Keys, TypeOK
    <3>2. item[queue[d]] # Null /\ item[queue[d]].call = d /\ queue[queue[d]] = queue[d]
      BY <2>2, <3>1 DEF QueueInv
    <3>3. queue[d] # e /\ queue[d] # c
      BY <1>1, <3>1, <3>2, IdsAssumption
    <3> QED BY <1>1, <1>3, <3>1, <3>2, <3>3 DEF Keys
  <2> QED BY <1>1, <1>3, <2>1, <2>2 DEF QueueInv
<1>5. RequestInv'
  BY <1>1, <1>2, RequestsKeep DEF Logged
<1>6. \A o \in Requests : request[o].pc \in InHands =>
         /\ request[o].place \in Entries
         /\ queue'[request[o].place] = queue[request[o].place]
  BY <1>1, <1>3, IdsAssumption DEF RequestInv, Logged, Keys
<1>7. PlaceInv'
  BY <1>2, <1>6 DEF PlaceInv
<1>8. FateInv'
  <2>1. \A f \in Entries : f # e => queue'[f] = queue[f] /\ item'[f] = item[f]
    BY <1>1, <1>3, IdsAssumption DEF Keys
  <2> QED BY <1>1, <1>2, <2>1 DEF FateInv, Refused
<1>9. AloneInv'
  <2> SUFFICES ASSUME NEW f \in Entries, Alone(f)'
               PROVE  /\ ran[f] = IF fate[f] = "ran" THEN 1 ELSE 0
                      /\ Refused(f) \in audit => fate[f] = "denied"
    BY <1>2 DEF AloneInv, Refused
  <2>1. CASE f = e
    BY <1>1, <2>1
  <2>2. CASE f # e
    <3>1. Alone(f)
      BY <1>1, <2>2 DEF Alone
    <3> QED BY <3>1 DEF AloneInv
  <2> QED BY <2>1, <2>2
<1> QED BY <1>4, <1>5, <1>7, <1>8, <1>9

\* A step of a request that puts nothing into its hands and records no denial.
LEMMA MovesOn ==
  ASSUME IInv, NEW o \in Requests, UNCHANGED <<queue, item, observed>>,
         \A e \in Entries : Refused(e) \in audit' => Refused(e) \in audit,
         request'[o].pc \notin InHands,
         request'[o].pc # "idle" =>
            /\ request'[o].item \in Logged /\ request'[o].shown \in Logged
            /\ item[request'[o].item].call = item[request'[o].shown].call,
         \A p \in Requests : p # o => request'[p] = request[p]
  PROVE  Core'
<1> USE DEF IInv, Core
<1>1. QueueInv' /\ RequestInv'
  BY DEF QueueInv, RequestInv, Logged
<1>2. PlaceInv'
  BY DEF PlaceInv, observed
<1>3. FateInv' /\ AloneInv'
  BY DEF FateInv, AloneInv, Alone, Logged, observed, Refused
<1> QED BY <1>1, <1>2, <1>3

LEMMA AskStep ==
  ASSUME IInv, NEW o \in Requests, NEW e \in Entries, NEW d \in Decisions, Ask(o, e, d)
  PROVE  Core'
<1>1. UNCHANGED <<queue, item, observed, audit>>
  BY DEF Ask
<1> QED BY <1>1, AskFacts, MovesOn DEF IInv, Core, InHands

LEMMA AskPhraseStep ==
  ASSUME IInv, NEW o \in Requests, AskPhrase(o)
  PROVE  Core'
<1>1. UNCHANGED <<queue, item, observed>> /\ Answered(o)
  BY DEF AskPhrase
<1>2. \A e \in Entries : Refused(e) \in audit' => Refused(e) \in audit
  BY RowsDiffer DEF AskPhrase
<1> QED BY <1>1, <1>2, AnsweredFacts, MovesOn DEF IInv, InHands

LEMMA RecordRunStep ==
  ASSUME IInv, NEW o \in Requests, RecordRun(o)
  PROVE  Core'
<1>1. UNCHANGED <<queue, item, observed>> /\ Answered(o)
  BY DEF RecordRun
<1>2. \A e \in Entries : Refused(e) \in audit' => Refused(e) \in audit
  BY RowsDiffer DEF RecordRun
<1> QED BY <1>1, <1>2, AnsweredFacts, MovesOn DEF IInv, InHands

LEMMA PopStep ==
  ASSUME IInv, NEW o \in Requests, Pop(o)
  PROVE  Core'
<1> USE DEF IInv, Core
<1>1. request[o].pc = "found" /\ UNCHANGED <<item, audit, observed>>
  BY PopFacts
<1>2. CASE UNCHANGED queue /\ Answered(o)
  BY <1>1, <1>2, AnsweredFacts, MovesOn DEF InHands
<1>3. CASE ~(UNCHANGED queue /\ Answered(o))
  <2>1. PICK e \in Logged :
           /\ queue[e] = e /\ item[e].call \in CallIds
           /\ queue' = [queue EXCEPT ![e] = Null, ![item[e].call] = Null]
           /\ item[request[o].item].call = item[e].call
           /\ request'[o].pc \in InHands /\ request'[o].place = e
           /\ request'[o].item = request[o].item
           /\ request'[o].shown = request[o].shown
           /\ \A p \in Requests : p # o => request'[p] = request[p]
    BY <1>3, PopFacts
  <2> DEFINE c == item[e].call
  <2>2. e \in Entries /\ e # Null
    BY IdsAssumption DEF Logged
  <2>3. /\ queue'[e] = Null /\ queue'[c] = Null
        /\ \A key \in Keys : key # e /\ key # c => queue'[key] = queue[key]
    BY <2>1, <2>2, IdsAssumption DEF TypeOK, Keys
  <2>4. \A f \in Entries : f # e => queue'[f] = queue[f]
    BY <2>1, <2>3, IdsAssumption DEF Keys
  <2>5. QueueInv'
    <3>1. ASSUME NEW f \in Entries, queue'[f] # Null
          PROVE  queue'[f] = f /\ item[f] # Null
      BY <2>3, <2>4, <3>1 DEF QueueInv
    <3>2. ASSUME NEW d \in CallIds, queue'[d] # Null
          PROVE  item[queue'[d]] # Null /\ item[queue'[d]].call = d /\ queue'[queue'[d]] = queue'[d]
      <4>1. d # c /\ queue'[d] = queue[d] /\ queue[d] \in Entries
        BY <2>1, <2>2, <2>3, <3>2, IdsAssumption DEF Keys, TypeOK
      <4>2. item[queue[d]] # Null /\ item[queue[d]].call = d /\ queue[queue[d]] = queue[d]
        BY <3>2, <4>1 DEF QueueInv
      <4>3. queue[d] # e
        BY <4>1, <4>2
      <4> QED BY <2>4, <4>1, <4>2, <4>3
    <3> QED BY <1>1, <3>1, <3>2 DEF QueueInv
  <2>6. RequestInv'
    BY <1>1, <2>1 DEF RequestInv, Logged
  <2>7. fate[e] = "none" /\ \A p \in Requests :
           request[p].pc \in InHands => request[p].place \in Entries /\ request[p].place # e
    BY <2>1, <2>2 DEF FateInv, PlaceInv, RequestInv, Logged
  <2>8. PlaceInv'
    <3>1. \A p \in Requests : p # o /\ request'[p].pc \in InHands =>
             /\ request'[p] = request[p] /\ request[p].place # e
             /\ queue'[request[p].place] = queue[request[p].place]
      BY <2>1, <2>4, <2>7
    <3>2. \A p \in Requests : p # o /\ request'[p].pc \in InHands =>
             queue'[request[p].place] = Null /\ fate'[request[p].place] = "none"
      BY <1>1, <3>1 DEF PlaceInv, observed
    <3>3. queue'[e] = Null /\ fate'[e] = "none"
      BY <1>1, <2>3, <2>7 DEF observed
    <3>4. ASSUME NEW p \in Requests, NEW q \in Requests,
                 request'[p].pc \in InHands, request'[q].pc \in InHands,
                 request'[p].place = request'[q].place
          PROVE  p = q
      BY <2>1, <3>1, <3>4 DEF PlaceInv
    <3>5. \A p \in Requests : request'[p].pc \in InHands =>
             queue'[request'[p].place] = Null /\ fate'[request'[p].place] = "none"
      BY <2>1, <3>1, <3>2, <3>3
    <3> QED BY <3>4, <3>5 DEF PlaceInv
  <2>9. FateInv' /\ AloneInv'
    BY <1>1, <2>2, <2>3, <2>4 DEF FateInv, AloneInv, Alone, Logged, observed, Refused
  <2> QED BY <2>5, <2>6, <2>8, <2>9
<1> QED BY <1>2, <1>3

LEMMA DispatchStep ==
  ASSUME IInv, NEW o \in Requests, Dispatch(o)
  PROVE  Core'
<1> USE DEF IInv, Core
<1> DEFINE i == request[o].item
           e == request[o].place
<1>1. /\ request[o].pc = "dispatch" /\ UNCHANGED <<queue, item, audit>>
      /\ i \in Logged /\ e \in Logged /\ item[e].call = item[i].call
      /\ ran' = [ran EXCEPT ![i] = @ + 1] /\ fate' = Settled(e, "ran")
      /\ request'[o].pc = "record" /\ request'[o].item = i
      /\ request'[o].shown = request[o].shown
      /\ \A p \in Requests : p # o => request'[p] = request[p]
  BY DispatchFacts
<1>2. i \in Entries /\ e \in Entries
  BY <1>1 DEF Logged
<1>3. /\ queue[e] = Null /\ fate[e] = "none"
      /\ \A p \in Requests : p # o /\ request[p].pc \in InHands => request[p].place # e
  BY <1>1 DEF PlaceInv, InHands
<1>4. fate'[e] = "ran" /\ \A f \in Entries : f # e => fate'[f] = fate[f]
  BY <1>1, <1>2, <1>3, SettledFacts
<1>5. ran'[i] = ran[i] + 1 /\ \A f \in Entries : f # i => ran'[f] = ran[f]
  BY <1>1, <1>2 DEF TypeOK
<1>6. QueueInv' /\ RequestInv'
  BY <1>1 DEF QueueInv, RequestInv, Logged, InHands
<1>7. PlaceInv'
  <2>1. \A p \in Requests : request[p].pc \in InHands => request[p].place \in Entries
    BY DEF RequestInv, Logged
  <2> QED BY <1>1, <1>3, <1>4, <2>1 DEF PlaceInv, InHands
<1>8. FateInv'
  <2> SUFFICES ASSUME NEW f \in Entries
               PROVE  /\ queue[f] # Null => fate'[f] = "none"
                      /\ item[f] = Null =>
                            fate'[f] = "none" /\ ran'[f] = 0 /\ Refused(f) \notin audit
                      /\ fate'[f] # "twice"
    BY <1>1 DEF FateInv, Refused
  <2>1. item[f] = Null => f # e /\ f # i
    BY <1>1 DEF Logged
  <2>2. CASE f = e
    BY <1>3, <1>4, <2>1, <2>2
  <2>3. CASE f # e
    BY <1>4, <1>5, <2>1, <2>3 DEF FateInv
  <2> QED BY <2>2, <2>3
<1>9. AloneInv'
  <2> SUFFICES ASSUME NEW f \in Entries, Alone(f)
               PROVE  /\ ran'[f] = IF fate'[f] = "ran" THEN 1 ELSE 0
                      /\ Refused(f) \in audit => fate'[f] = "denied"
    BY <1>1 DEF AloneInv, Refused, Alone, Logged
  <2>1. /\ ran[f] = IF fate[f] = "ran" THEN 1 ELSE 0
        /\ Refused(f) \in audit => fate[f] = "denied"
    BY DEF AloneInv
  <2>2. f = e <=> f = i
    BY <1>1 DEF Alone
  <2>3. CASE f = e
    BY <1>3, <1>4, <1>5, <2>1, <2>2, <2>3
  <2>4. CASE f # e
    BY <1>4, <1>5, <2>1, <2>2, <2>4
  <2> QED BY <2>3, <2>4
<1> QED BY <1>6, <1>7, <1>8, <1>9

LEMMA RecordDenialStep ==
  ASSUME IInv, NEW o \in Requests, RecordDenial(o)
  PROVE  Core'
<1> USE DEF IInv, Core
<1> DEFINE i == request[o].item
           e == request[o].place
<1>1. /\ request[o].pc = "deny" /\ UNCHANGED <<queue, item, ran>>
      /\ audit' = audit \cup {Refused(i)} /\ fate' = Settled(e, "denied")
      /\ request'[o].pc = "idle"
      /\ \A p \in Requests : p # o => request'[p] = request[p]
  BY AnsweredFacts DEF RecordDenial
<1>2. i \in Logged /\ e \in Logged /\ item[e].call = item[i].call
  BY <1>1 DEF RequestInv, InHands
<1>3. i \in Entries /\ e \in Entries
  BY <1>2 DEF Logged
<1>4. /\ queue[e] = Null /\ fate[e] = "none"
      /\ \A p \in Requests : p # o /\ request[p].pc \in InHands => request[p].place # e
  BY <1>1 DEF PlaceInv, InHands
<1>5. fate'[e] = "denied" /\ \A f \in Entries : f # e => fate'[f] = fate[f]
  BY <1>1, <1>3, <1>4, SettledFacts
<1>6. \A f \in Entries : f # i => (Refused(f) \in audit' <=> Refused(f) \in audit)
  BY <1>1, RowsDiffer
<1>7. QueueInv' /\ RequestInv'
  BY <1>1 DEF QueueInv, RequestInv, Logged, InHands
<1>8. PlaceInv'
  <2>1. \A p \in Requests : request[p].pc \in InHands => request[p].place \in Entries
    BY DEF RequestInv, Logged
  <2> QED BY <1>1, <1>4, <1>5, <2>1 DEF PlaceInv, InHands
<1>9. FateInv'
  <2> SUFFICES ASSUME NEW f \in Entries
               PROVE  /\ queue[f] # Null => fate'[f] = "none"
                      /\ item[f] = Null =>
                            fate'[f] = "none" /\ ran[f] = 0 /\ Refused(f) \notin audit'
                      /\ fate'[f] # "twice"
    BY <1>1 DEF FateInv, Refused
  <2>1. item[f] = Null => f # e /\ f # i
    BY <1>2 DEF Logged
  <2>2. CASE f = e
    BY <1>4, <1>5, <2>1, <2>2
  <2>3. CASE f # e
    BY <1>5, <1>6, <2>1, <2>3 DEF FateInv
  <2> QED BY <2>2, <2>3
<1>10. AloneInv'
  <2> SUFFICES ASSUME NEW f \in Entries, Alone(f)
               PROVE  /\ ran[f] = IF fate'[f] = "ran" THEN 1 ELSE 0
                      /\ Refused(f) \in audit' => fate'[f] = "denied"
    BY <1>1 DEF AloneInv, Refused, Alone, Logged
  <2>1. /\ ran[f] = IF fate[f] = "ran" THEN 1 ELSE 0
        /\ Refused(f) \in audit => fate[f] = "denied"
    BY DEF AloneInv
  <2>2. f = e <=> f = i
    BY <1>2 DEF Alone
  <2>3. CASE f = e
    BY <1>4, <1>5, <2>1, <2>3
  <2>4. CASE f # e
    BY <1>5, <1>6, <2>1, <2>2, <2>4
  <2> QED BY <2>3, <2>4
<1> QED BY <1>7, <1>8, <1>9, <1>10

LEMMA RestartStep == IInv /\ Restart => Core'
<1> SUFFICES ASSUME IInv, Restart PROVE Core'
  OBVIOUS
<1> USE DEF IInv, Core
<1>1. /\ UNCHANGED <<item, audit, observed>>
      /\ \A key \in Keys : queue'[key] = Null
      /\ \A o \in Requests : request'[o].pc = "idle"
  BY DEF Restart, IdleRequest
<1>2. (QueueInv /\ RequestInv /\ PlaceInv)'
  BY <1>1 DEF QueueInv, RequestInv, PlaceInv, InHands, Keys
<1>3. (FateInv /\ AloneInv)'
  BY <1>1 DEF FateInv, AloneInv, Alone, Logged, observed, Refused, Keys
<1> QED BY <1>2, <1>3

-------------------------------------------------------------------------------
(* The invariant of the gate, whatever ids the provider makes up: types, and *)
(* that every place of the queue is in one request's hands at most and has   *)
(* one outcome at most.                                                      *)
THEOREM Invariance == Spec => []IInv
<1>1. Init => IInv
  BY InitInv
<1>2. IInv /\ [Next]_vars => IInv'
  <2> SUFFICES ASSUME IInv, [Next]_vars PROVE Core'
    BY TypeStep DEF IInv
  <2>1. ASSUME NEW t \in Turns, StartTurn(t) \/ EndTurn(t) PROVE Core'
    BY <2>1, FrameStep DEF IInv, StartTurn, EndTurn
  <2>2. ASSUME NEW o \in Requests, NEW key \in Keys, AskUnknown(o, key) PROVE Core'
    BY <2>2, FrameStep DEF IInv, AskUnknown, vars
  <2>3. ASSUME NEW o \in Requests, RequestStep(o) PROVE Core'
    BY <2>3, AskPhraseStep, PopStep, DispatchStep, RecordRunStep, RecordDenialStep
    DEF RequestStep
  <2>4. CASE Die \/ UNCHANGED vars
    BY <2>4, FrameStep DEF IInv, Die, vars
  <2> QED
    BY <2>1, <2>2, <2>3, <2>4, AutoCallStep, QueuedCallStep, AskStep, RestartStep DEF Next
<1> QED BY <1>1, <1>2, PTL DEF Spec

(* A call that shares its tool-call id with no other is dispatched at most  *)
(* once, and not at all if its denial is recorded.                          *)
THEOREM EachSettledOnce == Spec => []SettledOnce
<1>1. IInv => SettledOnce
  <2> SUFFICES ASSUME IInv, NEW e \in Entries, Alone(e)
               PROVE  ran[e] <= 1 /\ (Refused(e) \in audit => ran[e] = 0)
    BY DEF SettledOnce
  <2>1. /\ ran[e] = IF fate[e] = "ran" THEN 1 ELSE 0
        /\ Refused(e) \in audit => fate[e] = "denied"
    BY DEF IInv, Core, AloneInv
  <2> QED BY <2>1
<1> QED BY Invariance, <1>1, PTL

(* What a request runs or denies is a call of the tool-call id it was shown. *)
THEOREM OnlyNamesakesAnswer == Spec => []NamesakesAnswer
<1>1. IInv => NamesakesAnswer
  BY DEF IInv, Core, RequestInv, NamesakesAnswer
<1> QED BY Invariance, <1>1, PTL

(* A waiting call leaves the queue into the hands of a request that answers *)
(* a call of its id, or with a restart.                                     *)
THEOREM NoneSlips == Spec => NothingSlips
<1> DEFINE Leaves(e) ==
       \/ \E o \in Requests :
             /\ request'[o].pc \in {"deny", "dispatch"} /\ request'[o].place = e
             /\ item[request[o].item].call = item[e].call
       \/ restarts' # restarts
<1>1. ASSUME IInv, [Next]_vars, NEW e \in Entries, queue[e] = e, queue'[e] # e
      PROVE  Leaves(e)
  <2> USE DEF IInv, Core
  <2>1. CASE Restart
    BY <2>1 DEF Restart, TypeOK
  <2>2. ASSUME NEW t \in Turns, NEW f \in Entries, NEW c \in CallIds, NEW k \in Classes,
               QueuedCall(t, f, c, k)
        PROVE  FALSE
    <3>1. queue' = [queue EXCEPT ![f] = f, ![c] = f] /\ e # c
      BY <2>2, IdsAssumption DEF QueuedCall, Enqueued
    <3>2. e # f
      BY <1>1, <3>1 DEF TypeOK, Keys
    <3> QED BY <1>1, <3>1, <3>2 DEF TypeOK, Keys
  <2>3. ASSUME NEW o \in Requests, Pop(o) PROVE Leaves(e)
    <3>1. PICK f \in Logged :
             /\ item[f].call \in CallIds
             /\ queue' = [queue EXCEPT ![f] = Null, ![item[f].call] = Null]
             /\ item[request[o].item].call = item[f].call
             /\ request'[o].pc \in InHands /\ request'[o].place = f
      BY <1>1, <2>3, PopFacts
    <3>2. e = f
      BY <1>1, <3>1, IdsAssumption DEF TypeOK, Keys
    <3> QED BY <3>1, <3>2 DEF InHands
  <2>4. ASSUME UNCHANGED queue PROVE FALSE
    BY <1>1, <2>4
  <2> QED
    BY <1>1, <2>1, <2>2, <2>3, <2>4
    DEF Next, RequestStep, StartTurn, EndTurn, AutoCall, Ask, AskUnknown, AskPhrase,
        Dispatch, RecordRun, RecordDenial, Die, vars
<1>2. IInv /\ [Next]_vars =>
        [\A e \in Entries : queue[e] = e /\ queue'[e] # e => Leaves(e)]_vars
  BY <1>1
<1> QED BY Invariance, <1>2, PTL DEF Spec, NothingSlips

-------------------------------------------------------------------------------
(* The budget, whatever ids are used: the calls of a turn that count are as *)
(* many as its counter says.                                                *)

Counted(t) == {e \in Logged : item[e].turn = t /\ item[e].class # "read_only"}

BudgetInv ==
    /\ item \in [Entries -> ItemRecord \cup {Null}]
    /\ elevated \in [Turns -> 0..MaxElevated]
    /\ \A t \in Turns : IsFiniteSet(Counted(t)) /\ Cardinality(Counted(t)) = elevated[t]

LEMMA BudgetInit == Init => BudgetInv
<1> SUFFICES ASSUME Init PROVE BudgetInv
  OBVIOUS
<1>1. \A t \in Turns : Counted(t) = {} /\ elevated[t] = 0
  BY DEF Init, Counted, Logged
<1> QED BY <1>1, FS_EmptySet, SizesAssumption DEF Init, BudgetInv

LEMMA BudgetLog ==
  ASSUME BudgetInv, NEW t \in Turns, NEW e \in Entries, NEW c \in CallIds, NEW k \in Classes,
         Log(t, e, c, k)
  PROVE  BudgetInv'
<1> DEFINE new == [call |-> c, class |-> k, turn |-> t]
<1>1. /\ item[e] = Null /\ item' = [item EXCEPT ![e] = new]
      /\ new \in ItemRecord /\ new # Null
  BY ItemAssumption DEF Log, ItemRecord
<1>2. /\ item' \in [Entries -> ItemRecord \cup {Null}]
      /\ item'[e] = new
      /\ \A f \in Entries : f # e => item'[f] = item[f]
  BY <1>1 DEF BudgetInv
<1>3. Logged' = Logged \cup {e} /\ e \notin Logged
  BY <1>1, <1>2 DEF Logged
<1>4. \A u \in Turns : Counted(u)' =
         IF u = t /\ k # "read_only" THEN Counted(u) \cup {e} ELSE Counted(u)
  <2> SUFFICES ASSUME NEW u \in Turns
               PROVE  Counted(u)' = IF u = t /\ k # "read_only" THEN Counted(u) \cup {e}
                                    ELSE Counted(u)
    OBVIOUS
  <2>1. Counted(u)' = {f \in Logged \cup {e} : item'[f].turn = u /\ item'[f].class # "read_only"}
    BY <1>3 DEF Counted
  <2>2. \A f \in Logged : item'[f] = item[f]
    BY <1>2, <1>3 DEF Logged
  <2>3. item'[e].turn = t /\ item'[e].class = k
    BY <1>2
  <2> QED BY <2>1, <2>2, <2>3 DEF Counted
<1>5. e \notin Counted(t)
  BY <1>3 DEF Counted
<1>6. /\ elevated' \in [Turns -> 0..MaxElevated]
      /\ \A u \in Turns : elevated'[u] =
            IF u = t /\ k # "read_only" THEN elevated[u] + 1 ELSE elevated[u]
  BY SizesAssumption DEF Log, Budgeted, BudgetInv
<1>7. \A u \in Turns :
         IsFiniteSet(Counted(u)') /\ Cardinality(Counted(u)') = elevated'[u]
  <2>1. ASSUME k # "read_only"
        PROVE  /\ IsFiniteSet(Counted(t) \cup {e})
               /\ Cardinality(Counted(t) \cup {e}) = elevated[t] + 1
    BY <1>5, FS_AddElement DEF BudgetInv
  <2> QED BY <1>4, <1>6, <2>1 DEF BudgetInv
<1> QED BY <1>2, <1>6, <1>7 DEF BudgetInv

LEMMA BudgetStep == BudgetInv /\ [Next]_vars => BudgetInv'
<1> SUFFICES ASSUME BudgetInv, [Next]_vars PROVE BudgetInv'
  OBVIOUS
<1>1. ASSUME UNCHANGED <<item, elevated>> PROVE BudgetInv'
  BY <1>1 DEF BudgetInv, Counted, Logged
<1>2. ASSUME NEW t \in Turns, NEW e \in Entries, NEW c \in CallIds, NEW k \in Classes,
             AutoCall(t, e, c, k) \/ QueuedCall(t, e, c, k)
      PROVE  BudgetInv'
  BY <1>2, BudgetLog DEF AutoCall, QueuedCall
<1> QED
  BY <1>1, <1>2 DEF Next, RequestStep, StartTurn, EndTurn, Ask, AskUnknown, AskPhrase, Pop,
     Dispatch, RecordRun, RecordDenial, Restart, Die, vars

(* The calls of a turn that are not read-only stay within its budget, those *)
(* that wait or were denied included.                                       *)
THEOREM BudgetKept == Spec => []BudgetBoundsCalls
<1>1. BudgetInv => BudgetBoundsCalls
  BY SizesAssumption DEF BudgetInv, BudgetBoundsCalls, Counted
<1> QED BY BudgetInit, BudgetStep, <1>1, PTL DEF Spec

-------------------------------------------------------------------------------
(* The gate implements the desk.                                            *)

Rows == [e \in Entries |-> DeskOf(e)]

\* The cases of DeskOf exclude each other.
RowFacts(e) ==
    /\ item[e] = Null => DeskOf(e) = "none"
    /\ queue[e] = e => DeskOf(e) = "waiting"
    /\ fate[e] # "none" => DeskOf(e) = fate[e]
    /\ Handled(e) => DeskOf(e) = "taken"
    /\ item[e] # Null /\ queue[e] # e /\ fate[e] = "none" /\ ~Handled(e)
          => DeskOf(e) = "lost"

LEMMA RowsApart ==
  ASSUME IInv, NEW e \in Entries
  PROVE  RowFacts(e)
<1> USE DEF IInv, Core
<1>1. item[e] = Null => queue[e] # e /\ fate[e] = "none" /\ ~Handled(e)
  BY IdsAssumption DEF FateInv, QueueInv, Handled, RequestInv, InHands, Logged
<1>2. queue[e] = e => fate[e] = "none"
  BY IdsAssumption DEF FateInv
<1>3. Handled(e) => queue[e] # e /\ fate[e] = "none"
  BY IdsAssumption DEF Handled, PlaceInv, InHands
<1> QED BY <1>1, <1>2, <1>3 DEF RowFacts, DeskOf

LEMMA RowsApartNext ==
  ASSUME IInv', NEW e \in Entries
  PROVE  RowFacts(e)'
<1> USE DEF IInv, Core
<1>1. item'[e] = Null => queue'[e] # e /\ fate'[e] = "none" /\ ~Handled(e)'
  BY IdsAssumption DEF FateInv, QueueInv, Handled, RequestInv, InHands, Logged
<1>2. queue'[e] = e => fate'[e] = "none"
  BY IdsAssumption DEF FateInv
<1>3. Handled(e)' => queue'[e] # e /\ fate'[e] = "none"
  BY IdsAssumption DEF Handled, PlaceInv, InHands
<1> QED BY <1>1, <1>2, <1>3 DEF RowFacts, DeskOf

LEMMA DeskStart == Init => Desk!DeskInit
<1> SUFFICES ASSUME Init PROVE Desk!DeskInit
  OBVIOUS
<1>1. ASSUME NEW e \in Entries PROVE DeskOf(e) = "none"
  BY InitInv, RowsApart DEF RowFacts, Init
<1> QED BY <1>1 DEF Desk!DeskInit

\* The row of a place depends on nothing but that place.
LEMMA SameRow ==
  ASSUME NEW e \in Entries,
         item'[e] = item[e], queue'[e] = queue[e], fate'[e] = fate[e],
         Handled(e)' <=> Handled(e)
  PROVE  Rows'[e] = Rows[e]
<1>1. Rows[e] = DeskOf(e) /\ Rows'[e] = DeskOf(e)'
  BY DEF Rows
<1>2. DeskOf(e)' = DeskOf(e)
  BY DEF DeskOf
<1> QED BY <1>1, <1>2

\* One row changes as the desk allows.
LEMMA RowChanges ==
  ASSUME NEW e \in Entries, \A f \in Entries : f # e => Rows'[f] = Rows[f],
         \/ Rows[e] = "none" /\ Rows'[e] \in {"waiting", "ran"}
         \/ Rows[e] = "waiting" /\ Rows'[e] = "taken"
         \/ Rows[e] = "taken" /\ Rows'[e] \in {"ran", "denied"}
  PROVE  Desk!DeskNext
<1>1. Rows' = [Rows EXCEPT ![e] = Rows'[e]]
  BY DEF Rows
<1> QED
  BY <1>1 DEF Desk!DeskNext, Desk!Arrive, Desk!Take, Desk!Settle, Rows

LEMMA NoRowChanges ==
  ASSUME \A f \in Entries : Rows'[f] = Rows[f]
  PROVE  UNCHANGED Rows
BY DEF Rows

\* A request that settles its place changes the row of that place.
LEMMA Settles ==
  ASSUME IInv, IInv', NEW o \in Requests, NEW outcome \in {"ran", "denied"},
         UNCHANGED <<queue, item>>, fate' = Settled(request[o].place, outcome),
         request[o].pc \in InHands, request'[o].pc \notin InHands,
         \A p \in Requests : p # o => request'[p] = request[p]
  PROVE  Desk!DeskNext
<1>0. PICK e \in Entries : e = request[o].place
  BY DEF IInv, Core, RequestInv, Logged
<1>1. fate[e] = "none" /\ Handled(e)
  BY <1>0 DEF IInv, Core, PlaceInv, Handled, InHands
<1>2. fate'[e] = outcome /\ \A f \in Entries : f # e => fate'[f] = fate[f]
  BY <1>0, <1>1, SettledFacts DEF IInv
<1>3. \A f \in Entries : f # e => (Handled(f)' <=> Handled(f))
  BY <1>0 DEF Handled, InHands
<1>4. \A f \in Entries : f # e => Rows'[f] = Rows[f]
  BY <1>2, <1>3, SameRow
<1>5. Rows[e] = DeskOf(e) /\ Rows'[e] = DeskOf(e)'
  BY DEF Rows
<1>6. RowFacts(e) /\ RowFacts(e)'
  BY RowsApart, RowsApartNext
<1>7. Rows[e] = "taken" /\ Rows'[e] = outcome
  BY <1>1, <1>2, <1>5, <1>6 DEF RowFacts
<1> QED BY <1>1, <1>4, <1>7, RowChanges

LEMMA DeskStep ==
  ASSUME IInv, IInv', [Next]_vars
  PROVE  Desk!DeskNext \/ UNCHANGED Rows
<1> USE DEF IInv, Core
<1>1. \A e \in Entries : RowFacts(e) /\ RowFacts(e)'
  BY RowsApart, RowsApartNext
<1>2. \A e \in Entries : Rows[e] = DeskOf(e) /\ Rows'[e] = DeskOf(e)'
  BY DEF Rows
<1>3. ASSUME UNCHANGED <<queue, item, request, fate>>
      PROVE  UNCHANGED Rows
  BY <1>3, SameRow, NoRowChanges DEF Handled
<1>4. ASSUME NEW t \in Turns, NEW e \in Entries, NEW c \in CallIds, NEW k \in Classes,
             AutoCall(t, e, c, k)
      PROVE  Desk!DeskNext
  <2>1. /\ item[e] = Null /\ fate[e] = "none"
        /\ \A f \in Entries : f # e => item'[f] = item[f]
        /\ UNCHANGED <<queue, request>> /\ fate' = Settled(e, "ran")
    BY <1>4, LogFacts DEF AutoCall
  <2>2. fate'[e] = "ran" /\ \A f \in Entries : f # e => fate'[f] = fate[f]
    BY <2>1, SettledFacts
  <2>3. \A f \in Entries : f # e => Rows'[f] = Rows[f]
    BY <2>1, <2>2, SameRow DEF Handled
  <2>4. Rows[e] = "none" /\ Rows'[e] = "ran"
    BY <1>1, <1>2, <2>1, <2>2 DEF RowFacts
  <2> QED BY <2>3, <2>4, RowChanges
<1>5. ASSUME NEW t \in Turns, NEW e \in Entries, NEW c \in CallIds, NEW k \in Classes,
             QueuedCall(t, e, c, k)
      PROVE  Desk!DeskNext
  <2>1. /\ item[e] = Null
        /\ \A f \in Entries : f # e => item'[f] = item[f]
        /\ UNCHANGED <<request, fate>> /\ queue' = [queue EXCEPT ![e] = e, ![c] = e]
    BY <1>5, LogFacts DEF QueuedCall, Enqueued, observed
  <2>2. queue'[e] = e /\ \A f \in Entries : f # e => queue'[f] = queue[f]
    BY <2>1, IdsAssumption DEF TypeOK, Keys
  <2>3. \A f \in Entries : f # e => Rows'[f] = Rows[f]
    BY <2>1, <2>2, SameRow DEF Handled
  <2>4. Rows[e] = "none" /\ Rows'[e] = "waiting"
    BY <1>1, <1>2, <2>1, <2>2 DEF RowFacts
  <2> QED BY <2>3, <2>4, RowChanges
<1>6. ASSUME NEW o \in Requests, UNCHANGED <<queue, item, fate>>,
             \A p \in Requests : p # o => request'[p] = request[p],
             request[o].pc \notin InHands, request'[o].pc \notin InHands
      PROVE  UNCHANGED Rows
  <2>1. \A e \in Entries : Handled(e)' <=> Handled(e)
    BY <1>6 DEF Handled, InHands
  <2> QED BY <1>6, <2>1, SameRow, NoRowChanges
<1>7. ASSUME NEW o \in Requests, NEW e \in Entries, NEW d \in Decisions, Ask(o, e, d)
      PROVE  UNCHANGED Rows
  <2>1. UNCHANGED <<queue, item, fate>>
    BY <1>7 DEF Ask, observed
  <2> QED BY <1>6, <1>7, <2>1, AskFacts DEF InHands
<1>8. ASSUME NEW o \in Requests, AskPhrase(o) \/ RecordRun(o) PROVE UNCHANGED Rows
  <2>1. /\ UNCHANGED <<queue, item, fate>> /\ Answered(o)
        /\ request[o].pc \in {"found", "record"}
    BY <1>8 DEF AskPhrase, RecordRun, observed
  <2> QED BY <1>6, <2>1, AnsweredFacts DEF InHands
<1>9. ASSUME NEW o \in Requests, Pop(o) PROVE Desk!DeskNext \/ UNCHANGED Rows
  <2>1. request[o].pc \notin InHands /\ UNCHANGED <<item, fate>>
    BY <1>9, PopFacts DEF InHands, observed
  <2>2. CASE UNCHANGED queue /\ Answered(o)
    BY <1>6, <2>1, <2>2, AnsweredFacts DEF InHands
  <2>3. CASE ~(UNCHANGED queue /\ Answered(o))
    <3>1. PICK e \in Logged :
             /\ queue[e] = e /\ item[e].call \in CallIds
             /\ queue' = [queue EXCEPT ![e] = Null, ![item[e].call] = Null]
             /\ request'[o].pc \in InHands /\ request'[o].place = e
             /\ \A p \in Requests : p # o => request'[p] = request[p]
      BY <1>9, <2>3, PopFacts
    <3>2. e \in Entries /\ \A f \in Entries : f # e => queue'[f] = queue[f]
      BY <3>1, IdsAssumption DEF TypeOK, Keys, Logged
    <3>3. \A f \in Entries : f # e => (Handled(f)' <=> Handled(f))
      BY <2>1, <3>1 DEF Handled, InHands
    <3>4. \A f \in Entries : f # e => Rows'[f] = Rows[f]
      BY <2>1, <3>2, <3>3, SameRow
    <3>5. Rows[e] = "waiting"
      BY <1>1, <1>2, <3>1, <3>2 DEF RowFacts
    <3>6. Handled(e)'
      BY <3>1 DEF Handled, InHands
    <3>7. Rows'[e] = "taken"
      BY <1>1, <1>2, <3>2, <3>6 DEF RowFacts
    <3> QED BY <3>2, <3>4, <3>5, <3>7, RowChanges
  <2> QED BY <2>2, <2>3
<1>10. ASSUME NEW o \in Requests, Dispatch(o) PROVE Desk!DeskNext
  BY <1>10, DispatchFacts, Settles DEF InHands
<1>11. ASSUME NEW o \in Requests, RecordDenial(o) PROVE Desk!DeskNext
  <2>1. /\ UNCHANGED <<queue, item>> /\ fate' = Settled(request[o].place, "denied")
        /\ request[o].pc = "deny" /\ Answered(o)
    BY <1>11 DEF RecordDenial
  <2> QED BY <2>1, AnsweredFacts, Settles DEF InHands
<1>12. CASE Restart
  <2>1. /\ UNCHANGED <<item, fate>>
        /\ \A e \in Entries : queue'[e] = Null /\ queue'[e] # e
        /\ \A e \in Entries : ~Handled(e)'
    BY <1>12, IdsAssumption DEF Restart, IdleRequest, Keys, Handled, observed
  <2>2. \A e \in Entries :
           Rows'[e] = IF Rows[e] \in {"waiting", "taken"} THEN "lost" ELSE Rows[e]
    <3> SUFFICES ASSUME NEW e \in Entries
                 PROVE  Rows'[e] = IF Rows[e] \in {"waiting", "taken"} THEN "lost" ELSE Rows[e]
      OBVIOUS
    <3>1. fate[e] \in {"none", "ran", "denied"}
      BY DEF TypeOK, FateInv
    <3>2. CASE item[e] = Null \/ fate[e] # "none"
      BY <1>1, <1>2, <2>1, <3>1, <3>2 DEF RowFacts
    <3>3. CASE ~(item[e] = Null \/ fate[e] # "none")
      <4>1. Rows'[e] = "lost"
        BY <1>1, <1>2, <2>1, <3>3 DEF RowFacts
      <4>2. Rows[e] \in {"waiting", "taken", "lost"}
        BY <1>1, <1>2, <3>3 DEF RowFacts
      <4> QED BY <4>1, <4>2
    <3> QED BY <3>2, <3>3
  <2>3. Rows' = [e \in Entries |-> IF Rows[e] \in {"waiting", "taken"} THEN "lost" ELSE Rows[e]]
    BY <2>2 DEF Rows
  <2> QED BY <2>3 DEF Desk!DeskNext, Desk!Forget, Rows
<1> QED
  BY <1>3, <1>4, <1>5, <1>7, <1>8, <1>9, <1>10, <1>11, <1>12
  DEF Next, RequestStep, StartTurn, EndTurn, AskUnknown, Die, vars, observed

(* The gate is an approval desk for every place of the queue: what waits    *)
(* there is taken by one request, and then one call is run or denied, once, *)
(* unless a restart forgets it.                                             *)
THEOREM DeskImplemented == Spec => ImplementsDesk
<1>1. Init => Desk!DeskInit
  BY DeskStart
<1>2. IInv /\ IInv' /\ [Next]_vars => [Desk!DeskNext]_Rows
  BY DeskStep
<1> QED BY <1>1, <1>2, Invariance, PTL DEF Spec, ImplementsDesk, Desk!DeskSpec, Rows
===============================================================================
