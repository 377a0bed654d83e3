------------------------------ MODULE Approvals ------------------------------
(***************************************************************************)
(* The approval queue of server.py: the tool calls of a turn that policy   *)
(* wants an operator to see (on_tool_call), and the request threads that   *)
(* approve or deny them (approve).  App.pending is one dictionary that     *)
(* holds every queued call under two keys, its audit entry id and the      *)
(* provider's tool-call id.  Nothing makes the provider's ids unique.      *)
(*                                                                         *)
(* One step is one section under App._lock, one dispatch of a tool, or one *)
(* record in the audit log.  A call that fails its schema, and one beyond  *)
(* the turn's budget, is refused without a trace in this state.            *)
(***************************************************************************)
EXTENDS Naturals, FiniteSets

CONSTANTS
    Entries,      \* audit entry ids (a bound: each is used once)
    CallIds,      \* tool-call ids as the provider makes them up
    Classes,      \* action classes that occur
    Turns,        \* model turns (a bound)
    Requests,     \* request threads of POST /api/approve
    MaxElevated,  \* max_elevated_calls_per_turn
    MaxRestarts,  \* bound on restarts of the service
    Null

AllClasses == {"read_only", "chat_schedule", "user_change", "destructive"}

ASSUME IdsAssumption ==
    Entries \cap CallIds = {} /\ Null \notin Entries \cup CallIds
ASSUME ClassesAssumption == Classes \subseteq AllClasses
ASSUME SizesAssumption == MaxElevated \in Nat /\ MaxRestarts \in Nat

VARIABLES
    queue,     \* App.pending
    item,      \* what is queued or logged under an audit entry id
    elevated,  \* elevated_calls of each turn
    live,      \* which turns are running
    request,   \* the threads in approve
    audit,     \* outcomes in the audit log
    dead,      \* lifecycle.status()["dead"]
    restarts,
    \* observations no step depends on
    ran,       \* how often each call was dispatched
    fate       \* what was done with each place in the queue

observed == <<ran, fate>>
vars == <<queue, item, elevated, live, request, audit, dead, restarts, observed>>

-------------------------------------------------------------------------------
Keys == Entries \cup CallIds

\* The classes the shipped policy approves, and the one that wants a phrase.
AutoClasses == {"read_only", "chat_schedule"}
PhraseClasses == {"destructive"}

ItemRecord == [call : CallIds, class : Classes, turn : Turns]

ASSUME ItemAssumption == Null \notin ItemRecord

\* "approve" comes without the confirmation phrase, "confirm" with it.
Decisions == {"deny", "approve", "confirm"}

\* item: the call found.  Observations no step depends on: shown, the call
\* whose card the operator looked at; place, the one that left the queue; late,
\* the zombie was dead when the request came.
RequestRecord == [pc : {"idle", "found", "deny", "dispatch", "record"},
                  item : Entries \cup {Null}, decision : Decisions,
                  shown : Entries \cup {Null}, place : Entries \cup {Null},
                  late : BOOLEAN]

IdleRequest == [pc |-> "idle", item |-> Null, decision |-> "deny",
                shown |-> Null, place |-> Null, late |-> FALSE]

\* Rows of the audit log: a call, its decision, and the error noted with it.
Approved(e)    == <<e, "approved", "">>
Refused(e)     == <<e, "denied", "">>
Unconfirmed(e) == <<e, "denied", "missing or wrong confirmation phrase">>

AuditRows == UNION {{Approved(e), Refused(e), Unconfirmed(e)} : e \in Entries}

TypeOK ==
    /\ queue \in [Keys -> Entries \cup {Null}]
    /\ item \in [Entries -> ItemRecord \cup {Null}]
    /\ elevated \in [Turns -> 0..MaxElevated]
    /\ live \in [Turns -> {"unused", "running", "over"}]
    /\ request \in [Requests -> RequestRecord]
    /\ audit \subseteq AuditRows
    /\ ran \in [Entries -> Nat]
    /\ fate \in [Entries -> {"none", "ran", "denied", "twice"}]
    /\ dead \in BOOLEAN
    /\ restarts \in 0..MaxRestarts

Init ==
    /\ queue = [k \in Keys |-> Null]
    /\ item = [e \in Entries |-> Null]
    /\ elevated = [t \in Turns |-> 0]
    /\ live = [t \in Turns |-> "unused"]
    /\ request = [o \in Requests |-> IdleRequest]
    /\ audit = {}
    /\ ran = [e \in Entries |-> 0]
    /\ fate = [e \in Entries |-> "none"]
    /\ dead = FALSE
    /\ restarts = 0

-------------------------------------------------------------------------------
(* Turns and their tool calls.                                             *)

\* post_message refuses a dead zombie, and looks no second time.
StartTurn(t) ==
    /\ live[t] = "unused" /\ ~dead
    /\ live' = [live EXCEPT ![t] = "running"]
    /\ UNCHANGED <<queue, item, elevated, request, audit, dead, restarts, observed>>

EndTurn(t) ==
    /\ live[t] = "running"
    /\ live' = [live EXCEPT ![t] = "over"]
    /\ UNCHANGED <<queue, item, elevated, request, audit, dead, restarts, observed>>

Logged == {e \in Entries : item[e] # Null}

\* A class may pass the budget check of its turn, which counts it.
Budgeted_late(t, k) ==        \* mutant: compared before it is counted
    \/ k = "read_only" /\ UNCHANGED elevated
    \/ k # "read_only" /\ elevated[t] <= MaxElevated
       /\ elevated' = [elevated EXCEPT ![t] = IF @ < MaxElevated THEN @ + 1 ELSE @]

Budgeted(t, k) ==
    \/ k = "read_only" /\ UNCHANGED elevated
    \/ k # "read_only" /\ elevated[t] < MaxElevated
       /\ elevated' = [elevated EXCEPT ![t] = @ + 1]

\* The call gets its audit entry.  The provider may have used c before.
Log(t, e, c, k) ==
    /\ live[t] = "running"
    /\ item[e] = Null
    /\ item' = [item EXCEPT ![e] = [call |-> c, class |-> k, turn |-> t]]
    /\ Budgeted(t, k)

\* A second outcome in one place would be one too many.
Settled(e, outcome) ==
    [fate EXCEPT ![e] = IF @ = "none" THEN outcome ELSE "twice"]

\* A class that policy approves is dispatched inside the turn.
AutoCall(t, e, c, k) ==
    /\ k \in AutoClasses
    /\ Log(t, e, c, k)
    /\ ran' = [ran EXCEPT ![e] = @ + 1]
    /\ fate' = Settled(e, "ran")
    /\ UNCHANGED <<queue, live, request, audit, dead, restarts>>

Enqueued(e, c) == [queue EXCEPT ![e] = e, ![c] = e]

\* Any other is queued under both ids; an older call under the same tool-call
\* id loses that key.
QueuedCall(t, e, c, k) ==
    /\ k \notin AutoClasses
    /\ Log(t, e, c, k)
    /\ queue' = Enqueued(e, c)
    /\ UNCHANGED <<live, request, audit, dead, restarts, observed>>

-------------------------------------------------------------------------------
(* Requests to approve or deny.                                            *)

Found_any(key) ==             \* mutant: an id nobody knows finds some call
    {queue[k] : k \in Keys} \ {Null}

\* The lookup under the lock; an unknown or handled id finds nothing.
Found(key) == {queue[key]} \ {Null}

\* The operator decides on the call e: a button of the page sends its
\* tool-call id, the /approve and /deny commands its audit entry id.
Ask(o, e, d) ==
    /\ request[o].pc = "idle"
    /\ e \in Logged /\ item[e].class \notin AutoClasses
    /\ \E key \in {e, item[e].call} : \E found \in Found(key) :
          request' = [request EXCEPT ![o] =
                        [pc |-> "found", item |-> found, decision |-> d,
                         shown |-> e, place |-> Null, late |-> dead]]
    /\ UNCHANGED <<queue, item, elevated, live, audit, dead, restarts, observed>>

\* "Unknown or already-handled tool call."
AskUnknown(o, key) ==
    /\ request[o].pc = "idle"
    /\ Found(key) = {}
    /\ UNCHANGED vars

Answered(o) == request' = [request EXCEPT ![o] = IdleRequest]

NeedsPhrase(o) ==
    /\ request[o].decision = "approve"
    /\ item[request[o].item].class \in PhraseClasses

Without_half(e) ==            \* mutant: the tool-call id stays
    [queue EXCEPT ![e] = Null]

Without(e) == [queue EXCEPT ![e] = Null, ![item[e].call] = Null]

AskPhrase_popped(o) ==        \* mutant: the call was popped before the check
    /\ request[o].pc = "found" /\ NeedsPhrase(o)
    /\ queue' = Without(request[o].item)
    /\ audit' = audit \cup {Unconfirmed(request[o].item)}
    /\ Answered(o)
    /\ UNCHANGED <<item, elevated, live, dead, restarts, observed>>

\* A destructive call without its phrase: recorded as denied, but it waits on.
AskPhrase(o) ==
    /\ request[o].pc = "found" /\ NeedsPhrase(o)
    /\ audit' = audit \cup {Unconfirmed(request[o].item)}
    /\ Answered(o)
    /\ UNCHANGED <<queue, item, elevated, live, dead, restarts, observed>>

\* pop_pending: by the audit entry id, failing that by the tool-call id.
Popped(e) == IF queue[e] # Null THEN queue[e] ELSE queue[item[e].call]

Pop_unchecked(o) ==           \* mutant: whether the pop found it is ignored
    LET popped == Popped(request[o].item) IN
    /\ request[o].pc = "found" /\ ~NeedsPhrase(o)
    /\ queue' = IF popped = Null THEN queue ELSE Without(popped)
    /\ request' = [request EXCEPT
                     ![o].pc = IF request[o].decision = "deny"
                               THEN "deny" ELSE "dispatch",
                     ![o].place = IF popped = Null THEN request[o].item ELSE popped]
    /\ UNCHANGED <<item, elevated, live, audit, dead, restarts, observed>>

\* Under the lock, in a section of its own, the call found before is popped;
\* another request may have handled it, and a later call that came under the
\* same tool-call id is then popped in its place.
Pop(o) ==
    LET popped == Popped(request[o].item) IN
    /\ request[o].pc = "found" /\ ~NeedsPhrase(o)
    /\ \/ popped = Null /\ Answered(o) /\ UNCHANGED queue
       \/ /\ popped # Null
          /\ queue' = Without(popped)
          /\ request' = [request EXCEPT
                           ![o].pc = IF request[o].decision = "deny" THEN "deny" ELSE "dispatch",
                           ![o].place = popped]
    /\ UNCHANGED <<item, elevated, live, audit, dead, restarts, observed>>

\* The tool runs, or raises, with the arguments of the call found before.
Dispatch(o) ==
    /\ request[o].pc = "dispatch"
    /\ ran' = [ran EXCEPT ![request[o].item] = @ + 1]
    /\ fate' = Settled(request[o].place, "ran")
    /\ request' = [request EXCEPT ![o].pc = "record"]
    /\ UNCHANGED <<queue, item, elevated, live, audit, dead, restarts>>

\* The outcome is written to the audit log, for the call found before.
RecordRun(o) ==
    /\ request[o].pc = "record"
    /\ audit' = audit \cup {Approved(request[o].item)}
    /\ Answered(o)
    /\ UNCHANGED <<queue, item, elevated, live, dead, restarts, observed>>

RecordDenial(o) ==
    /\ request[o].pc = "deny"
    /\ audit' = audit \cup {Refused(request[o].item)}
    /\ fate' = Settled(request[o].place, "denied")
    /\ Answered(o)
    /\ UNCHANGED <<queue, item, elevated, live, dead, restarts, ran>>

-------------------------------------------------------------------------------
\* A crash or restart: the queue, the turns and the requests were memory.
Restart ==
    /\ restarts < MaxRestarts
    /\ restarts' = restarts + 1
    /\ queue' = [k \in Keys |-> Null]
    /\ live' = [t \in Turns |-> IF live[t] = "running" THEN "over" ELSE live[t]]
    /\ request' = [o \in Requests |-> IdleRequest]
    /\ UNCHANGED <<item, elevated, audit, dead, observed>>

Die ==
    /\ ~dead
    /\ dead' = TRUE
    /\ UNCHANGED <<queue, item, elevated, live, request, audit, restarts, observed>>

RequestStep(o) ==
    AskPhrase(o) \/ Pop(o) \/ Dispatch(o) \/ RecordRun(o) \/ RecordDenial(o)

Next ==
    \/ \E t \in Turns : StartTurn(t) \/ EndTurn(t)
    \/ \E t \in Turns, e \in Entries, c \in CallIds, k \in Classes :
          AutoCall(t, e, c, k) \/ QueuedCall(t, e, c, k)
    \/ \E o \in Requests, e \in Entries, d \in Decisions : Ask(o, e, d)
    \/ \E o \in Requests, key \in Keys : AskUnknown(o, key)
    \/ \E o \in Requests : RequestStep(o)
    \/ Restart \/ Die

Spec == Init /\ [][Next]_vars

-------------------------------------------------------------------------------
(* Safety, whatever ids the provider makes up.                             *)

\* A call no other logged call shares its tool-call id with.
Alone(e) == e \in Logged /\ \A f \in Logged : item[f].call = item[e].call => f = e

\* Such a call is dispatched at most once, though several requests may have
\* found it before the first of them popped it, and never once an operator's
\* denial of it is recorded.
SettledOnce ==
    \A e \in Entries : Alone(e) =>
        /\ ran[e] <= 1
        /\ Refused(e) \in audit => ran[e] = 0

\* Whichever id a request names the call by, and whoever took it meanwhile, what
\* it runs or denies is a call of the tool-call id that was shown.
NamesakesAnswer ==
    \A o \in Requests :
        request[o].pc \in {"deny", "dispatch", "record"}
        => item[request[o].item].call = item[request[o].shown].call

\* A waiting call leaves the queue only into the hands of a request that will
\* run or deny a call of its tool-call id, or with a restart: a wrong phrase
\* does not remove it.
NothingSlips ==
    [][\A e \in Entries : queue[e] = e /\ queue'[e] # e =>
          \/ \E o \in Requests :
                /\ request'[o].pc \in {"deny", "dispatch"} /\ request'[o].place = e
                /\ item[request[o].item].call = item[e].call
          \/ restarts' # restarts]_vars

\* The queue does not lift a turn's budget of elevated calls: those that ran,
\* wait or were denied are at most max_elevated_calls_per_turn together.
BudgetBoundsCalls ==
    \A t \in Turns :
        Cardinality({e \in Logged : item[e].turn = t /\ item[e].class # "read_only"})
        <= MaxElevated

(* The gate, as an abstract desk: one decision is made in each place of the *)
(* queue, so no more calls of a tool-call id run than were logged with it.  *)

Handled(e) ==
    \E o \in Requests : request[o].pc \in {"deny", "dispatch"} /\ request[o].place = e

DeskOf(e) ==
    CASE item[e] = Null      -> "none"
      [] queue[e] = e        -> "waiting"
      [] fate[e] # "none"    -> fate[e]
      [] Handled(e)          -> "taken"
      [] OTHER               -> "lost"

Desk == INSTANCE ApprovalDesk WITH desk <- [e \in Entries |-> DeskOf(e)]

ImplementsDesk == Desk!DeskSpec

(* What the code's comments and pages say, and the code does not keep.     *)

\* "Each item is addressable by both the audit entry id and provider tool-call
\* id so legacy buttons and text commands resolve the same queue item" (comment
\* at App.pending): what runs or is denied is the call the operator looked at.
\* Not so once a tool-call id is used again.
ShownIsMeant ==
    \A o \in Requests :
        request[o].pc \in {"deny", "dispatch", "record"}
        => request[o].item = request[o].shown

\* lifecycle.status is "the single read path the chat service consults before
\* doing anything privileged" (lifecycle.py): no call runs that was approved when
\* the zombie was already dead.
NothingRunsWhenDead ==
    [][\A o \in Requests :
          request[o].pc = "dispatch" /\ request'[o].pc = "record"
          => ~request[o].late]_vars
==============================================================================
