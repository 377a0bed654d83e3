------------------------------ MODULE TurnStream ------------------------------
(***************************************************************************)
(* The live stream of one turn: the worker thread that emits frames into   *)
(* the bounded queue of a TurnStream (server.py), the handler threads of   *)
(* GET /api/stream/<turn>, and the browsers that watch, lose the           *)
(* connection and come back (templates/index.html).                        *)
(*                                                                         *)
(* One step is one operation on the queue, one section under App._lock, or *)
(* one write to a socket.  A frame is a number, its place in the order in  *)
(* which the worker made them; kind[n] is what it says.                    *)
(***************************************************************************)
EXTENDS Naturals, Sequences, FiniteSets, SequencesExt

CONSTANTS
    Viewers,    \* EventSource objects of browser tabs
    MaxQueue,   \* STREAM_QUEUE_MAX
    MaxFrames,  \* bound on the frames of the turn
    MaxDrops    \* bound on lost or closed connections

ASSUME QueueAssumption == MaxQueue \in Nat \ {0}
ASSUME BoundsAssumption == MaxFrames \in Nat \ {0} /\ MaxDrops \in Nat

\* "state" stands for phase, tool_start, tool_end and pending_approval, "end"
\* for turn_done and turn_error.
Kinds == {"token", "state", "end"}

VARIABLES
    kind,      \* the frames made so far
    queue,     \* TurnStream.queue
    worker,    \* "run", "put" or "evict" its newest frame, "over"
    final,     \* final_payload and done_at are set
    kept,      \* the turn is in App.turns
    attached,  \* TurnStream.attached
    handler,   \* the handler thread of each viewer
    viewer,    \* the browser's side
    drops,
    \* observation no step depends on
    endLost    \* the write of a terminal frame has failed

vars == <<kind, queue, worker, final, kept, attached, handler, viewer, drops, endLost>>

-------------------------------------------------------------------------------
Frames == 1..Len(kind)

IsToken(n) == kind[n] = "token"
IsEnd(n) == kind[n] = "end"

\* frame: what it took from the queue; broken: its connection is gone.
HandlerRecord == [pc : {"none", "read", "write"},
                  frame : 0..MaxFrames, broken : BOOLEAN]

NoHandler == [pc |-> "none", frame |-> 0, broken |-> FALSE]

\* got: the frames its page has shown.  "away": it does not watch; "refused":
\* its request was not attached; "retry": the browser is about to connect again
\* by itself; "ended": it has shown the terminal payload; "reloaded": a 404
\* closed the EventSource and the page loaded the conversation instead.
ViewerRecord == [pc : {"away", "open", "refused", "retry", "ended", "reloaded"},
                 got : Seq(1..MaxFrames)]

NewViewer == [pc |-> "away", got |-> <<>>]

TypeOK ==
    /\ kind \in Seq(Kinds) /\ Len(kind) <= MaxFrames
    /\ queue \in Seq(Frames) /\ Len(queue) <= MaxQueue
    /\ worker \in {"run", "put", "evict", "over"}
    /\ final \in BOOLEAN /\ kept \in BOOLEAN /\ attached \in BOOLEAN
    /\ handler \in [Viewers -> HandlerRecord]
    /\ viewer \in [Viewers -> ViewerRecord]
    /\ drops \in 0..MaxDrops
    /\ endLost \in BOOLEAN

\* start_streaming_message has registered the turn and starts its worker.
Init ==
    /\ kind = <<>> /\ queue = <<>>
    /\ worker = "run" /\ final = FALSE
    /\ kept = TRUE /\ attached = FALSE
    /\ handler = [v \in Viewers |-> NoHandler]
    /\ viewer = [v \in Viewers |-> NewViewer]
    /\ drops = 0 /\ endLost = FALSE

-------------------------------------------------------------------------------
(* The worker.                                                             *)

Newest == Len(kind)

\* post_message emits; the terminal frame sets final_payload first.  A worker
\* that fails after it (its audit record cannot be written) emits a second
\* terminal frame, and no more.
Emit(k) ==
    /\ worker = "run"
    /\ Len(kind) < MaxFrames
    /\ k # "end" => ~final /\ Len(kind) < MaxFrames - 1
    /\ k = "end" /\ final => Cardinality({n \in Frames : IsEnd(n)}) = 1
    /\ kind' = Append(kind, k)
    /\ final' = (final \/ k = "end")
    /\ worker' = "put"
    /\ UNCHANGED <<queue, kept, attached, handler, viewer, drops, endLost>>

Return ==
    /\ worker = "run" /\ final
    /\ worker' = "over"
    /\ UNCHANGED <<kind, queue, final, kept, attached, handler, viewer, drops, endLost>>

\* put_nowait raises Full, or does not.
Put ==
    /\ worker = "put"
    /\ IF Len(queue) < MaxQueue
       THEN queue' = Append(queue, Newest) /\ worker' = "run"
       ELSE worker' = "evict" /\ UNCHANGED queue
    /\ UNCHANGED <<kind, final, kept, attached, handler, viewer, drops, endLost>>

QueuedTokens == {i \in DOMAIN queue : IsToken(queue[i])}

Evicted_newest ==             \* mutant: what does not fit is not queued
    {queue}

Evicted_front ==              \* mutant: the frame goes where the oldest was
    {<<Newest>> \o SubSeq(queue, 2, Len(queue))}

\* The queue with room made: the oldest token goes; without one, a new token is
\* not queued, and for anything else the oldest frame goes.
Evicted ==
    IF queue = <<>> THEN {<<Newest>>}
    ELSE IF QueuedTokens # {}
    THEN {Append(RemoveAt(queue, i), Newest) :
            i \in {j \in QueuedTokens : \A l \in QueuedTokens : j <= l}}
    ELSE IF IsToken(Newest) THEN {queue}
    ELSE {Append(Tail(queue), Newest)}

\* Under the queue's mutex; handlers may have read since Put found it full.
Evict ==
    /\ worker = "evict"
    /\ queue' \in Evicted
    /\ worker' = "run"
    /\ UNCHANGED <<kind, final, kept, attached, handler, viewer, drops, endLost>>

-------------------------------------------------------------------------------
(* Handler threads and the browsers behind them.                           *)

Attachable == kept /\ ~attached

\* GET /api/stream/<turn>, and attach_turn_stream under the lock.
Connect(v) ==
    /\ viewer[v].pc \in {"away", "retry"}
    /\ IF Attachable
       THEN /\ attached' = TRUE
            /\ handler' = [handler EXCEPT ![v] = [NoHandler EXCEPT !.pc = "read"]]
            /\ viewer' = [viewer EXCEPT ![v].pc = "open"]
       ELSE /\ viewer' = [viewer EXCEPT ![v].pc = "refused"]
            /\ UNCHANGED <<attached, handler>>
    /\ UNCHANGED <<kind, queue, worker, final, kept, drops, endLost>>

\* A refused request looks the turn up again: a finished turn is answered with
\* its final payload, any other with 404.
Answer(v) ==
    /\ viewer[v].pc = "refused"
    /\ viewer' = [viewer EXCEPT ![v].pc = IF kept /\ final THEN "ended" ELSE "reloaded"]
    /\ UNCHANGED <<kind, queue, worker, final, kept, attached, handler, drops, endLost>>

\* queue.get
Read(v) ==
    /\ handler[v].pc = "read"
    /\ queue # <<>>
    /\ handler' = [handler EXCEPT ![v].pc = "write", ![v].frame = Head(queue)]
    /\ queue' = Tail(queue)
    /\ UNCHANGED <<kind, worker, final, kept, attached, viewer, drops, endLost>>

\* After a terminal frame the handler returns and leaves the stream attached.
Written(v) ==
    handler' = [handler EXCEPT ![v] =
                  IF IsEnd(@.frame) THEN NoHandler
                  ELSE [@ EXCEPT !.pc = "read", !.frame = 0]]

\* _write_sse succeeds, and the page gets the frame.
Deliver(v) ==
    /\ handler[v].pc = "write" /\ ~handler[v].broken
    /\ Written(v)
    /\ viewer' = [viewer EXCEPT
                    ![v].got = Append(@, handler[v].frame),
                    ![v].pc = IF IsEnd(handler[v].frame) THEN "ended" ELSE @]
    /\ UNCHANGED <<kind, queue, worker, final, kept, attached, drops, endLost>>

\* It succeeds as well on a connection that the peer has only just left.
Lose(v) ==
    /\ handler[v].pc = "write" /\ handler[v].broken
    /\ Written(v)
    /\ UNCHANGED <<kind, queue, worker, final, kept, attached, viewer, drops, endLost>>

\* detach_turn_stream
Detached == attached' = (attached /\ ~kept)

\* It fails: the handler detaches and returns; the frame has left the queue.
FailWrite(v) ==
    /\ handler[v].pc = "write" /\ handler[v].broken
    /\ Detached
    /\ handler' = [handler EXCEPT ![v] = NoHandler]
    /\ endLost' = (endLost \/ IsEnd(handler[v].frame))
    /\ UNCHANGED <<kind, queue, worker, final, kept, viewer, drops>>

\* No frame for STREAM_KEEPALIVE_SECONDS, and the keepalive cannot be written.
FailKeepalive(v) ==
    /\ handler[v].pc = "read" /\ handler[v].broken
    /\ queue = <<>>
    /\ Detached
    /\ handler' = [handler EXCEPT ![v] = NoHandler]
    /\ UNCHANGED <<kind, queue, worker, final, kept, viewer, drops, endLost>>

\* The connection is lost and the browser will retry, or the page closes its
\* EventSource (a pause, a stop) and may open another later.
Drop(v, to) ==
    /\ viewer[v].pc = "open"
    /\ drops < MaxDrops
    /\ drops' = drops + 1
    /\ viewer' = [viewer EXCEPT ![v].pc = to]
    /\ handler' = [handler EXCEPT ![v].broken = handler[v].pc # "none"]
    /\ UNCHANGED <<kind, queue, worker, final, kept, attached, endLost>>

\* _sweep_turns, STREAM_RETAIN_SECONDS after the end.
Sweep ==
    /\ kept /\ final
    /\ kept' = FALSE
    /\ UNCHANGED <<kind, queue, worker, final, attached, handler, viewer, drops, endLost>>

-------------------------------------------------------------------------------
WorkerStep == (\E k \in Kinds : Emit(k)) \/ Return \/ Put \/ Evict

HandlerStep(v) ==
    Read(v) \/ Deliver(v) \/ Lose(v) \/ FailWrite(v) \/ FailKeepalive(v)

Next ==
    \/ WorkerStep
    \/ \E v \in Viewers : Connect(v) \/ Answer(v) \/ HandlerStep(v)
    \/ \E v \in Viewers, to \in {"retry", "away"} : Drop(v, to)
    \/ Sweep

Spec == Init /\ [][Next]_vars

\* Threads run; the turn ends (run_turn has deadlines); a browser whose
\* EventSource is reconnecting does connect; TCP reports a lost connection in
\* the end.  Nothing obliges a viewer to come, and nothing the sweep to run.
Fairness ==
    /\ WF_vars(WorkerStep)
    /\ \A v \in Viewers :
          /\ WF_vars(HandlerStep(v))
          /\ WF_vars(viewer[v].pc = "retry" /\ Connect(v))
          /\ WF_vars(Answer(v))

FairSpec == Spec /\ Fairness

-------------------------------------------------------------------------------
Held == {handler[v].frame : v \in {u \in Viewers : handler[u].pc = "write"}}

Got == UNION {ToSet(viewer[v].got) : v \in Viewers}

\* The stream feeds one connection at a time, though a viewer comes back before
\* the handler of its lost connection has noticed, and others try meanwhile.
OneReader ==
    /\ \A u, v \in Viewers :
          handler[u].pc # "none" /\ handler[v].pc # "none" => u = v
    /\ \A v \in Viewers : handler[v].pc # "none" => attached

\* Over all its connections a page is shown frames in the order the worker
\* made them, and no frame is shown by two pages.
InOrder ==
    /\ \A v \in Viewers : \A i, j \in DOMAIN viewer[v].got :
          i < j => viewer[v].got[i] < viewer[v].got[j]
    /\ \A u, v \in Viewers :
          u # v => ToSet(viewer[u].got) \cap ToSet(viewer[v].got) = {}

\* While the turn is in App.turns, its end can be learned: the terminal frame
\* waits in the queue or is in a handler's hands, or the stream stays attached,
\* so that the next request is answered with the final payload.
EndCanBeRead ==
    \/ worker \in {"put", "evict"}
    \/ \E n \in ToSet(queue) \cup Held : IsEnd(n)
    \/ attached

\* So it is, whatever is evicted and whoever comes and goes, until a write of a
\* terminal frame fails.
EndIsReachable == final /\ kept /\ ~endLost => EndCanBeRead

\* A page that watches learns how the turn ended, or loads the conversation as
\* it is then, unless that write failed.
ViewerLearnsTheEnd ==
    \A v \in Viewers :
        viewer[v].pc \in {"open", "retry"}
        ~> viewer[v].pc \in {"ended", "reloaded", "away"} \/ endLost

(* What the code's comments say, and the code does not keep.               *)

\* "The browser's automatic EventSource reconnect can re-attach and still receive
\* the remaining (including terminal) frames" (detach_turn_stream).  The terminal
\* frame whose write fails has left the queue, and is not written again.
EndIsNeverLost == final /\ kept => EndCanBeRead

\* "The server releases the attachment on a broken connection so the reconnect can
\* resume the stream" (uzStreamLiveTurn): while the turn goes on, no browser is
\* refused because of its own lost connection.
ReconnectResumes ==
    [][\A v \in Viewers :
          viewer[v].pc = "retry" /\ viewer'[v].pc = "refused" /\ kept
          => final \/ handler[v].pc = "none"]_vars
===============================================================================
