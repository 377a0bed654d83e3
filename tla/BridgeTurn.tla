------------------------------ MODULE BridgeTurn ------------------------------
(***************************************************************************)
(* One turn of the model: run_turn (pi_mono.py) in the service, the bridge *)
(* it starts (pi-mono-bridge.mjs) and the pi process the bridge starts.    *)
(* pi writes lines, which the bridge turns into frames; the driver reads   *)
(* frames until a terminal one or the end of the pipe, while its watchdog  *)
(* looks every half second whether the operator stopped the turn or        *)
(* nothing has come for too long, and kills the bridge.                    *)
(*                                                                         *)
(* A step is one read or write of a pipe with what follows it up to the    *)
(* next one, one look of the watchdog, one thing it does after a look.     *)
(* A line of pi and a frame stand for what their reader does with them.    *)
(***************************************************************************)
EXTENDS Naturals, Sequences

CONSTANTS
    MaxLines,  \* bound on the lines of pi
    MaxCalls   \* max_tool_calls; a bridge forwards one call more (a bound)

ASSUME BoundsAssumption == MaxLines \in Nat /\ MaxCalls \in Nat

VARIABLES
    pi,        \* the pi process: is it up, what did it say, how did it exit
    lines,     \* its standard output that the bridge has not read
    bridge,    \* the bridge process: where it is, what it remembers; whether
               \* the watchdog killed it (an observation)
    frames,    \* its standard output that the driver has not read
    driver,    \* the thread in run_turn
    inFlight,  \* tool_in_flight
    recent,    \* last_activity is less than the deadline ago
    dog,       \* the watchdog thread
    timedOut, cancelled,  \* the events it sets
    cancel,    \* cancel_event, set by stop_turn
    deadline,  \* whether there is one: max_turn_seconds may be 0
    sent,      \* the first terminal frame the bridge wrote (an observation)
    active     \* something happened, or a tool ran, within the deadline (an observation)

driving == <<driver, inFlight>>
watching == <<dog, timedOut, cancelled>>
world == <<cancel, deadline>>
vars == <<pi, lines, bridge, frames, driving, recent, watching, world, sent, active>>

-------------------------------------------------------------------------------
(* What a line of pi does to the bridge:                                   *)
(*   delta    text is added (message_update)                               *)
(*   answer   a finished message (message_end, turn_end)                   *)
(*   failure  a message that ended in an error                             *)
(*   retry    pi starts again after an error (auto_retry_start)            *)
(*   tool     pi runs a tool of its own                                    *)
(*   end      agent_end, or auto_retry_end without success (a text or an   *)
(*            error that comes with it is an answer or a failure before it)*)
(*   broken   an error event                                               *)
Lines == {"delta", "answer", "failure", "retry", "tool", "end", "broken"}

Terminal == {"final", "error"}

Outcomes == {"none", "final", "error", "stopped", "timeout", "exited", "failed"}

PiRecord ==
    [up : BOOLEAN, said : 0..MaxLines, failing : BOOLEAN, over : BOOLEAN,
     exit : {"none", "good", "bad"}]

BridgeRecord ==
    [pc : {"start", "run", "gone"}, text : BOOLEAN, error : BOOLEAN, ended : BOOLEAN,
     asking : BOOLEAN, asked : 0..MaxCalls + 1, killed : BOOLEAN]

DriverRecord ==
    [pc : {"start", "read", "handle", "callback", "answer", "close", "done"},
     frame : {"none", "progress", "call"} \cup Terminal, calls : Nat, outcome : Outcomes]

TypeOK ==
    /\ pi \in PiRecord /\ lines \in Seq(Lines)
    /\ bridge \in BridgeRecord /\ frames \in Seq({"progress", "call"} \cup Terminal)
    /\ driver \in DriverRecord
    /\ dog \in {"wait", "stop", "late", "kill", "off"}
    /\ {inFlight, recent, timedOut, cancelled, cancel, deadline, active} \subseteq BOOLEAN
    /\ sent \in {"none"} \cup Terminal

Init ==
    /\ pi = [up |-> FALSE, said |-> 0, failing |-> FALSE, over |-> FALSE, exit |-> "none"]
    /\ lines = <<>> /\ frames = <<>>
    /\ bridge = [pc |-> "start", text |-> FALSE, error |-> FALSE, ended |-> FALSE,
                 asking |-> FALSE, asked |-> 0, killed |-> FALSE]
    /\ driver = [pc |-> "start", frame |-> "none", calls |-> 0, outcome |-> "none"]
    /\ inFlight = FALSE /\ recent = TRUE
    /\ dog = "wait" /\ timedOut = FALSE /\ cancelled = FALSE
    /\ cancel = FALSE /\ deadline \in BOOLEAN
    /\ sent = "none" /\ active = TRUE

-------------------------------------------------------------------------------
(* pi.                                                                     *)

\* Nothing follows its last word.
PiSays(l) ==
    /\ pi.up /\ ~pi.over /\ pi.said < MaxLines
    /\ pi' = [pi EXCEPT !.said = @ + 1,
                        !.over = l \in {"end", "broken"},
                        !.failing = CASE l = "failure" -> TRUE
                                      [] l \in {"answer", "retry"} -> FALSE
                                      [] OTHER -> @]
    /\ lines' = Append(lines, l)
    /\ UNCHANGED <<bridge, frames, driving, recent, watching, world, sent, active>>

PiExits(how) ==
    /\ pi.up
    /\ pi' = [pi EXCEPT !.up = FALSE, !.exit = how]
    /\ UNCHANGED <<lines, bridge, frames, driving, recent, watching, world, sent, active>>

-------------------------------------------------------------------------------
(* The bridge.                                                             *)

\* send, of which the first terminal frame is noted.
Send(f) ==
    /\ frames' = Append(frames, f)
    /\ sent' = IF sent = "none" /\ f \in Terminal THEN f ELSE sent

\* finish: an error after the last answer wins over the text.
Verdict == IF bridge.error THEN "error" ELSE "final"

\* The start message has come: pi is started, or cannot be.
Spawn ==
    /\ bridge.pc = "start" /\ driver.pc # "start"
    /\ \/ /\ bridge' = [bridge EXCEPT !.pc = "run"]
          /\ pi' = [pi EXCEPT !.up = TRUE]
          /\ UNCHANGED <<frames, sent>>
       \/ /\ bridge' = [bridge EXCEPT !.pc = "gone"]
          /\ Send("error")
          /\ UNCHANGED pi
    /\ UNCHANGED <<lines, driving, recent, watching, world, active>>

\* What the line changes in the bridge's memory.
Noted(l) ==
    CASE l = "delta"   -> [bridge EXCEPT !.text = TRUE]
      [] l = "answer"  -> [bridge EXCEPT !.text = TRUE, !.error = FALSE]
      [] l = "failure" -> [bridge EXCEPT !.error = TRUE]
      [] l = "retry"   -> [bridge EXCEPT !.text = FALSE, !.error = FALSE]
      [] l = "end"     -> [bridge EXCEPT !.ended = TRUE]
      [] l = "broken"  -> [bridge EXCEPT !.ended = TRUE, !.pc = "gone"]
      [] OTHER         -> bridge

Listening == bridge.pc = "run" /\ ~bridge.asking

\* One line of pi.
Line ==
    /\ Listening /\ lines # <<>>
    /\ LET l == Head(lines) IN
          /\ bridge' = Noted(l)
          /\ CASE l \in {"delta", "tool"}            -> Send("progress")
               [] l = "end" /\ ~bridge.ended         -> Send(Verdict)
               [] l = "broken"                       -> Send("error")
               [] OTHER                              -> UNCHANGED <<frames, sent>>
    /\ lines' = Tail(lines)
    /\ UNCHANGED <<pi, driving, recent, watching, world, active>>

\* pi has exited.  The event may come before its last lines are read; the bridge
\* then exits without them.
PiGone ==
    /\ Listening /\ pi.exit # "none"
    /\ bridge' = [bridge EXCEPT !.pc = "gone", !.ended = TRUE]
    /\ IF bridge.ended THEN UNCHANGED <<frames, sent>>
       ELSE Send(IF pi.exit = "good" \/ bridge.text THEN Verdict ELSE "error")
    /\ UNCHANGED <<pi, lines, driving, recent, watching, world, active>>

\* The bridge's own deadline, later than the driver's, and a day if that has none.
PiSilent ==
    /\ Listening /\ pi.up
    /\ deadline => ~recent
    /\ pi' = [pi EXCEPT !.up = FALSE, !.exit = "bad"]
    /\ IF bridge.ended THEN UNCHANGED <<bridge, frames, sent>>
       ELSE bridge' = [bridge EXCEPT !.pc = "gone", !.ended = TRUE] /\ Send("error")
    /\ UNCHANGED <<lines, driving, recent, watching, world, active>>

\* The protocol lets a bridge forward tool calls and wait for each answer.  Those
\* of the tests do; the one that is shipped leaves the tools to pi.
Forward ==
    /\ Listening /\ ~bridge.ended /\ bridge.asked <= MaxCalls
    /\ bridge' = [bridge EXCEPT !.asking = TRUE, !.asked = @ + 1]
    /\ Send("call")
    /\ UNCHANGED <<pi, lines, driving, recent, watching, world, active>>

\* It dies with nothing said, for whatever reason.
BridgeDies ==
    /\ bridge.pc # "gone"
    /\ bridge' = [bridge EXCEPT !.pc = "gone"]
    /\ UNCHANGED <<pi, lines, frames, driving, recent, watching, world, sent, active>>

-------------------------------------------------------------------------------
(* The driver.                                                             *)

Touched == recent' = TRUE /\ active' = TRUE

Concludes(outcome) == driver' = [driver EXCEPT !.pc = "close", !.outcome = outcome]

\* The start message; a bridge that is gone does not take it.
Begin ==
    /\ driver.pc = "start"
    /\ IF bridge.pc = "gone" THEN Concludes("failed") ELSE driver' = [driver EXCEPT !.pc = "read"]
    /\ UNCHANGED <<pi, lines, bridge, frames, inFlight, recent, watching, world, sent, active>>

\* readline
ReadFrame ==
    /\ driver.pc = "read" /\ frames # <<>>
    /\ driver' = [driver EXCEPT !.pc = "handle", !.frame = Head(frames)]
    /\ frames' = Tail(frames)
    /\ UNCHANGED <<pi, lines, bridge, inFlight, recent, watching, world, sent, active>>

\* What the end of the pipe means.
EndOfPipe ==
    CASE cancelled -> "stopped"
      [] timedOut /\ ~cancelled -> "timeout"
      [] OTHER -> "exited"

\* Mutant: the process is looked at instead of the pipe.
ReadEnd_polled ==
    /\ driver.pc = "read" /\ bridge.pc = "gone"
    /\ Concludes(EndOfPipe)
    /\ UNCHANGED <<pi, lines, bridge, frames, inFlight, recent, watching, world, sent, active>>

ReadEnd ==
    /\ driver.pc = "read" /\ frames = <<>> /\ bridge.pc = "gone"
    /\ Concludes(EndOfPipe)
    /\ UNCHANGED <<pi, lines, bridge, frames, inFlight, recent, watching, world, sent, active>>

Handle ==
    /\ driver.pc = "handle"
    /\ Touched
    /\ \/ /\ driver.frame \in Terminal
          /\ Concludes(driver.frame)
          /\ UNCHANGED inFlight
       \/ /\ driver.frame = "progress"
          /\ driver' = [driver EXCEPT !.pc = "read"]
          /\ UNCHANGED inFlight
       \/ /\ driver.frame = "call"
          /\ inFlight' = (driver.calls < MaxCalls)
          /\ driver' = [driver EXCEPT !.calls = @ + 1,
                                      !.pc = IF driver.calls < MaxCalls THEN "callback" ELSE "answer"]
    /\ UNCHANGED <<pi, lines, bridge, frames, watching, world, sent>>

\* Mutant: the flag stays when the callback raises.
CallbackEnds_raised ==
    /\ driver.pc = "callback"
    /\ inFlight' \in BOOLEAN
    /\ driver' = [driver EXCEPT !.pc = "answer"]
    /\ active' = TRUE
    /\ UNCHANGED <<pi, lines, bridge, frames, recent, watching, world, sent>>

\* on_tool_call returns, or raises.
CallbackEnds ==
    /\ driver.pc = "callback"
    /\ inFlight' = FALSE
    /\ driver' = [driver EXCEPT !.pc = "answer"]
    /\ active' = TRUE
    /\ UNCHANGED <<pi, lines, bridge, frames, recent, watching, world, sent>>

\* _touch, and the result is written: a bridge that is gone makes that fail.
Reply ==
    /\ driver.pc = "answer"
    /\ Touched
    /\ IF bridge.pc = "gone"
       THEN Concludes("failed") /\ UNCHANGED bridge
       ELSE /\ driver' = [driver EXCEPT !.pc = "read"]
            /\ bridge' = [bridge EXCEPT !.asking = FALSE]
    /\ UNCHANGED <<pi, lines, frames, inFlight, watching, world, sent>>

\* The watchdog is told to end, and a bridge that does not exit in time is killed.
Close ==
    /\ driver.pc = "close"
    /\ driver' = [driver EXCEPT !.pc = "done"]
    /\ bridge' = [bridge EXCEPT !.pc = "gone"]
    /\ dog' = "off"
    /\ UNCHANGED <<pi, lines, frames, inFlight, recent, timedOut, cancelled, world, sent, active>>

-------------------------------------------------------------------------------
(* The watchdog and the operator.                                          *)

\* Mutant: a deadline of 0 is one.
Look_always ==
    /\ dog = "wait"
    /\ \/ cancel /\ dog' = "stop"
       \/ ~cancel /\ ~inFlight /\ ~recent /\ dog' = "late"
    /\ UNCHANGED <<pi, lines, bridge, frames, driving, recent, timedOut, cancelled, world,
                   sent, active>>

\* One round: the operator's stop is looked at before the deadline.
Look ==
    /\ dog = "wait"
    /\ \/ cancel /\ dog' = "stop"
       \/ ~cancel /\ deadline /\ ~inFlight /\ ~recent /\ dog' = "late"
    /\ UNCHANGED <<pi, lines, bridge, frames, driving, recent, timedOut, cancelled, world,
                   sent, active>>

\* The event is set before the bridge is killed, so that the end of the pipe finds it.
Mark ==
    /\ \/ dog = "stop" /\ cancelled' = TRUE /\ UNCHANGED timedOut
       \/ dog = "late" /\ timedOut' = TRUE /\ UNCHANGED cancelled
    /\ dog' = "kill"
    /\ UNCHANGED <<pi, lines, bridge, frames, driving, recent, world, sent, active>>

\* What is in the pipe stays there; pi is not killed.
Kill ==
    /\ dog = "kill"
    /\ dog' = "off"
    /\ bridge' = [bridge EXCEPT !.pc = "gone", !.killed = bridge.pc # "gone"]
    /\ UNCHANGED <<pi, lines, frames, driving, recent, timedOut, cancelled, world, sent, active>>

\* stop_turn, while the turn is not done.
Stop ==
    /\ ~cancel /\ driver.pc # "done"
    /\ cancel' = TRUE
    /\ UNCHANGED <<pi, lines, bridge, frames, driving, recent, watching, deadline, sent, active>>

\* The deadline passes since last_activity was written.
Quiet ==
    /\ recent
    /\ recent' = FALSE
    /\ active' = (driver.pc = "callback")
    /\ UNCHANGED <<pi, lines, bridge, frames, driving, watching, world, sent>>

\* The turn is over, and what pi still does concerns nobody.
Over == driver.pc = "done" /\ UNCHANGED vars

-------------------------------------------------------------------------------
PiStep == (\E l \in Lines : PiSays(l)) \/ (\E how \in {"good", "bad"} : PiExits(how))

BridgeStep == Spawn \/ Line \/ PiGone \/ PiSilent \/ Forward \/ BridgeDies

DriverStep == Begin \/ ReadFrame \/ ReadEnd \/ Handle \/ CallbackEnds \/ Reply \/ Close

DogStep == Look \/ Mark \/ Kill

Next == PiStep \/ BridgeStep \/ DriverStep \/ DogStep \/ Stop \/ Quiet \/ Over

Spec == Init /\ [][Next]_vars

\* Threads run, time passes, a callback returns (tools have deadlines).  Nothing
\* is assumed of pi and of the bridge, which may hang.
Fairness == WF_vars(DriverStep) /\ WF_vars(DogStep) /\ WF_vars(Quiet)

FairSpec == Spec /\ Fairness

-------------------------------------------------------------------------------
(* Properties.                                                             *)

\* The turn ends as the bridge said it does: the first terminal frame decides, also
\* when the bridge is killed with the frame still in the pipe, and an outcome of the
\* driver's own making means that there was none.
FirstFrameDecides ==
    /\ driver.outcome \in Terminal => sent = driver.outcome
    /\ driver.outcome \in {"stopped", "timeout", "exited"} => sent = "none"

\* The reason given is the one there was: a bridge the watchdog killed is not said
\* to have exited, a turn is stopped only by its operator, and without a deadline
\* none times out ("a non-positive value disables the watchdog", run_turn).
ReasonIsTrue ==
    /\ driver.outcome = "exited" => ~bridge.killed
    /\ driver.outcome = "stopped" => cancel
    /\ driver.outcome = "timeout" => deadline

\* Whatever pi and the bridge do, hang included, a turn ends if it has a deadline or
\* an operator stops it.
TurnEnds == (deadline \/ cancel) ~> driver.pc = "done"

\* A success is not reported of a turn whose last word was an error ("preferring the
\* stale text would hide the failure", pi-mono-bridge.mjs finish).  The code does not
\* keep this: the exit of pi may overtake its last lines.
FailureIsShown ==
    driver.outcome = "final" => ~pi.failing

\* "A long but *active* turn ... is never killed prematurely" (run_turn): a look
\* that dooms the turn finds that nothing happened within the deadline.  The code does
\* not keep this: tool_in_flight is cleared before last_activity is written.
ActiveTurnIsSpared == [][dog # "late" /\ dog' = "late" => ~active]_vars
===============================================================================
