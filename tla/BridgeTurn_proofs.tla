--------------------------- MODULE BridgeTurn_proofs ---------------------------
(***************************************************************************)
(* The outcome of a turn is the one there was, for any number of lines of  *)
(* pi and any budget.  The argument: while the driver has not concluded,   *)
(* the first terminal frame of the bridge is the next one that it will     *)
(* handle (NextTerminal); the events of the watchdog have their reasons    *)
(* (Reasons) and are set before the bridge is killed (MarkedFirst); what   *)
(* was concluded stays true because a bridge that is gone says nothing     *)
(* (Concluded).                                                            *)
(***************************************************************************)
EXTENDS BridgeTurn, SequenceTheorems, TLAPS

Quietly(s) == \A n \in 1..Len(s) : s[n] \notin Terminal

\* f is the first terminal frame of s.
Leads(s, f) ==
    \E n \in 1..Len(s) : s[n] = f /\ \A m \in 1..(n - 1) : s[m] \notin Terminal

Open == driver.outcome = "none"

NextTerminal ==
    Open =>
        \/ sent = "none" /\ Quietly(frames) /\ (driver.pc = "handle" => driver.frame \notin Terminal)
        \/ sent # "none" /\ driver.pc = "handle" /\ driver.frame = sent
        \/ /\ sent # "none" /\ Leads(frames, sent)
           /\ driver.pc = "handle" => driver.frame \notin Terminal

Concluded ==
    /\ driver.outcome = "none" <=> driver.pc \notin {"close", "done"}
    /\ driver.outcome \in Terminal => sent = driver.outcome
    /\ driver.outcome \in {"stopped", "timeout", "exited"} => sent = "none" /\ bridge.pc = "gone"
    /\ driver.outcome = "exited" => ~bridge.killed

Reasons ==
    /\ dog = "stop" \/ cancelled => cancel
    /\ dog = "late" \/ timedOut => deadline
    /\ driver.outcome = "stopped" => cancel
    /\ driver.outcome = "timeout" => deadline

MarkedFirst ==
    /\ dog = "kill" => timedOut \/ cancelled
    /\ bridge.killed => bridge.pc = "gone" /\ (timedOut \/ cancelled)

IInv == TypeOK /\ NextTerminal /\ Concluded /\ Reasons /\ MarkedFirst

-------------------------------------------------------------------------------
LEMMA InitInv == Init => IInv
  <1>. SUFFICES ASSUME Init PROVE IInv
    OBVIOUS
  <1>1. TypeOK
    <2>1. 0 \in 0..MaxLines /\ 0 \in 0..MaxCalls + 1
      BY BoundsAssumption DEF BoundsAssumption
    <2>2. /\ pi \in PiRecord /\ lines \in Seq(Lines)
          /\ bridge \in BridgeRecord /\ frames \in Seq({"progress", "call"} \cup Terminal)
      BY <2>1 DEF Init, PiRecord, BridgeRecord
    <2>3. driver \in DriverRecord
      BY <2>1 DEF Init, DriverRecord, Outcomes
    <2>4. QED
      BY <2>2, <2>3 DEF Init, TypeOK
  <1>2. NextTerminal
    BY DEF Init, NextTerminal, Quietly
  <1>3. QED
    BY <1>1, <1>2 DEF Init, IInv, Concluded, Reasons, MarkedFirst, Terminal

-------------------------------------------------------------------------------
(* The types, one step per action.                                         *)

Frames == {"progress", "call"} \cup Terminal

\* What is sent is a frame, and at most the first terminal one is noted.
LEMMA SendTypes ==
  ASSUME TypeOK, NEW f \in Frames, Send(f)
  PROVE  frames' \in Seq(Frames) /\ sent' \in {"none"} \cup Terminal
  BY DEF TypeOK, Send, Frames

LEMMA ProcessTypes == TypeOK /\ (PiStep \/ BridgeStep) => TypeOK'
  <1>. SUFFICES ASSUME TypeOK, PiStep \/ BridgeStep PROVE TypeOK'
    OBVIOUS
  <1>. USE DEF TypeOK, driving, watching, world
  <1>1. ASSUME NEW l \in Lines, PiSays(l) PROVE TypeOK'
    <2>1. lines' \in Seq(Lines)
      BY <1>1, AppendProperties DEF PiSays
    <2>2. pi.said + 1 \in 0..MaxLines
      BY <1>1, BoundsAssumption DEF PiSays, PiRecord
    <2>3. pi' \in PiRecord
      <3>1. (CASE l = "failure" -> TRUE
               [] l \in {"answer", "retry"} -> FALSE
               [] OTHER -> pi.failing) \in BOOLEAN
        BY DEF PiRecord
      <3>2. (l \in {"end", "broken"}) \in BOOLEAN
        OBVIOUS
      <3>3. \E e, o \in BOOLEAN :
              pi' = [pi EXCEPT !.said = pi.said + 1, !.over = o, !.failing = e]
        BY ONLY <3>1, <3>2, <1>1 DEF PiSays
      <3>4. QED
        BY <3>3, <2>2 DEF PiRecord
    <2>4. QED
      BY <1>1, <2>1, <2>3 DEF PiSays
  <1>2. ASSUME NEW how \in {"good", "bad"}, PiExits(how) PROVE TypeOK'
    BY <1>2 DEF PiExits, PiRecord
  <1>3. CASE Spawn
    <2>1. bridge' \in BridgeRecord /\ pi' \in PiRecord
      BY <1>3 DEF Spawn, BridgeRecord, PiRecord
    <2>2. frames' \in Seq(Frames) /\ sent' \in {"none"} \cup Terminal
      BY <1>3, SendTypes DEF Spawn, Frames, Terminal
    <2>3. QED
      BY <1>3, <2>1, <2>2 DEF Spawn, Frames
  <1>4. CASE Line
    <2>1. Head(lines) \in Lines /\ lines' \in Seq(Lines)
      BY <1>4, HeadTailProperties DEF Line
    <2>2. bridge' \in BridgeRecord
      BY <1>4, <2>1 DEF Line, Noted, BridgeRecord, Lines
    <2>3. Verdict \in Frames /\ "progress" \in Frames /\ "error" \in Frames
      BY DEF Verdict, Frames, Terminal
    <2>4. \/ \E f \in Frames : Send(f)
          \/ UNCHANGED <<frames, sent>>
      BY <1>4, <2>3 DEF Line
    <2>5. frames' \in Seq(Frames) /\ sent' \in {"none"} \cup Terminal
      BY <2>4, SendTypes DEF Frames
    <2>6. QED
      BY <1>4, <2>1, <2>2, <2>5 DEF Line, Frames
  <1>5. CASE PiGone
    <2>3. Verdict \in Frames /\ "error" \in Frames
      BY DEF Verdict, Frames, Terminal
    <2>4. \/ \E f \in Frames : Send(f)
          \/ UNCHANGED <<frames, sent>>
      BY <1>5, <2>3 DEF PiGone
    <2>5. frames' \in Seq(Frames) /\ sent' \in {"none"} \cup Terminal
      BY <2>4, SendTypes DEF Frames
    <2>6. QED
      BY <1>5, <2>5 DEF PiGone, Frames, BridgeRecord
  <1>6. CASE PiSilent
    <2>4. \/ Send("error")
          \/ UNCHANGED <<frames, sent>>
      BY <1>6 DEF PiSilent
    <2>5. frames' \in Seq(Frames) /\ sent' \in {"none"} \cup Terminal
      BY <2>4, SendTypes DEF Frames, Terminal
    <2>6. bridge' \in BridgeRecord /\ pi' \in PiRecord
      BY <1>6 DEF PiSilent, BridgeRecord, PiRecord
    <2>7. QED
      BY <1>6, <2>5, <2>6 DEF PiSilent, Frames
  <1>7. CASE Forward
    <2>1. bridge.asked + 1 \in 0..MaxCalls + 1
      BY <1>7, BoundsAssumption DEF Forward, BridgeRecord
    <2>5. frames' \in Seq(Frames) /\ sent' \in {"none"} \cup Terminal
      BY <1>7, SendTypes DEF Forward, Frames, Terminal
    <2>6. QED
      BY <1>7, <2>1, <2>5 DEF Forward, Frames, BridgeRecord
  <1>8. CASE BridgeDies
    BY <1>8 DEF BridgeDies, BridgeRecord
  <1>9. QED
    BY <1>1, <1>2, <1>3, <1>4, <1>5, <1>6, <1>7, <1>8 DEF PiStep, BridgeStep

\* A frame that does not end the turn.
LEMMA HandledCall ==
  ASSUME TypeOK, Handle, driver.frame \notin Terminal
  PROVE  \E c \in Nat, p \in {"read", "callback", "answer"} :
            driver' = [driver EXCEPT !.calls = c, !.pc = p]
  <1>1. driver.calls \in Nat /\ driver.calls + 1 \in Nat
    BY DEF TypeOK, DriverRecord
  <1>2. ASSUME driver.frame = "progress"
        PROVE  driver' = [driver EXCEPT !.calls = driver.calls, !.pc = "read"]
    BY <1>2 DEF Handle, TypeOK, DriverRecord
  <1>3. ASSUME driver.frame = "call"
        PROVE  \E p \in {"callback", "answer"} :
                  driver' = [driver EXCEPT !.calls = driver.calls + 1, !.pc = p]
    BY <1>3 DEF Handle
  <1>4. QED
    BY <1>1, <1>2, <1>3 DEF Handle

LEMMA ServiceTypes == TypeOK /\ (DriverStep \/ DogStep \/ Stop \/ Quiet) => TypeOK'
  <1>. SUFFICES ASSUME TypeOK, DriverStep \/ DogStep \/ Stop \/ Quiet PROVE TypeOK'
    OBVIOUS
  <1>. USE DEF TypeOK, driving, watching, world
  <1>1. CASE Begin
    BY <1>1 DEF Begin, Concludes, DriverRecord, Outcomes
  <1>2. CASE ReadFrame
    <2>1. Head(frames) \in Frames /\ frames' \in Seq(Frames)
      BY <1>2, HeadTailProperties DEF ReadFrame, Frames
    <2>2. QED
      BY <1>2, <2>1 DEF ReadFrame, DriverRecord, Frames
  <1>3. CASE ReadEnd
    BY <1>3 DEF ReadEnd, Concludes, EndOfPipe, DriverRecord, Outcomes
  <1>4. CASE Handle
    <2>1. driver.frame \in Terminal => driver' \in DriverRecord /\ inFlight' \in BOOLEAN
      BY <1>4 DEF Handle, Concludes, DriverRecord, Outcomes, Terminal
    <2>2. driver.frame \notin Terminal => driver' \in DriverRecord
      BY <1>4, HandledCall DEF DriverRecord
    <2>3. driver.frame = "call" => inFlight' \in BOOLEAN
      <3>1. (driver.calls < MaxCalls) \in BOOLEAN
        OBVIOUS
      <3>2. driver.frame = "call" => inFlight' = (driver.calls < MaxCalls)
        BY <1>4 DEF Handle, Terminal
      <3>3. QED
        BY ONLY <3>1, <3>2
    <2>4. driver.frame = "progress" => inFlight' \in BOOLEAN
      BY <1>4 DEF Handle, Terminal
    <2>5. inFlight' \in BOOLEAN
      BY <1>4, <2>1, <2>3, <2>4 DEF Handle
    <2>6. QED
      BY <1>4, <2>1, <2>2, <2>5 DEF Handle, Touched
  <1>5. CASE CallbackEnds
    BY <1>5 DEF CallbackEnds, DriverRecord
  <1>6. CASE Reply
    BY <1>6 DEF Reply, Touched, Concludes, DriverRecord, BridgeRecord, Outcomes
  <1>7. CASE Close
    BY <1>7 DEF Close, DriverRecord, BridgeRecord
  <1>8. CASE Look \/ Mark \/ Stop \/ Quiet
    BY <1>8 DEF Look, Mark, Stop, Quiet
  <1>9. CASE Kill
    BY <1>9 DEF Kill, BridgeRecord
  <1>10. QED
    BY <1>1, <1>2, <1>3, <1>4, <1>5, <1>6, <1>7, <1>8, <1>9 DEF DriverStep, DogStep

-------------------------------------------------------------------------------
(* Frames that are appended, and frames that are read.                     *)

LEMMA QuietAppend ==
  ASSUME NEW s \in Seq(Frames), NEW f \in Frames, Quietly(s)
  PROVE  IF f \in Terminal THEN Leads(Append(s, f), f) ELSE Quietly(Append(s, f))
  <1>1. /\ Len(Append(s, f)) = Len(s) + 1 /\ Len(s) \in Nat
        /\ \A n \in 1..Len(s) : Append(s, f)[n] = s[n]
        /\ Append(s, f)[Len(s) + 1] = f
    BY AppendProperties
  <1>2. CASE f \in Terminal
    <2>1. Len(s) + 1 \in 1..Len(Append(s, f)) /\ (Len(s) + 1) - 1 = Len(s)
      BY <1>1
    <2>2. \A m \in 1..((Len(s) + 1) - 1) : Append(s, f)[m] \notin Terminal
      BY <1>1, <2>1 DEF Quietly
    <2>3. QED
      BY <1>1, <1>2, <2>1, <2>2 DEF Leads
  <1>3. CASE f \notin Terminal
    <2>1. \A n \in 1..(Len(s) + 1) : n \in 1..Len(s) \/ n = Len(s) + 1
      BY <1>1
    <2>2. QED
      BY <1>1, <1>3, <2>1 DEF Quietly
  <1>4. QED
    BY <1>2, <1>3

LEMMA LeadsAppend ==
  ASSUME NEW s \in Seq(Frames), NEW f \in Frames, NEW t, Leads(s, t)
  PROVE  Leads(Append(s, f), t)
  <1>1. /\ Len(Append(s, f)) = Len(s) + 1 /\ Len(s) \in Nat
        /\ \A n \in 1..Len(s) : Append(s, f)[n] = s[n]
    BY AppendProperties
  <1>2. PICK n \in 1..Len(s) : s[n] = t /\ \A m \in 1..(n - 1) : s[m] \notin Terminal
    BY DEF Leads
  <1>3. n \in 1..Len(Append(s, f)) /\ \A m \in 1..(n - 1) : m \in 1..Len(s)
    BY <1>1
  <1>4. QED
    BY <1>1, <1>2, <1>3 DEF Leads

LEMMA QuietTail ==
  ASSUME NEW s \in Seq(Frames), s # <<>>, Quietly(s)
  PROVE  Head(s) \notin Terminal /\ Quietly(Tail(s))
  <1>1. /\ Len(s) \in Nat \ {0} /\ Head(s) = s[1] /\ Len(Tail(s)) = Len(s) - 1
        /\ \A n \in 1..(Len(s) - 1) : Tail(s)[n] = s[n + 1]
    BY HeadTailProperties, EmptySeq
  <1>2. 1 \in 1..Len(s) /\ \A n \in 1..(Len(s) - 1) : n + 1 \in 1..Len(s)
    BY <1>1
  <1>3. QED
    BY <1>1, <1>2 DEF Quietly

LEMMA LeadsTail ==
  ASSUME NEW s \in Seq(Frames), s # <<>>, NEW t, Leads(s, t)
  PROVE  Head(s) = t \/ (Head(s) \notin Terminal /\ Leads(Tail(s), t))
  <1>1. /\ Len(s) \in Nat \ {0} /\ Head(s) = s[1] /\ Len(Tail(s)) = Len(s) - 1
        /\ \A n \in 1..(Len(s) - 1) : Tail(s)[n] = s[n + 1]
    BY HeadTailProperties, EmptySeq
  <1>2. PICK n \in 1..Len(s) : s[n] = t /\ \A m \in 1..(n - 1) : s[m] \notin Terminal
    BY DEF Leads
  <1>3. CASE n = 1
    BY <1>1, <1>2, <1>3
  <1>4. CASE n # 1
    <2>1. n - 1 \in 1..Len(Tail(s)) /\ (n - 1) + 1 = n /\ 1 \in 1..(n - 1)
      BY <1>1, <1>4
    <2>2. \A m \in 1..((n - 1) - 1) : m \in 1..(Len(s) - 1) /\ m + 1 \in 1..(n - 1)
      BY <1>1, <1>4
    <2>3. Tail(s)[n - 1] = t
      BY <1>1, <1>2, <2>1
    <2>4. \A m \in 1..((n - 1) - 1) : Tail(s)[m] \notin Terminal
      BY <1>1, <1>2, <2>2
    <2>5. Leads(Tail(s), t)
      BY <2>1, <2>3, <2>4 DEF Leads
    <2>6. QED
      BY <1>1, <1>2, <2>1, <2>5
  <1>5. QED
    BY <1>3, <1>4

LEMMA NothingLeads == ASSUME NEW t, NEW s, s = <<>> PROVE ~Leads(s, t)
  BY DEF Leads

-------------------------------------------------------------------------------
(* The first terminal frame is the next one that is handled.               *)

\* A step of the bridge: it sends a frame, or none.
LEMMA SendKeeps ==
  ASSUME TypeOK, NextTerminal, UNCHANGED driver,
         (\E f \in Frames : Send(f)) \/ UNCHANGED <<frames, sent>>
  PROVE  NextTerminal'
  <1>1. CASE UNCHANGED <<frames, sent>>
    BY <1>1 DEF NextTerminal, Open
  <1>2. ASSUME NEW f \in Frames, Send(f) PROVE NextTerminal'
    <2>1. frames \in Seq(Frames) /\ frames' = Append(frames, f) /\ "none" \notin Terminal
      BY <1>2 DEF TypeOK, Send, Frames, Terminal
    <2>2. CASE sent # "none"
      <3>1. sent' = sent
        BY <1>2, <2>2 DEF Send
      <3>2. Leads(frames, sent) => Leads(frames', sent)
        BY <2>1, LeadsAppend
      <3>3. QED
        BY <2>2, <3>1, <3>2 DEF NextTerminal, Open
    <2>3. CASE sent = "none" /\ f \notin Terminal
      <3>1. sent' = "none"
        BY <1>2, <2>3 DEF Send
      <3>2. Quietly(frames) => Quietly(frames')
        BY <2>1, <2>3, QuietAppend
      <3>3. QED
        BY <2>3, <3>1, <3>2 DEF NextTerminal, Open
    <2>4. CASE sent = "none" /\ f \in Terminal
      <3>1. sent' = f /\ f # "none"
        BY <1>2, <2>1, <2>4 DEF Send
      <3>2. Quietly(frames) => Leads(frames', f)
        BY <2>1, <2>4, QuietAppend
      <3>3. QED
        BY <2>4, <3>1, <3>2 DEF NextTerminal, Open
    <2>5. QED
      BY <2>2, <2>3, <2>4
  <1>3. QED
    BY <1>1, <1>2

\* What every step of pi and of the bridge does to the rest.
LEMMA ProcessFrames ==
  ASSUME TypeOK, PiStep \/ BridgeStep
  PROVE  /\ UNCHANGED <<driver, watching, world>>
         /\ (\E f \in Frames : Send(f)) \/ UNCHANGED <<frames, sent>>
         /\ bridge.pc = "gone" => UNCHANGED <<frames, sent, bridge>>
         /\ bridge'.killed = bridge.killed
  <1>. USE DEF driving, watching, world, TypeOK, BridgeRecord, Listening
  <1>1. Verdict \in Frames /\ {"progress", "call", "error"} \subseteq Frames
    BY DEF Verdict, Frames, Terminal
  <1>2. CASE PiStep
    BY <1>2 DEF PiStep, PiSays, PiExits
  <1>3. CASE Spawn
    BY <1>1, <1>3 DEF Spawn
  <1>4. CASE Line
    <2>1. Noted(Head(lines)).killed = bridge.killed
      <3>1. Head(lines) \in Lines
        BY <1>4, HeadTailProperties DEF Line
      <3>2. QED
        BY <3>1 DEF Noted, Lines
    <2>2. (\E f \in Frames : Send(f)) \/ UNCHANGED <<frames, sent>>
      BY <1>1, <1>4 DEF Line
    <2>3. QED
      BY <1>4, <2>1, <2>2 DEF Line
  <1>5. CASE PiGone
    BY <1>1, <1>5 DEF PiGone
  <1>6. CASE PiSilent
    BY <1>1, <1>6 DEF PiSilent
  <1>7. CASE Forward
    BY <1>1, <1>7 DEF Forward
  <1>8. CASE BridgeDies
    BY <1>8 DEF BridgeDies
  <1>9. QED
    BY <1>2, <1>3, <1>4, <1>5, <1>6, <1>7, <1>8 DEF BridgeStep

LEMMA ProcessStep == IInv /\ (PiStep \/ BridgeStep) => IInv'
  <1>. SUFFICES ASSUME IInv, PiStep \/ BridgeStep PROVE IInv'
    OBVIOUS
  <1>. USE DEF IInv
  <1>1. TypeOK'
    BY ProcessTypes
  <1>2. NextTerminal'
    BY ProcessFrames, SendKeeps
  <1>3. /\ UNCHANGED <<driver, dog, timedOut, cancelled, cancel, deadline>>
        /\ bridge.pc = "gone" => sent' = sent /\ bridge' = bridge
        /\ bridge'.killed = bridge.killed
        /\ sent # "none" => sent' = sent
    BY ProcessFrames DEF watching, world, Send
  <1>4. Concluded' /\ Reasons' /\ MarkedFirst'
    BY <1>3 DEF Concluded, Reasons, MarkedFirst, Terminal
  <1>5. QED
    BY <1>1, <1>2, <1>4

-------------------------------------------------------------------------------
(* The driver, the watchdog and the world.                                 *)

LEMMA DriverKeeps == IInv /\ DriverStep => IInv'
  <1>. SUFFICES ASSUME IInv, DriverStep PROVE IInv'
    OBVIOUS
  <1>. USE DEF IInv
  <1>0. TypeOK'
    BY ServiceTypes
  <1>. USE DEF TypeOK, DriverRecord, BridgeRecord, driving, watching, world, Concludes
  <1>1. CASE Begin
    <2>1. NextTerminal'
      BY <1>1 DEF Begin, NextTerminal, Open, Concluded
    <2>2. QED
      BY <1>0, <1>1, <2>1 DEF Begin, Concluded, Reasons, MarkedFirst, Terminal
  <1>2. CASE ReadFrame
    <2>1. /\ driver.pc = "read" /\ frames \in Seq(Frames) /\ frames # <<>>
          /\ driver'.pc = "handle" /\ driver'.frame = Head(frames)
          /\ driver'.outcome = driver.outcome /\ frames' = Tail(frames) /\ sent' = sent
      BY <1>2 DEF ReadFrame, Frames
    <2>2. CASE sent = "none"
      <3>1. Quietly(frames)
        BY <2>1, <2>2 DEF NextTerminal, Open, Concluded
      <3>2. Head(frames) \notin Terminal /\ Quietly(frames')
        BY <2>1, <3>1, QuietTail
      <3>3. QED
        BY <1>0, <1>2, <2>1, <2>2, <3>2
        DEF ReadFrame, NextTerminal, Open, Concluded, Reasons, MarkedFirst
    <2>3. CASE sent # "none"
      <3>1. Leads(frames, sent)
        BY <2>1, <2>3 DEF NextTerminal, Open, Concluded
      <3>2. Head(frames) = sent \/ (Head(frames) \notin Terminal /\ Leads(frames', sent))
        BY <2>1, <3>1, LeadsTail
      <3>3. QED
        BY <1>0, <1>2, <2>1, <2>3, <3>2
        DEF ReadFrame, NextTerminal, Open, Concluded, Reasons, MarkedFirst
    <2>4. QED
      BY <2>2, <2>3
  <1>3. CASE ReadEnd
    <2>1. /\ driver.pc = "read" /\ frames = <<>> /\ bridge.pc = "gone"
          /\ driver'.pc = "close" /\ driver'.outcome = EndOfPipe
          /\ UNCHANGED <<bridge, frames, watching, world, sent>>
      BY <1>3 DEF ReadEnd
    <2>2. sent = "none"
      BY <2>1, NothingLeads DEF NextTerminal, Open, Concluded
    <2>3. /\ EndOfPipe \in {"stopped", "timeout", "exited"}
          /\ EndOfPipe = "stopped" => cancelled
          /\ EndOfPipe = "timeout" => timedOut
          /\ EndOfPipe = "exited" => ~cancelled /\ ~timedOut
      BY DEF EndOfPipe
    <2>4. NextTerminal'
      BY <2>1, <2>3 DEF NextTerminal, Open
    <2>5. Concluded' /\ Reasons' /\ MarkedFirst'
      BY <2>1, <2>2, <2>3 DEF Concluded, Reasons, MarkedFirst, Terminal
    <2>6. QED
      BY <1>0, <2>4, <2>5
  <1>4. CASE Handle
    <2>1. /\ driver.pc = "handle" /\ UNCHANGED <<bridge, frames, watching, world, sent>>
          /\ driver.frame \in Terminal
                => driver'.pc = "close" /\ driver'.outcome = driver.frame
          /\ driver.frame \notin Terminal
                => driver'.pc \in {"read", "callback", "answer"} /\ driver'.outcome = driver.outcome
      <3>1. driver.pc = "handle" /\ UNCHANGED <<bridge, frames, watching, world, sent>>
        BY <1>4 DEF Handle
      <3>2. CASE driver.frame \in Terminal
        <4>1. driver' = [driver EXCEPT !.pc = "close", !.outcome = driver.frame]
          BY <1>4, <3>2 DEF Handle, Terminal
        <4>2. QED
          BY <3>1, <3>2, <4>1
      <3>3. CASE driver.frame \notin Terminal
        <4>1. \E c \in Nat, p \in {"read", "callback", "answer"} :
                 driver' = [driver EXCEPT !.calls = c, !.pc = p]
          BY <1>4, <3>3, HandledCall DEF Terminal
        <4>2. QED
          BY <3>1, <3>3, <4>1
      <3>4. QED
        BY <3>2, <3>3
    <2>2. driver.outcome = "none"
      BY <2>1 DEF Concluded
    <2>3. CASE driver.frame \in Terminal
      <3>1. sent = driver.frame
        BY <2>1, <2>2, <2>3 DEF NextTerminal, Open
      <3>2. NextTerminal'
        BY <2>1, <2>3 DEF NextTerminal, Open, Terminal
      <3>3. QED
        BY <1>0, <2>1, <2>3, <3>1, <3>2 DEF Concluded, Reasons, MarkedFirst, Terminal
    <2>4. CASE driver.frame \notin Terminal
      <3>1. NextTerminal'
        BY <2>1, <2>2, <2>4 DEF NextTerminal, Open, Terminal
      <3>2. QED
        BY <1>0, <2>1, <2>2, <2>4, <3>1 DEF Concluded, Reasons, MarkedFirst, Terminal
    <2>5. QED
      BY <2>3, <2>4
  <1>5. CASE CallbackEnds
    BY <1>0, <1>5 DEF CallbackEnds, NextTerminal, Open, Concluded, Reasons, MarkedFirst, Terminal
  <1>6. CASE Reply
    <2>1. /\ driver.pc = "answer" /\ UNCHANGED <<frames, watching, world, sent>>
          /\ \/ driver'.pc = "close" /\ driver'.outcome = "failed"
             \/ driver'.pc = "read" /\ driver'.outcome = driver.outcome
          /\ bridge'.pc = bridge.pc /\ bridge'.killed = bridge.killed
      BY <1>6 DEF Reply
    <2>2. QED
      BY <1>0, <2>1 DEF NextTerminal, Open, Concluded, Reasons, MarkedFirst, Terminal
  <1>7. CASE Close
    <2>1. /\ driver.pc = "close" /\ driver'.pc = "done" /\ driver'.outcome = driver.outcome
          /\ bridge'.pc = "gone" /\ bridge'.killed = bridge.killed /\ dog' = "off"
          /\ UNCHANGED <<frames, timedOut, cancelled, world, sent>>
      BY <1>7 DEF Close
    <2>2. QED
      BY <1>0, <2>1 DEF NextTerminal, Open, Concluded, Reasons, MarkedFirst, Terminal
  <1>8. QED
    BY <1>1, <1>2, <1>3, <1>4, <1>5, <1>6, <1>7 DEF DriverStep

LEMMA OtherKeeps == IInv /\ (DogStep \/ Stop \/ Quiet \/ UNCHANGED vars) => IInv'
  <1>. SUFFICES ASSUME IInv, DogStep \/ Stop \/ Quiet \/ UNCHANGED vars PROVE IInv'
    OBVIOUS
  <1>. USE DEF IInv, driving, watching, world
  <1>1. CASE UNCHANGED vars
    BY <1>1 DEF vars, TypeOK, NextTerminal, Open, Concluded, Reasons, MarkedFirst
  <1>2. ASSUME DogStep \/ Stop \/ Quiet PROVE IInv'
    <2>1. TypeOK'
      BY <1>2, ServiceTypes
    <2>2. UNCHANGED <<driver, frames, sent, deadline>>
      BY <1>2 DEF DogStep, Look, Mark, Kill, Stop, Quiet
    <2>3. NextTerminal'
      BY <2>2 DEF NextTerminal, Open
    <2>4. CASE Look \/ Stop \/ Quiet
      BY <2>1, <2>3, <2>4
      DEF TypeOK, Look, Stop, Quiet, Concluded, Reasons, MarkedFirst
    <2>5. CASE Mark
      BY <2>1, <2>3, <2>5 DEF Mark, Concluded, Reasons, MarkedFirst
    <2>6. CASE Kill
      <3>1. /\ dog = "kill" /\ dog' = "off" /\ bridge'.pc = "gone"
            /\ bridge'.killed = (bridge.pc # "gone")
            /\ UNCHANGED <<driver, timedOut, cancelled, cancel, deadline, sent>>
        BY <2>6 DEF Kill, TypeOK, BridgeRecord
      <3>2. QED
        BY <2>1, <2>3, <3>1 DEF Concluded, Reasons, MarkedFirst
    <2>7. QED
      BY <1>2, <2>4, <2>5, <2>6 DEF DogStep
  <1>3. QED
    BY <1>1, <1>2

-------------------------------------------------------------------------------
(* The invariant of a turn.                                                *)
THEOREM Invariance == Spec => []IInv
  <1>1. IInv /\ [Next]_vars => IInv'
    BY ProcessStep, DriverKeeps, OtherKeeps DEF Next, Over
  <1>2. QED
    BY InitInv, <1>1, PTL DEF Spec

(* Types.                                                                  *)
THEOREM TypesKept == Spec => []TypeOK
  <1>1. IInv => TypeOK
    BY DEF IInv
  <1>2. QED
    BY Invariance, <1>1, PTL

(* The first terminal frame decides, and an outcome of the driver's own    *)
(* making means that there was none, for any number of lines and calls.    *)
THEOREM BridgeIsHeard == Spec => []FirstFrameDecides
  <1>1. IInv => FirstFrameDecides
    BY DEF IInv, Concluded, FirstFrameDecides
  <1>2. QED
    BY Invariance, <1>1, PTL

(* The reason that is given for the end of a turn is the one there was.    *)
THEOREM ReasonHolds == Spec => []ReasonIsTrue
  <1>1. IInv => ReasonIsTrue
    BY DEF IInv, Concluded, Reasons, ReasonIsTrue
  <1>2. QED
    BY Invariance, <1>1, PTL
===============================================================================
