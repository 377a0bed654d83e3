--------------------------- MODULE TurnStream_proofs ---------------------------
(***************************************************************************)
(* The order of the frames and the way to learn the end, for any number of *)
(* viewers, of frames and of lost connections and any size of the queue.   *)
(* The argument is the invariant IInv: the queue holds frames in the order *)
(* of the worker (QueueInv), what a handler has is older than the queue    *)
(* and what was shown is older than both (PastInv), and a handler at work  *)
(* means that the end is still to come (EndInv).                           *)
(***************************************************************************)
EXTENDS TurnStream, SequenceTheorems, TLAPS

\* The queue keeps the order of the worker, with gaps.
QueueInv ==
    /\ \A i, j \in DOMAIN queue : i < j => queue[i] < queue[j]
    /\ worker \in {"put", "evict"} =>
          /\ kind # <<>>
          /\ \A i \in DOMAIN queue : queue[i] < Newest

\* What handlers hold is older than what is queued, what was shown is older
\* than both.
PastInv ==
    /\ \A v \in Viewers : handler[v].pc = "write" =>
          /\ handler[v].frame \in Frames
          /\ worker \in {"put", "evict"} => handler[v].frame < Newest
          /\ \A i \in DOMAIN queue : handler[v].frame < queue[i]
    /\ \A v \in Viewers : \A g \in DOMAIN viewer[v].got :
          /\ viewer[v].got[g] \in Frames
          /\ worker \in {"put", "evict"} => viewer[v].got[g] < Newest
          /\ \A i \in DOMAIN queue : viewer[v].got[g] < queue[i]
          /\ \A u \in Viewers :
                handler[u].pc = "write" => viewer[v].got[g] < handler[u].frame

\* Nothing but a terminal frame follows the first one; a handler at work means
\* that the terminal frame is still to come.
EndInv ==
    /\ final /\ worker \in {"put", "evict"} => IsEnd(Newest)
    /\ worker = "over" => final
    /\ final /\ (\E v \in Viewers : handler[v].pc # "none") =>
          \/ worker \in {"put", "evict"}
          \/ \E n \in ToSet(queue) \cup Held : IsEnd(n)

Going == worker \in {"put", "evict"}

EndQueued == \E i \in DOMAIN queue : IsEnd(queue[i])

EndHeld == \E v \in Viewers : handler[v].pc = "write" /\ IsEnd(handler[v].frame)

Rising(s) == \A i, j \in DOMAIN s : i < j => s[i] < s[j]

\* Nothing is shown twice.
Apart ==
    \A u, v \in Viewers : u # v =>
        \A i \in DOMAIN viewer[u].got, j \in DOMAIN viewer[v].got :
            viewer[u].got[i] # viewer[v].got[j]

\* The end, until the write of a terminal frame fails.
Ends == endLost \/ (EndInv /\ EndIsReachable)

IInv == TypeOK /\ OneReader /\ QueueInv /\ PastInv /\ InOrder /\ Ends

LEMMA EndSeen == (\E n \in ToSet(queue) \cup Held : IsEnd(n)) <=> EndQueued \/ EndHeld
  BY DEF ToSet, Held, EndQueued, EndHeld

LEMMA EndSeenNext == (\E n \in ToSet(queue) \cup Held : IsEnd(n))' <=> (EndQueued \/ EndHeld)'
  BY DEF ToSet, Held, EndQueued, EndHeld, IsEnd

LEMMA Disjoint ==
  ASSUME NEW s, NEW t
  PROVE  ToSet(s) \cap ToSet(t) = {} <=> \A i \in DOMAIN s, j \in DOMAIN t : s[i] # t[j]
  BY DEF ToSet

LEMMA OrderSeen == InOrder <=> (\A v \in Viewers : Rising(viewer[v].got)) /\ Apart
  BY Disjoint DEF InOrder, Rising, Apart

LEMMA OrderSeenNext == InOrder' <=> (\A v \in Viewers : Rising(viewer'[v].got)) /\ Apart'
  BY Disjoint DEF InOrder, Rising, Apart

-------------------------------------------------------------------------------
(* The queue.                                                              *)

\* What an operation of the worker makes of a queue of frames up to n: they rise,
\* they are of the queue or n, and n is the last one if it ends the turn.
Kept(s, q, n) ==
    /\ q \in Seq(1..n) /\ Len(q) <= MaxQueue
    /\ Rising(q)
    /\ \A i \in DOMAIN q : q[i] = n \/ \E j \in DOMAIN s : q[i] = s[j]
    /\ IsEnd(n) => \E i \in DOMAIN q : q[i] = n

\* r is s without its frame i.
Shorter(s, r, i, n) ==
    /\ r \in Seq(1..n) /\ Len(r) = Len(s) - 1
    /\ \A k \in 1..(Len(s) - 1) : r[k] = IF k < i THEN s[k] ELSE s[k + 1]

\* r has room for n, the newest frame.
Fits(s, r, n) ==
    /\ r \in Seq(1..n) /\ Len(r) < MaxQueue /\ Rising(r)
    /\ \A k \in DOMAIN r : r[k] < n /\ \E j \in DOMAIN s : r[k] = s[j]

LEMMA RemoveIsShorter ==
  ASSUME NEW n \in Nat, NEW s \in Seq(1..n), NEW i \in 1..Len(s)
  PROVE  Shorter(s, RemoveAt(s, i), i, n)
  <1>. DEFINE a == SubSeq(s, 1, i - 1)
              b == SubSeq(s, i + 1, Len(s))
  <1>1. Len(s) \in Nat /\ \A k \in 1..Len(s) : s[k] \in 1..n
    BY LenProperties, ElementOfSeq
  <1>2. /\ a \in Seq(1..n) /\ Len(a) = i - 1
        /\ \A k \in 1..(i - 1) : a[k] = s[k]
    <2>1. 1 \in Int /\ i - 1 \in Int /\ \A k \in 1..(i - 1) : s[k] \in 1..n
      BY <1>1
    <2>2. /\ a \in Seq(1..n) /\ Len(a) = IF 1 <= i - 1 THEN (i - 1) - 1 + 1 ELSE 0
          /\ \A k \in 1..((i - 1) - 1 + 1) : a[k] = s[1 + k - 1]
      BY ONLY <2>1, SubSeqProperties
    <2>3. \A k \in 1..(i - 1) : k \in 1..((i - 1) - 1 + 1) /\ 1 + k - 1 = k
      OBVIOUS
    <2>4. QED
      BY <1>1, <2>2, <2>3
  <1>3. /\ b \in Seq(1..n) /\ Len(b) = Len(s) - i
        /\ \A k \in 1..(Len(s) - i) : b[k] = s[i + k]
    <2>1. i + 1 \in Int /\ Len(s) \in Int /\ \A k \in (i + 1)..Len(s) : s[k] \in 1..n
      BY <1>1
    <2>2. /\ b \in Seq(1..n) /\ Len(b) = IF i + 1 <= Len(s) THEN Len(s) - (i + 1) + 1 ELSE 0
          /\ \A k \in 1..(Len(s) - (i + 1) + 1) : b[k] = s[(i + 1) + k - 1]
      BY ONLY <2>1, SubSeqProperties
    <2>3. \A k \in 1..(Len(s) - i) :
             k \in 1..(Len(s) - (i + 1) + 1) /\ (i + 1) + k - 1 = i + k
      BY <1>1
    <2>4. QED
      BY <1>1, <2>2, <2>3
  <1>. HIDE DEF a, b
  <1>4. /\ a \o b \in Seq(1..n) /\ Len(a \o b) = Len(a) + Len(b)
        /\ \A k \in 1..(Len(a) + Len(b)) :
              (a \o b)[k] = IF k <= Len(a) THEN a[k] ELSE b[k - Len(a)]
    BY <1>2, <1>3, ConcatProperties
  <1>5. ASSUME NEW k \in 1..(Len(s) - 1)
        PROVE  (a \o b)[k] = IF k < i THEN s[k] ELSE s[k + 1]
    <2>1. CASE k < i
      BY <1>1, <1>2, <1>3, <1>4, <2>1
    <2>2. CASE ~(k < i)
      <3>1. k - (i - 1) \in 1..(Len(s) - i) /\ i + (k - (i - 1)) = k + 1
        BY <1>1, <2>2
      <3>2. (a \o b)[k] = b[k - (i - 1)]
        <4>1. k \in 1..(Len(a) + Len(b)) /\ ~(k <= Len(a)) /\ Len(a) = i - 1
          BY <1>1, <1>2, <1>3, <2>2
        <4>2. QED
          BY <1>4, <4>1
      <3>3. QED
        BY <1>3, <2>2, <3>1, <3>2
    <2>3. QED
      BY <2>1, <2>2
  <1>6. RemoveAt(s, i) = a \o b
    BY DEF RemoveAt, a, b
  <1>7. Len(a) + Len(b) = Len(s) - 1
    BY <1>1, <1>2, <1>3
  <1>8. QED
    BY <1>4, <1>5, <1>6, <1>7 DEF Shorter

LEMMA AppendIsKept ==
  ASSUME NEW n \in Nat \ {0}, NEW s, NEW r, Fits(s, r, n)
  PROVE  Kept(s, Append(r, n), n)
  <1>. DEFINE q == Append(r, n)
  <1>. USE DEF Fits
  <1>1. /\ q \in Seq(1..n) /\ Len(q) = Len(r) + 1 /\ Len(r) \in Nat
        /\ DOMAIN q = 1..(Len(r) + 1) /\ DOMAIN r = 1..Len(r)
        /\ \A i \in 1..Len(r) : q[i] = r[i]
        /\ q[Len(r) + 1] = n
    BY AppendProperties, LenProperties
  <1>2. \A i \in DOMAIN q : i \in DOMAIN r \/ i = Len(r) + 1
    BY <1>1
  <1>3. Rising(q)
    <2>1. ASSUME NEW i \in DOMAIN q, NEW j \in DOMAIN q, i < j PROVE q[i] < q[j]
      <3>1. i \in DOMAIN r
        BY <1>1, <2>1
      <3>2. CASE j \in DOMAIN r
        BY <1>1, <2>1, <3>1, <3>2 DEF Rising
      <3>3. CASE j = Len(r) + 1
        BY <1>1, <2>1, <3>1, <3>3
      <3>4. QED
        BY <1>2, <3>2, <3>3
    <2>2. QED
      BY <2>1 DEF Rising
  <1>4. Len(q) <= MaxQueue
    BY <1>1, QueueAssumption
  <1>5. \A i \in DOMAIN q : q[i] = n \/ \E j \in DOMAIN s : q[i] = s[j]
    BY <1>1, <1>2
  <1>6. Len(r) + 1 \in DOMAIN q
    BY <1>1
  <1>7. QED
    BY <1>1, <1>3, <1>4, <1>5, <1>6 DEF Kept

\* What makes room: a queue with one frame less.
LEMMA ShorterIsFit ==
  ASSUME NEW n \in Nat, NEW s \in Seq(1..n), NEW r, NEW i \in 1..Len(s),
         Rising(s), \A k \in DOMAIN s : s[k] < n, Len(s) <= MaxQueue, s # <<>>,
         Shorter(s, r, i, n)
  PROVE  Fits(s, r, n)
  <1>. USE DEF Shorter, Fits
  <1>1. /\ Len(s) \in Nat \ {0} /\ DOMAIN s = 1..Len(s) /\ DOMAIN r = 1..(Len(s) - 1)
        /\ \A k \in 1..Len(s) : s[k] \in Nat
    BY LenProperties, EmptySeq, ElementOfSeq
  <1>2. \A k \in 1..(Len(s) - 1) : k \in DOMAIN s /\ k + 1 \in DOMAIN s
    BY <1>1
  <1>3. Rising(r)
    <2>1. ASSUME NEW k \in 1..(Len(s) - 1), NEW l \in 1..(Len(s) - 1), k < l
          PROVE  r[k] < r[l]
      <3>0. /\ {k, l, k + 1, l + 1} \subseteq DOMAIN s
            /\ k < l + 1 /\ k + 1 < l + 1
        BY <1>2, <2>1
      <3>1. s[k] < s[l] /\ s[k] < s[l + 1] /\ s[k + 1] < s[l + 1]
        BY <2>1, <3>0 DEF Rising
      <3>2. l < i => k < i
        BY <2>1
      <3>3. QED
        BY <1>1, <1>2, <3>1, <3>2
    <2>2. QED
      BY <1>1, <2>1 DEF Rising
  <1>4. Len(r) < MaxQueue
    BY <1>1, QueueAssumption
  <1>5. QED
    BY <1>1, <1>2, <1>3, <1>4

LEMMA EvictIsKept ==
  ASSUME TypeOK, QueueInv, worker = "evict", NEW q \in Evicted
  PROVE  Kept(queue, q, Newest)
  <1>1. /\ Newest \in Nat /\ Newest > 0 /\ queue \in Seq(1..Newest)
        /\ \A i \in DOMAIN queue : queue[i] < Newest
        /\ Rising(queue) /\ Len(queue) <= MaxQueue
        /\ Len(queue) \in Nat /\ DOMAIN queue = 1..Len(queue)
    BY LenProperties, EmptySeq DEF TypeOK, QueueInv, Newest, Frames, Rising
  <1>2. CASE queue = <<>>
    <2>1. Append(queue, Newest) = <<Newest>> /\ q = <<Newest>>
      BY <1>2 DEF Evicted
    <2>2. Len(queue) < MaxQueue /\ \A i \in DOMAIN queue : FALSE
      BY <1>1, <1>2, QueueAssumption
    <2>3. Fits(queue, queue, Newest)
      BY <1>1, <2>2 DEF Fits
    <2>4. Kept(queue, Append(queue, Newest), Newest)
      BY <1>1, <2>3, AppendIsKept
    <2>5. QED
      BY <2>1, <2>4
  <1>3. ASSUME queue # <<>>, NEW i \in 1..Len(queue), q = Append(RemoveAt(queue, i), Newest)
        PROVE  Kept(queue, q, Newest)
    <2>1. Shorter(queue, RemoveAt(queue, i), i, Newest)
      BY <1>1, RemoveIsShorter
    <2>2. Fits(queue, RemoveAt(queue, i), Newest)
      BY <1>1, <1>3, <2>1, ShorterIsFit
    <2>3. QED
      BY <1>1, <1>3, <2>2, AppendIsKept
  <1>4. ASSUME queue # <<>>, q = Append(Tail(queue), Newest)
        PROVE  Kept(queue, q, Newest)
    <2>1. 1 \in 1..Len(queue) /\ Shorter(queue, Tail(queue), 1, Newest)
      BY <1>1, <1>4, HeadTailProperties, EmptySeq DEF Shorter
    <2>2. Fits(queue, Tail(queue), Newest)
      BY <1>1, <1>4, <2>1, ShorterIsFit
    <2>3. QED
      BY <1>1, <1>4, <2>2, AppendIsKept
  <1>5. CASE q = queue /\ IsToken(Newest)
    <2>1. ~IsEnd(Newest)
      BY <1>5 DEF IsEnd, IsToken
    <2>2. QED
      BY <1>1, <1>5, <2>1 DEF Kept
  <1>6. QED
    <2>1. \/ queue = <<>>
          \/ queue # <<>> /\ \E i \in 1..Len(queue) : q = Append(RemoveAt(queue, i), Newest)
          \/ q = queue /\ IsToken(Newest)
          \/ queue # <<>> /\ q = Append(Tail(queue), Newest)
      BY <1>1 DEF Evicted, QueuedTokens
    <2>2. QED
      BY <1>2, <1>3, <1>4, <1>5, <2>1

-------------------------------------------------------------------------------
(* The worker.                                                             *)

LEMMA InitInv == Init => IInv
  <1>. SUFFICES ASSUME Init PROVE IInv
    OBVIOUS
  <1>1. TypeOK
    <2>1. Len(<<>>) = 0 /\ <<>> \in Seq(Kinds) /\ <<>> \in Seq(Frames)
          /\ <<>> \in Seq(1..MaxFrames)
      BY EmptySeq
    <2>2. NoHandler \in HandlerRecord /\ NewViewer \in ViewerRecord
      BY <2>1, BoundsAssumption DEF NoHandler, HandlerRecord, NewViewer, ViewerRecord
    <2>3. 0 <= MaxFrames /\ 0 <= MaxQueue /\ 0 \in 0..MaxDrops
      BY QueueAssumption, BoundsAssumption
    <2>4. QED
      BY <2>1, <2>2, <2>3 DEF Init, TypeOK
  <1>2. InOrder
    <2>1. \A v \in Viewers : DOMAIN viewer[v].got = {}
      BY EmptySeq DEF Init, NewViewer
    <2>2. QED
      BY <2>1, OrderSeen DEF Rising, Apart
  <1>3. OneReader /\ QueueInv /\ PastInv /\ Ends
    BY DEF Init, OneReader, QueueInv, PastInv, Ends, EndInv, EndIsReachable, EndCanBeRead,
           NoHandler, NewViewer
  <1>4. QED
    BY <1>1, <1>2, <1>3 DEF IInv

\* What the invariant says of the frames that are under way, in one operator: those
\* of a queue q are younger than what the handlers have and the pages have shown.
Younger(q) ==
    /\ \A v \in Viewers : handler[v].pc = "write" =>
          \A i \in DOMAIN q : handler[v].frame < q[i]
    /\ \A v \in Viewers : \A g \in DOMAIN viewer[v].got :
          \A i \in DOMAIN q : viewer[v].got[g] < q[i]

LEMMA EmitKeeps == ASSUME IInv, NEW k \in Kinds, Emit(k) PROVE IInv'
  <1>. USE DEF IInv
  <1>1. /\ kind \in Seq(Kinds) /\ Len(kind) \in Nat /\ Len(kind) < MaxFrames
        /\ worker = "run" /\ worker' = "put" /\ kind' = Append(kind, k)
        /\ final' = (final \/ k = "end")
        /\ k # "end" => ~final
        /\ UNCHANGED <<queue, kept, attached, handler, viewer, drops, endLost>>
    BY LenProperties DEF Emit, TypeOK
  <1>2. /\ kind' \in Seq(Kinds) /\ Len(kind') = Len(kind) + 1
        /\ \A n \in 1..Len(kind) : kind'[n] = kind[n]
        /\ kind'[Len(kind) + 1] = k
    BY <1>1, AppendProperties
  <1>3. Frames \subseteq Frames' /\ Newest' = Len(kind) + 1 /\ kind' # <<>>
    BY <1>1, <1>2, AppendProperties DEF Frames, Newest
  <1>4. /\ queue \in Seq(Frames) /\ DOMAIN queue = 1..Len(queue)
        /\ \A i \in DOMAIN queue : queue[i] \in Frames
    BY LenProperties, ElementOfSeq DEF TypeOK
  <1>5. TypeOK'
    <2>1. queue' \in Seq(Frames')
      BY <1>1, <1>3, <1>4, SeqMonotonic
    <2>2. Len(kind') <= MaxFrames
      BY <1>1, <1>2, BoundsAssumption
    <2>3. final' \in BOOLEAN
      <3>1. (final \/ k = "end") \in BOOLEAN
        OBVIOUS
      <3>2. final' = (final \/ k = "end")
        BY <1>1
      <3>3. QED
        BY ONLY <3>1, <3>2
    <2>4. QED
      BY <1>1, <1>2, <2>1, <2>2, <2>3 DEF TypeOK
  <1>6. OneReader' /\ InOrder'
    BY <1>1 DEF OneReader, InOrder
  <1>7. \A n \in Frames : n < Newest'
    BY <1>1, <1>3 DEF Frames
  <1>8. QueueInv'
    BY <1>1, <1>3, <1>4, <1>7 DEF QueueInv
  <1>9. PastInv'
    <2>1. ASSUME NEW v \in Viewers, handler[v].pc = "write"
          PROVE  /\ handler[v].frame \in Frames' /\ handler[v].frame < Newest'
                 /\ \A i \in DOMAIN queue : handler[v].frame < queue[i]
      BY <1>3, <1>7, <2>1 DEF PastInv
    <2>2. ASSUME NEW v \in Viewers, NEW g \in DOMAIN viewer[v].got
          PROVE  /\ viewer[v].got[g] \in Frames' /\ viewer[v].got[g] < Newest'
                 /\ \A i \in DOMAIN queue : viewer[v].got[g] < queue[i]
                 /\ \A u \in Viewers :
                      handler[u].pc = "write" => viewer[v].got[g] < handler[u].frame
      BY <1>3, <1>7, <2>2 DEF PastInv
    <2>3. QED
      BY <1>1, <2>1, <2>2 DEF PastInv
  <1>10. Ends'
    <2>. SUFFICES ASSUME ~endLost, ~endLost', EndInv, EndIsReachable
                  PROVE  EndInv' /\ EndIsReachable'
      BY <1>1 DEF Ends
    <2>1. final' => k = "end"
      <3>1. final' = (final \/ k = "end") /\ (k # "end" => ~final)
        BY <1>1
      <3>2. QED
        BY ONLY <3>1
    <2>2. final' => kind'[Newest'] = "end"
      BY <1>2, <1>3, <2>1
    <2>3. QED
      BY <1>1, <2>2 DEF EndInv, EndIsReachable, EndCanBeRead, IsEnd
  <1>11. QED
    BY <1>5, <1>6, <1>8, <1>9, <1>10

\* Put and Evict: the queue is one that was kept.
LEMMA QueueKeeps ==
  ASSUME IInv, Going, worker' = "run", Kept(queue, queue', Newest),
         UNCHANGED <<kind, final, kept, attached, handler, viewer, drops, endLost>>
  PROVE  IInv'
  <1>. USE DEF IInv
  <1>1. /\ UNCHANGED <<Frames, Newest>> /\ Newest \in Frames
        /\ DOMAIN queue' = 1..Len(queue') /\ queue' \in Seq(Frames)
        /\ worker \in {"put", "evict"}
    <2>1. Len(kind) \in Nat /\ kind # <<>>
      BY LenProperties DEF TypeOK, QueueInv, Going
    <2>2. Len(kind) \in Nat \ {0}
      BY <2>1, EmptySeq DEF TypeOK
    <2>3. queue' \in Seq(1..Len(kind))
      BY DEF Kept, Newest
    <2>4. QED
      BY <2>2, <2>3, LenProperties DEF Frames, Newest, Going
  <1>2. TypeOK'
    BY <1>1 DEF TypeOK, Kept
  <1>3. OneReader' /\ InOrder'
    BY DEF OneReader, InOrder
  <1>4. QueueInv'
    BY <1>1 DEF QueueInv, Kept, Rising
  <1>5. PastInv'
    <2>1. ASSUME NEW x, x < Newest, \A i \in DOMAIN queue : x < queue[i]
          PROVE  \A i \in DOMAIN queue' : x < queue'[i]
      BY <2>1 DEF Kept
    <2>2. Younger(queue')
      BY <1>1, <2>1 DEF PastInv, Younger
    <2>3. QED
      BY <1>1, <2>2 DEF PastInv, Younger
  <1>6. Ends'
    <2>. SUFFICES ASSUME ~endLost, ~endLost', EndInv, EndIsReachable
                  PROVE  EndInv' /\ EndIsReachable'
      BY DEF Ends
    <2>1. final => EndQueued'
      BY <1>1 DEF EndInv, Kept, EndQueued, IsEnd
    <2>2. QED
      BY <1>1, <2>1, EndSeenNext DEF EndInv, EndIsReachable, EndCanBeRead
  <1>7. QED
    BY <1>2, <1>3, <1>4, <1>5, <1>6

LEMMA PutKeeps == ASSUME IInv, Put PROVE IInv'
  <1>. USE DEF IInv
  <1>1. CASE Len(queue) < MaxQueue
    <2>1. queue' = Append(queue, Newest)
      BY <1>1 DEF Put
    <2>2. Newest \in Nat \ {0} /\ Fits(queue, queue, Newest)
      <3>1. Len(kind) \in Nat \ {0}
        BY EmptySeq DEF TypeOK, QueueInv, Put
      <3>2. QED
        BY <1>1, <3>1 DEF Put, TypeOK, QueueInv, Fits, Rising, Newest, Frames
    <2>3. Kept(queue, queue', Newest)
      BY <2>1, <2>2, AppendIsKept
    <2>4. QED
      BY <1>1, <2>3, QueueKeeps DEF Put, Going
  <1>2. CASE ~(Len(queue) < MaxQueue)
    <2>1. /\ worker = "put" /\ worker' = "evict"
          /\ UNCHANGED <<kind, queue, final, kept, attached, handler, viewer, drops, endLost>>
      BY <1>2 DEF Put
    <2>2. TypeOK' /\ OneReader' /\ InOrder'
      BY <2>1 DEF TypeOK, OneReader, InOrder, Frames
    <2>3. QueueInv' /\ PastInv'
      BY <2>1 DEF QueueInv, PastInv, Newest, Frames
    <2>4. Ends'
      BY <2>1
      DEF Ends, EndInv, EndIsReachable, EndCanBeRead, IsEnd, Newest
    <2>5. QED
      BY <2>2, <2>3, <2>4
  <1>3. QED
    BY <1>1, <1>2

LEMMA WorkerKeeps == ASSUME IInv, WorkerStep PROVE IInv'
  <1>1. CASE Return
    <2>1. /\ worker = "run" /\ final /\ worker' = "over"
          /\ UNCHANGED <<kind, queue, final, kept, attached, handler, viewer, drops, endLost>>
      BY <1>1 DEF Return
    <2>2. TypeOK' /\ OneReader' /\ InOrder'
      BY <2>1 DEF IInv, TypeOK, OneReader, InOrder, Frames
    <2>3. QueueInv' /\ PastInv'
      BY <2>1 DEF IInv, QueueInv, PastInv, Newest, Frames
    <2>4. Ends'
      BY <2>1, EndSeen, EndSeenNext
      DEF IInv, Ends, EndInv, EndIsReachable, EndCanBeRead, EndQueued, EndHeld, IsEnd
    <2>5. QED
      BY <2>2, <2>3, <2>4 DEF IInv
  <1>2. CASE Evict
    <2>1. Kept(queue, queue', Newest)
      BY <1>2, EvictIsKept DEF Evict, IInv
    <2>2. QED
      BY <1>2, <2>1, QueueKeeps DEF Evict, Going
  <1>3. QED
    BY <1>1, <1>2, EmitKeeps, PutKeeps DEF WorkerStep

-------------------------------------------------------------------------------
(* Handlers and browsers.                                                  *)

\* While there is a handler it is the only one, and the stream is attached.
Alone(v) == attached /\ \A u \in Viewers : u # v => handler[u].pc = "none"

LEMMA HandlerIsAlone ==
  ASSUME OneReader, NEW v \in Viewers, handler[v].pc # "none"
  PROVE  Alone(v)
  BY DEF OneReader, Alone

\* The part of a step of v's handler or browser that changes its own record only.
Only(v) ==
    /\ \A u \in Viewers : u # v => handler'[u] = handler[u] /\ viewer'[u] = viewer[u]
    /\ UNCHANGED <<kind, worker, final, kept>>

\* A step after which v's handler has nothing in its hands that it had not, and the
\* pages have been shown nothing: the order is as it was.
LEMMA OrderKeeps ==
  ASSUME IInv, NEW v \in Viewers, Only(v), UNCHANGED queue,
         handler'[v].pc = "write" => handler[v].pc = "write" /\ handler'[v].frame = handler[v].frame,
         viewer'[v].got = viewer[v].got
  PROVE  QueueInv' /\ PastInv' /\ InOrder'
  <1>. USE DEF IInv
  <1>1. /\ \A u \in Viewers : viewer'[u].got = viewer[u].got
        /\ \A u \in Viewers : handler'[u].pc = "write" =>
              handler[u].pc = "write" /\ handler'[u].frame = handler[u].frame
        /\ UNCHANGED <<kind, worker, queue>>
    BY DEF Only
  <1>2. QueueInv' /\ InOrder'
    BY <1>1 DEF QueueInv, InOrder, Newest
  <1>3. PastInv'
    BY <1>1 DEF PastInv, Newest, Frames
  <1>4. QED
    BY <1>2, <1>3

\* The browsers: it connects, is answered, or goes away.
LEMMA BrowserKeeps ==
  ASSUME IInv, NEW v \in Viewers,
         Connect(v) \/ Answer(v) \/ \E to \in {"retry", "away"} : Drop(v, to)
  PROVE  IInv'
  <1>. USE DEF IInv
  <1>1. /\ handler \in [Viewers -> HandlerRecord] /\ viewer \in [Viewers -> ViewerRecord]
        /\ handler[v] \in HandlerRecord /\ viewer[v] \in ViewerRecord
    BY DEF TypeOK
  <1>2. CASE Connect(v) /\ Attachable
    <2>1. \A u \in Viewers : handler[u].pc = "none"
      BY <1>2 DEF OneReader, Attachable
    <2>2. /\ attached' = TRUE
          /\ handler' = [handler EXCEPT ![v] = [NoHandler EXCEPT !.pc = "read"]]
          /\ viewer' = [viewer EXCEPT ![v].pc = "open"]
          /\ UNCHANGED <<kind, queue, worker, final, kept, drops, endLost>>
      BY <1>2 DEF Connect
    <2>3. /\ handler'[v].pc = "read" /\ viewer'[v].got = viewer[v].got
          /\ handler'[v] \in HandlerRecord /\ viewer'[v] \in ViewerRecord
          /\ \A u \in Viewers : u # v => handler'[u] = handler[u] /\ viewer'[u] = viewer[u]
      <3>1. 0 \in 0..MaxFrames
        BY BoundsAssumption
      <3>2. [NoHandler EXCEPT !.pc = "read"] \in HandlerRecord
            /\ [NoHandler EXCEPT !.pc = "read"].pc = "read"
        BY <3>1 DEF NoHandler, HandlerRecord
      <3>3. handler'[v].pc = "read" /\ handler'[v] \in HandlerRecord
        BY <1>1, <2>2, <3>2
      <3>4. viewer'[v].got = viewer[v].got /\ viewer'[v] \in ViewerRecord
        BY <1>1, <2>2 DEF ViewerRecord
      <3>5. QED
        BY <1>1, <2>2, <3>3, <3>4
    <2>4. TypeOK'
      BY <1>1, <2>2, <2>3 DEF TypeOK, Frames
    <2>5. OneReader'
      BY <2>1, <2>2, <2>3 DEF OneReader
    <2>6. QueueInv' /\ PastInv' /\ InOrder'
      BY <2>2, <2>3, OrderKeeps DEF Only
    <2>7. ~endLost /\ final => Going \/ EndQueued
      BY <1>2, <2>1, EndSeen DEF Attachable, Ends, EndIsReachable, EndCanBeRead, Going, EndHeld
    <2>8. Ends'
      BY <2>2, <2>7, EndSeenNext
      DEF Ends, EndInv, EndIsReachable, EndCanBeRead, Going, EndQueued, IsEnd, Newest
    <2>9. QED
      BY <2>4, <2>5, <2>6, <2>8
  <1>3. ASSUME ~(Connect(v) /\ Attachable) PROVE IInv'
    <2>1. /\ UNCHANGED <<kind, queue, worker, final, kept, attached, endLost>>
          /\ \E p \in {"retry", "away", "refused", "ended", "reloaded"} :
                viewer' = [viewer EXCEPT ![v].pc = p]
          /\ drops' \in 0..MaxDrops
          /\ \/ handler' = handler
             \/ handler' = [handler EXCEPT ![v].broken = handler[v].pc # "none"]
      BY <1>3, BoundsAssumption DEF Connect, Answer, Drop, TypeOK
    <2>2. /\ viewer'[v].got = viewer[v].got /\ viewer' \in [Viewers -> ViewerRecord]
          /\ \A u \in Viewers : u # v => viewer'[u] = viewer[u]
      BY <1>1, <2>1 DEF ViewerRecord
    <2>3. /\ handler'[v].pc = handler[v].pc /\ handler'[v].frame = handler[v].frame
          /\ handler' \in [Viewers -> HandlerRecord]
          /\ \A u \in Viewers : u # v => handler'[u] = handler[u]
      <3>1. (handler[v].pc # "none") \in BOOLEAN
        OBVIOUS
      <3>2. \/ handler' = handler
            \/ \E b \in BOOLEAN : handler' = [handler EXCEPT ![v].broken = b]
        BY ONLY <2>1, <3>1
      <3>3. QED
        BY <1>1, <3>2 DEF HandlerRecord
    <2>4. TypeOK'
      BY <2>1, <2>2, <2>3 DEF TypeOK, Frames
    <2>5. OneReader'
      BY <2>1, <2>3 DEF OneReader
    <2>6. QueueInv' /\ PastInv' /\ InOrder'
      BY <2>1, <2>2, <2>3, OrderKeeps DEF Only
    <2>7. /\ \A u \in Viewers : handler'[u].pc = handler[u].pc /\ handler'[u].frame = handler[u].frame
          /\ EndQueued' <=> EndQueued
          /\ EndHeld' <=> EndHeld
      BY <2>1, <2>3 DEF EndQueued, EndHeld, IsEnd
    <2>8. Ends'
      BY <2>1, <2>7, EndSeen, EndSeenNext
      DEF Ends, EndInv, EndIsReachable, EndCanBeRead, IsEnd, Newest
    <2>9. QED
      BY <2>4, <2>5, <2>6, <2>8
  <1>4. QED
    BY <1>2, <1>3

LEMMA ReadKeeps == ASSUME IInv, NEW v \in Viewers, Read(v) PROVE IInv'
  <1>. USE DEF IInv
  <1>1. /\ handler[v].pc = "read" /\ queue # <<>> /\ queue \in Seq(Frames)
        /\ handler' = [handler EXCEPT ![v].pc = "write", ![v].frame = Head(queue)]
        /\ queue' = Tail(queue)
        /\ UNCHANGED <<kind, worker, final, kept, attached, viewer, drops, endLost>>
    BY DEF Read, TypeOK
  <1>2. /\ Len(queue) \in Nat \ {0} /\ DOMAIN queue = 1..Len(queue) /\ Head(queue) = queue[1]
        /\ Head(queue) \in Frames
        /\ queue' \in Seq(Frames) /\ Len(queue') = Len(queue) - 1
        /\ DOMAIN queue' = 1..(Len(queue) - 1)
        /\ \A i \in 1..(Len(queue) - 1) : queue'[i] = queue[i + 1]
    BY <1>1, EmptySeq, HeadTailProperties, LenProperties
  <1>3. \A i \in DOMAIN queue' : i \in DOMAIN queue /\ i + 1 \in DOMAIN queue /\ 1 < i + 1
                                 /\ 1 \in DOMAIN queue
    BY <1>2
  <1>4. /\ Frames \subseteq 0..MaxFrames /\ handler[v] \in HandlerRecord
        /\ handler \in [Viewers -> HandlerRecord]
    <2>1. Len(kind) \in Nat /\ Len(kind) <= MaxFrames
      BY LenProperties DEF TypeOK
    <2>2. QED
      BY <2>1, BoundsAssumption DEF TypeOK, Frames
  <1>5. /\ handler'[v].pc = "write" /\ handler'[v].frame = queue[1]
        /\ handler' \in [Viewers -> HandlerRecord]
        /\ \A u \in Viewers : u # v => handler'[u] = handler[u]
    BY <1>1, <1>2, <1>4 DEF HandlerRecord
  <1>6. \A u \in Viewers : u # v => handler[u].pc = "none" /\ handler'[u].pc = "none"
    BY <1>1, <1>5, HandlerIsAlone DEF Alone
  <1>7. TypeOK'
    <2>1. Len(queue') <= MaxQueue
      BY <1>2, QueueAssumption DEF TypeOK
    <2>2. QED
      BY <1>1, <1>2, <1>5, <2>1 DEF TypeOK, Frames
  <1>8. OneReader' /\ InOrder'
    BY <1>1, <1>5, <1>6, HandlerIsAlone DEF OneReader, InOrder, Alone
  <1>9. QueueInv'
    <2>1. Rising(queue')
      <3>1. ASSUME NEW i \in DOMAIN queue', NEW j \in DOMAIN queue', i < j
            PROVE  queue[i + 1] < queue[j + 1]
        <4>1. i + 1 \in DOMAIN queue /\ j + 1 \in DOMAIN queue /\ i + 1 < j + 1
          BY <1>2, <1>3, <3>1
        <4>2. QED
          BY <4>1 DEF QueueInv
      <3>2. QED
        BY <1>2, <3>1 DEF Rising
    <2>2. QED
      BY <1>1, <1>2, <1>3, <2>1 DEF QueueInv, Rising, Newest
  <1>10. PastInv'
    <2>1. \A i \in DOMAIN queue' : queue[1] < queue'[i]
      BY <1>2, <1>3 DEF QueueInv
    <2>2. Going => queue[1] < Newest
      BY <1>1, <1>2 DEF QueueInv, Going
    <2>3. ASSUME NEW u \in Viewers, NEW g \in DOMAIN viewer[u].got
          PROVE  /\ viewer[u].got[g] < queue[1]
                 /\ \A i \in DOMAIN queue' : viewer[u].got[g] < queue'[i]
      BY <1>2, <1>3, <2>3 DEF PastInv
    <2>4. \A u \in Viewers : handler'[u].pc = "write" => u = v
      BY <1>6
    <2>5. QED
      BY <1>1, <1>2, <1>5, <2>1, <2>2, <2>3, <2>4 DEF PastInv, Going, Frames, Newest
  <1>11. Ends'
    <2>. SUFFICES ASSUME ~endLost, ~endLost', EndInv, EndIsReachable
                  PROVE  EndInv' /\ EndIsReachable'
      BY <1>1 DEF Ends
    <2>1. EndQueued => EndQueued' \/ EndHeld'
      <3>1. ASSUME NEW i \in DOMAIN queue, IsEnd(queue[i]) PROVE EndQueued' \/ EndHeld'
        <4>1. CASE i = 1
          BY <1>1, <1>5, <3>1, <4>1 DEF EndHeld, IsEnd
        <4>2. CASE i # 1
          <5>1. i - 1 \in DOMAIN queue' /\ queue'[i - 1] = queue[i]
            BY <1>2, <3>1, <4>2
          <5>2. QED
            BY <1>1, <3>1, <5>1 DEF EndQueued, IsEnd
        <4>3. QED
          BY <4>1, <4>2
      <3>2. QED
        BY <3>1 DEF EndQueued
    <2>2. ~EndHeld
      BY <1>1, <1>6 DEF EndHeld
    <2>3. final => Going \/ EndQueued
      BY <1>1, <2>2, EndSeen DEF EndInv, Going
    <2>4. attached
      BY <1>1, HandlerIsAlone DEF Alone
    <2>5. QED
      BY <1>1, <2>1, <2>3, <2>4, EndSeenNext
      DEF EndInv, EndIsReachable, EndCanBeRead, Going, IsEnd, Newest
  <1>12. QED
    BY <1>7, <1>8, <1>9, <1>10, <1>11

\* After a write: the handler goes on, or is gone.
LEMMA WrittenFacts ==
  ASSUME TypeOK, NEW v \in Viewers, handler[v].pc = "write", Written(v)
  PROVE  /\ handler' \in [Viewers -> HandlerRecord]
         /\ \A u \in Viewers : u # v => handler'[u] = handler[u]
         /\ handler'[v].pc = IF IsEnd(handler[v].frame) THEN "none" ELSE "read"
  <1>1. handler \in [Viewers -> HandlerRecord] /\ handler[v] \in HandlerRecord
    BY DEF TypeOK
  <1>2. CASE IsEnd(handler[v].frame)
    <2>1. handler' = [handler EXCEPT ![v] = NoHandler]
      BY <1>2 DEF Written
    <2>2. NoHandler \in HandlerRecord /\ NoHandler.pc = "none"
      BY BoundsAssumption DEF NoHandler, HandlerRecord
    <2>3. QED
      BY <1>1, <1>2, <2>1, <2>2
  <1>3. CASE ~IsEnd(handler[v].frame)
    <2>1. handler' = [handler EXCEPT ![v].pc = "read", ![v].frame = 0]
      BY <1>1, <1>3 DEF Written
    <2>2. 0 \in 0..MaxFrames
      BY BoundsAssumption
    <2>3. QED
      BY <1>1, <1>3, <2>1, <2>2 DEF HandlerRecord
  <1>4. QED
    BY <1>2, <1>3

\* The end is still to come, though a frame was written that is not the end.
LEMMA WrittenEnd ==
  ASSUME IInv, NEW v \in Viewers, handler[v].pc = "write", Written(v), Only(v),
         UNCHANGED <<queue, attached, endLost>>
  PROVE  Ends' /\ OneReader'
  <1>. USE DEF IInv
  <1>1. /\ attached' /\ handler'[v].pc = (IF IsEnd(handler[v].frame) THEN "none" ELSE "read")
        /\ \A u \in Viewers : u # v => handler[u].pc = "none" /\ handler'[u].pc = "none"
    BY WrittenFacts, HandlerIsAlone DEF Alone, Only
  <1>2. OneReader'
    BY <1>1 DEF OneReader
  <1>3. Ends'
    <2>. SUFFICES ASSUME ~endLost, ~endLost', EndInv, EndIsReachable
                  PROVE  EndInv' /\ EndIsReachable'
      BY DEF Ends
    <2>1. ASSUME ~IsEnd(handler[v].frame), final PROVE Going \/ EndQueued'
      <3>1. ~EndHeld
        BY <1>1, <2>1 DEF EndHeld
      <3>2. Going \/ EndQueued
        BY <2>1, <3>1, EndSeen DEF EndInv, Going
      <3>3. QED
        BY <3>2 DEF EndQueued, Only, IsEnd
    <2>2. (\E u \in Viewers : handler'[u].pc # "none") => ~IsEnd(handler[v].frame)
      BY <1>1
    <2>3. EndInv'
      BY <2>1, <2>2, EndSeenNext DEF EndInv, Going, Only, IsEnd, Newest
    <2>4. QED
      BY <1>1, <2>3 DEF EndIsReachable, EndCanBeRead
  <1>4. QED
    BY <1>2, <1>3

LEMMA LoseKeeps == ASSUME IInv, NEW v \in Viewers, Lose(v) PROVE IInv'
  <1>1. /\ handler[v].pc = "write" /\ Written(v)
        /\ UNCHANGED <<kind, queue, worker, final, kept, attached, viewer, drops, endLost>>
    BY DEF Lose
  <1>2. /\ handler' \in [Viewers -> HandlerRecord] /\ handler'[v].pc # "write" /\ Only(v)
    BY <1>1, WrittenFacts DEF IInv, Only
  <1>3. TypeOK'
    BY <1>1, <1>2 DEF IInv, TypeOK, Frames
  <1>4. QueueInv' /\ PastInv' /\ InOrder'
    BY <1>1, <1>2, OrderKeeps
  <1>5. Ends' /\ OneReader'
    BY <1>1, <1>2, WrittenEnd
  <1>6. QED
    BY <1>3, <1>4, <1>5 DEF IInv

LEMMA DeliverKeeps == ASSUME IInv, NEW v \in Viewers, Deliver(v) PROVE IInv'
  <1>. USE DEF IInv
  <1>1. /\ handler[v].pc = "write" /\ Written(v)
        /\ \E p \in {"away", "open", "refused", "retry", "ended", "reloaded"} :
              viewer' = [viewer EXCEPT ![v].got = Append(@, handler[v].frame), ![v].pc = p]
        /\ UNCHANGED <<kind, queue, worker, final, kept, attached, drops, endLost>>
    <2>1. viewer[v].pc \in {"away", "open", "refused", "retry", "ended", "reloaded"}
      BY DEF TypeOK, ViewerRecord
    <2>2. viewer' = [viewer EXCEPT
                       ![v].got = Append(@, handler[v].frame),
                       ![v].pc = IF IsEnd(handler[v].frame) THEN "ended" ELSE @]
      BY DEF Deliver
    <2>3. viewer' = [viewer EXCEPT
                       ![v].got = Append(@, handler[v].frame),
                       ![v].pc = IF IsEnd(handler[v].frame) THEN "ended" ELSE viewer[v].pc]
      BY <2>2 DEF TypeOK, ViewerRecord
    <2>4. QED
      BY <2>1, <2>3 DEF Deliver
  <1>2. /\ handler' \in [Viewers -> HandlerRecord] /\ handler'[v].pc # "write"
        /\ \A u \in Viewers : u # v => handler[u].pc = "none" /\ handler'[u].pc = "none"
    BY <1>1, WrittenFacts, HandlerIsAlone DEF Alone
  <1>3. /\ viewer \in [Viewers -> ViewerRecord] /\ viewer[v].got \in Seq(1..MaxFrames)
        /\ handler[v].frame \in Frames /\ Frames \subseteq 1..MaxFrames
    <2>1. Len(kind) \in Nat /\ Len(kind) <= MaxFrames
      BY LenProperties DEF TypeOK
    <2>2. QED
      BY <1>1, <2>1, BoundsAssumption DEF TypeOK, ViewerRecord, PastInv, Frames
  <1>. DEFINE shown == viewer[v].got
              f     == handler[v].frame
  <1>4. /\ Append(shown, f) \in Seq(1..MaxFrames)
        /\ DOMAIN shown = 1..Len(shown) /\ Len(shown) \in Nat
        /\ DOMAIN Append(shown, f) = 1..(Len(shown) + 1)
        /\ \A i \in 1..Len(shown) : Append(shown, f)[i] = shown[i]
        /\ Append(shown, f)[Len(shown) + 1] = f
    <2>1. shown \in Seq(1..MaxFrames) /\ f \in 1..MaxFrames
      BY <1>3
    <2>. HIDE DEF shown, f
    <2>2. QED
      BY <2>1, AppendProperties, LenProperties
  <1>5. /\ viewer'[v].got = Append(shown, f) /\ viewer' \in [Viewers -> ViewerRecord]
        /\ \A u \in Viewers : u # v => viewer'[u] = viewer[u]
    <2>1. viewer[v] \in ViewerRecord
      BY <1>3
    <2>2. PICK p \in {"away", "open", "refused", "retry", "ended", "reloaded"} :
             viewer' = [viewer EXCEPT ![v].got = Append(shown, f), ![v].pc = p]
      BY <1>1, <1>3
    <2>. HIDE DEF shown, f
    <2>3. viewer'[v] = [viewer[v] EXCEPT !.got = Append(shown, f), !.pc = p]
      BY <1>3, <2>2
    <2>4. viewer'[v].got = Append(shown, f) /\ viewer'[v] \in ViewerRecord
      BY <1>4, <2>1, <2>3 DEF ViewerRecord
    <2>5. QED
      BY <1>3, <2>2, <2>4
  <1>6. Only(v)
    BY <1>1, <1>5, WrittenFacts DEF Only
  <1>7. TypeOK'
    BY <1>1, <1>2, <1>5 DEF TypeOK, Frames
  <1>8. Ends' /\ OneReader'
    BY <1>1, <1>6, WrittenEnd
  <1>9. \A u \in Viewers : \A g \in DOMAIN viewer[u].got : viewer[u].got[g] < f
    BY <1>1 DEF PastInv
  <1>10. \A u \in Viewers : \A g \in DOMAIN viewer[u].got :
            viewer[u].got[g] \in Nat /\ f \in Nat
    BY <1>3 DEF PastInv, Frames
  <1>. HIDE DEF shown, f
  <1>11. \A g \in DOMAIN viewer'[v].got :
            \/ viewer'[v].got[g] = f /\ g = Len(shown) + 1
            \/ g \in DOMAIN shown /\ viewer'[v].got[g] = shown[g]
    BY <1>4, <1>5
  <1>12. InOrder'
    <2>1. Rising(shown) /\ Apart
      BY OrderSeen DEF shown
    <2>2. Rising(viewer'[v].got)
      <3>1. ASSUME NEW i \in DOMAIN viewer'[v].got, NEW j \in DOMAIN viewer'[v].got, i < j
            PROVE  viewer'[v].got[i] < viewer'[v].got[j]
        <4>1. i \in DOMAIN shown /\ viewer'[v].got[i] = shown[i]
          BY <1>4, <1>5, <1>11, <3>1
        <4>2. shown[i] < f
          BY <1>9, <4>1 DEF shown
        <4>3. j \in DOMAIN shown => shown[i] < shown[j]
          BY <2>1, <3>1, <4>1 DEF Rising
        <4>4. QED
          BY <1>11, <4>1, <4>2, <4>3
      <3>2. QED
        BY <3>1 DEF Rising
    <2>3. \A u \in Viewers : Rising(viewer'[u].got)
      BY <1>5, <2>2, OrderSeen
    <2>4. ASSUME NEW u \in Viewers, u # v, NEW i \in DOMAIN viewer[u].got,
                 NEW j \in DOMAIN viewer'[v].got
          PROVE  viewer[u].got[i] # viewer'[v].got[j]
      <3>1. viewer[u].got[i] < f /\ viewer[u].got[i] \in Nat /\ f \in Nat
        BY <1>9, <1>10
      <3>2. j \in DOMAIN shown => viewer[u].got[i] # shown[j]
        BY <2>1, <2>4 DEF Apart, shown
      <3>3. QED
        BY <1>11, <3>1, <3>2
    <2>5. Apart'
      BY <1>5, <2>1, <2>4 DEF Apart
    <2>6. QED
      BY <2>3, <2>5, OrderSeenNext
  <1>13. QueueInv'
    BY <1>1 DEF QueueInv, Newest
  <1>14. PastInv'
    <2>1. ASSUME NEW u \in Viewers, NEW g \in DOMAIN viewer'[u].got
          PROVE  /\ viewer'[u].got[g] \in Frames
                 /\ worker \in {"put", "evict"} => viewer'[u].got[g] < Newest
                 /\ \A i \in DOMAIN queue : viewer'[u].got[g] < queue[i]
      <3>1. \/ viewer'[u].got[g] = f
            \/ g \in DOMAIN viewer[u].got /\ viewer'[u].got[g] = viewer[u].got[g]
        BY <1>5, <1>11, <2>1 DEF shown
      <3>2. QED
        BY <1>1, <3>1 DEF PastInv, f
    <2>2. \A u \in Viewers : handler'[u].pc # "write"
      BY <1>2
    <2>3. QED
      BY <1>1, <2>1, <2>2 DEF PastInv, Frames, Newest
  <1>15. QED
    BY <1>7, <1>8, <1>12, <1>13, <1>14

\* A handler that finds its connection broken detaches, while the end is to come.
LEMMA FailKeeps ==
  ASSUME IInv, NEW v \in Viewers, FailWrite(v) \/ FailKeepalive(v)
  PROVE  IInv'
  <1>. USE DEF IInv
  <1>1. /\ handler[v].pc # "none" /\ handler' = [handler EXCEPT ![v] = NoHandler]
        /\ attached' = (attached /\ ~kept)
        /\ UNCHANGED <<kind, queue, worker, final, kept, viewer, drops>>
    BY DEF FailWrite, FailKeepalive, Detached
  <1>2. /\ handler' \in [Viewers -> HandlerRecord]
        /\ \A u \in Viewers : handler'[u].pc = "none"
        /\ Only(v)
    <2>1. NoHandler \in HandlerRecord /\ NoHandler.pc = "none"
      BY BoundsAssumption DEF NoHandler, HandlerRecord
    <2>2. QED
      BY <1>1, <2>1, HandlerIsAlone DEF Alone, TypeOK, Only
  <1>3. TypeOK'
    <2>1. (attached /\ ~kept) \in BOOLEAN
      OBVIOUS
    <2>2. attached' \in BOOLEAN /\ endLost' \in BOOLEAN
      <3>1. (endLost \/ IsEnd(handler[v].frame)) \in BOOLEAN
        BY DEF IsEnd
      <3>2. endLost' = endLost \/ endLost' = (endLost \/ IsEnd(handler[v].frame))
        BY DEF FailWrite, FailKeepalive
      <3>3. QED
        BY <1>1, <2>1, <3>1, <3>2 DEF TypeOK
    <2>3. QED
      BY <1>1, <1>2, <2>2 DEF TypeOK, Frames
  <1>4. OneReader'
    BY <1>1, <1>2 DEF OneReader
  <1>5. QueueInv' /\ PastInv' /\ InOrder'
    BY <1>1, <1>2, OrderKeeps
  <1>6. Ends'
    <2>0. ~endLost' => ~endLost
      BY Zenon DEF FailWrite, FailKeepalive
    <2>. SUFFICES ASSUME ~endLost, ~endLost', EndInv, EndIsReachable
                  PROVE  EndInv' /\ EndIsReachable'
      BY <2>0 DEF Ends
    <2>1. ~EndHeld
      <3>1. \A u \in Viewers : u # v => handler[u].pc = "none"
        BY <1>1, HandlerIsAlone DEF Alone
      <3>2. handler[v].pc = "write" => ~IsEnd(handler[v].frame)
        BY DEF FailWrite, FailKeepalive
      <3>3. QED
        BY <3>1, <3>2 DEF EndHeld
    <2>2. EndInv'
      BY <1>1, <1>2 DEF EndInv, IsEnd, Newest
    <2>3. final => Going \/ EndQueued
      BY <1>1, <2>1, EndSeen DEF EndInv, Going
    <2>4. QED
      BY <1>1, <2>2, <2>3, EndSeenNext DEF EndIsReachable, EndCanBeRead, Going, EndQueued, IsEnd
  <1>7. QED
    BY <1>3, <1>4, <1>5, <1>6

-------------------------------------------------------------------------------
(* The invariant of the stream.                                            *)
THEOREM Invariance == Spec => []IInv
  <1>1. IInv /\ [Next]_vars => IInv'
    <2>. SUFFICES ASSUME IInv, [Next]_vars PROVE IInv'
      OBVIOUS
    <2>1. CASE UNCHANGED vars
      <3>. USE DEF vars, IInv
      <3>1. TypeOK' /\ OneReader' /\ QueueInv' /\ PastInv'
        BY <2>1 DEF TypeOK, OneReader, QueueInv, PastInv, Frames, Newest
      <3>2. InOrder' /\ Ends'
        BY <2>1, EndSeen, EndSeenNext
        DEF InOrder, Ends, EndInv, EndIsReachable, EndCanBeRead, EndQueued, EndHeld, IsEnd, Newest
      <3>3. QED
        BY <3>1, <3>2
    <2>2. CASE Sweep
      <3>. USE DEF Sweep, IInv
      <3>1. TypeOK' /\ OneReader' /\ QueueInv' /\ PastInv'
        BY <2>2 DEF TypeOK, OneReader, QueueInv, PastInv, Frames, Newest
      <3>2. InOrder' /\ Ends'
        BY <2>2, EndSeen, EndSeenNext
        DEF InOrder, Ends, EndInv, EndIsReachable, EndCanBeRead, EndQueued, EndHeld, IsEnd, Newest
      <3>3. QED
        BY <3>1, <3>2
    <2>3. QED
      BY <2>1, <2>2, WorkerKeeps, BrowserKeeps, ReadKeeps, DeliverKeeps, LoseKeeps, FailKeeps
      DEF Next, HandlerStep
  <1>2. QED
    BY InitInv, <1>1, PTL DEF Spec

(* One connection reads the stream at a time.                              *)
THEOREM ReadersAreSingle == Spec => []OneReader
  <1>1. IInv => OneReader
    BY DEF IInv
  <1>2. QED
    BY Invariance, <1>1, PTL

(* A page is shown its frames in order, and no frame is shown by two.      *)
THEOREM OrderHolds == Spec => []InOrder
  <1>1. IInv => InOrder
    BY DEF IInv
  <1>2. QED
    BY Invariance, <1>1, PTL

(* While the turn is registered, a page that connects can learn its end,   *)
(* until a write of a terminal frame fails.                                *)
THEOREM EndCanBeLearned == Spec => []EndIsReachable
  <1>1. IInv => EndIsReachable
    BY DEF IInv, Ends, EndIsReachable
  <1>2. QED
    BY Invariance, <1>1, PTL
===============================================================================
