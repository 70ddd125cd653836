------------------------ MODULE MeshDispatcher_proofs ------------------------
(***************************************************************************)
(* The packet pool of MeshDispatcher is conserved, and the dispatcher and   *)
(* the radio object agree, for any number of packets, messages and sends.   *)
(* Inside a handler a packet may be in hand: taken from a queue and not yet *)
(* put back.  Sound(s, hand) says so, and a lemma for each function that    *)
(* it keeps the rest together.                                              *)
(***************************************************************************)
EXTENDS MeshDispatcher, SequenceTheorems, TLAPS

\* The packets are shared out between the queues, the radio and the handler.
Shared(s, hand) ==
  /\ s.unused \cup s.sendQ \cup s.rxQ \cup Held(s) \cup hand = Packets
  /\ s.unused \cap (s.sendQ \cup s.rxQ \cup Held(s) \cup hand) = {}
  /\ s.sendQ \cap (s.rxQ \cup Held(s) \cup hand) = {}
  /\ s.rxQ \cap (Held(s) \cup hand) = {}
  /\ Held(s) \cap hand = {}

OnAir(s) == s.outbound = None <=> s.tx = "idle"

Ours(s) == ~s.stray => (s.tx # "pending" => s.owed = 0) /\ s.owed <= 1

Fits(s) == Len(s.ring) <= RingSize

Sound(s, hand) == s \in State /\ Shared(s, hand) /\ OnAir(s) /\ Ours(s)

\* A function that has nothing to do with the ring or the packet on the air.
Kept(s, t) == t.ring = s.ring /\ t.outbound = s.outbound

-----------------------------------------------------------------------------
(* The pool. *)

LEMMA FirstIsMember ==
  ASSUME NEW set, set # {}
  PROVE  First(set) \in set
  BY DEF First

LEMMA FreeSound ==
  ASSUME NEW s, NEW p \in Packets, Sound(s, {p})
  PROVE  Sound(free(s, p), {}) /\ Kept(s, free(s, p))
<1>1. "text" \in Messages
  BY DEF Messages, Own
<1>2. free(s, p) \in State
  BY <1>1 DEF Sound, State, free
<1>3. /\ free(s, p).unused = s.unused \cup {p} /\ free(s, p).sendQ = s.sendQ
      /\ free(s, p).rxQ = s.rxQ /\ free(s, p).outbound = s.outbound /\ free(s, p).tx = s.tx
      /\ free(s, p).stray = s.stray /\ free(s, p).owed = s.owed /\ free(s, p).ring = s.ring
  BY DEF Sound, State, free
<1> QED BY <1>2, <1>3 DEF Sound, Shared, Held, OnAir, Ours, Kept

LEMMA QueueOutboundSound ==
  ASSUME NEW s, NEW hand, NEW p \in Packets \ hand, Sound(s, hand \cup {p}),
         NEW m \in Messages, NEW d \in BOOLEAN
  PROVE  Sound(queueOutbound(s, p, m, d), hand) /\ Kept(s, queueOutbound(s, p, m, d))
<1> DEFINE t == queueOutbound(s, p, m, d)
<1>1. t \in State
  BY DEF Sound, State, queueOutbound
<1>2. /\ t.unused = s.unused /\ t.sendQ = s.sendQ \cup {p} /\ t.rxQ = s.rxQ
      /\ t.outbound = s.outbound /\ t.tx = s.tx /\ t.stray = s.stray /\ t.owed = s.owed
      /\ t.ring = s.ring
  BY DEF Sound, State, queueOutbound
<1> QED BY <1>1, <1>2 DEF Sound, Shared, Held, OnAir, Ours, Kept

LEMMA QueueInboundSound ==
  ASSUME NEW s, NEW p \in Packets, Sound(s, {p})
  PROVE  Sound(queueInbound(s, p), {}) /\ Kept(s, queueInbound(s, p))
<1> DEFINE t == queueInbound(s, p)
<1>1. t \in State
  BY DEF Sound, State, queueInbound
<1>2. /\ t.unused = s.unused /\ t.sendQ = s.sendQ /\ t.rxQ = s.rxQ \cup {p}
      /\ t.outbound = s.outbound /\ t.tx = s.tx /\ t.stray = s.stray /\ t.owed = s.owed
      /\ t.ring = s.ring
  BY DEF Sound, State, queueInbound
<1> QED BY <1>1, <1>2 DEF Sound, Shared, Held, OnAir, Ours, Kept

\* Taking a free packet puts it in hand.
LEMMA TakeSound ==
  ASSUME NEW s, NEW hand, Sound(s, hand), NEW p \in s.unused
  PROVE  /\ p \in Packets \ hand
         /\ Sound([s EXCEPT !.unused = @ \ {p}], hand \cup {p})
         /\ Kept(s, [s EXCEPT !.unused = @ \ {p}])
<1> DEFINE t == [s EXCEPT !.unused = @ \ {p}]
<1>1. p \in Packets \ hand /\ t \in State
  BY DEF Sound, Shared, State
<1>2. /\ t.unused = s.unused \ {p} /\ t.sendQ = s.sendQ /\ t.rxQ = s.rxQ
      /\ t.outbound = s.outbound /\ t.tx = s.tx /\ t.stray = s.stray /\ t.owed = s.owed
      /\ t.ring = s.ring
  BY DEF Sound, State
<1> QED BY <1>1, <1>2 DEF Sound, Shared, Held, OnAir, Ours, Kept

\* What does not touch the pool, the radio or the module's debts keeps a state sound.
LEMMA SameSound ==
  ASSUME NEW s, NEW hand, Sound(s, hand), NEW t \in State,
         t.unused = s.unused, t.sendQ = s.sendQ, t.rxQ = s.rxQ, t.outbound = s.outbound,
         t.tx = s.tx, t.stray = s.stray, t.owed = s.owed
  PROVE  Sound(t, hand)
  BY DEF Sound, Shared, Held, OnAir, Ours

LEMMA RecordSound ==
  ASSUME NEW s, NEW hand, Sound(s, hand)
  PROVE  Sound(Record(s), hand) /\ Kept(s, Record(s))
<1> DEFINE n == IF s.count < History THEN s.count + 1 ELSE s.count
           t == Record(s)
<1>0. n \in 0..History
  BY BoundsAssumption DEF Sound, State
<1>1. t \in State
  <2>1. t = [s EXCEPT !.count = n]
    BY DEF Record
  <2> HIDE DEF n, t
  <2> QED BY <1>0, <2>1 DEF Sound, State
<1>2. /\ t.unused = s.unused /\ t.sendQ = s.sendQ /\ t.rxQ = s.rxQ
      /\ t.outbound = s.outbound /\ t.tx = s.tx /\ t.stray = s.stray /\ t.owed = s.owed
      /\ t.ring = s.ring
  BY DEF Sound, State, Record
<1> QED BY <1>1, <1>2, SameSound DEF Kept

LEMMA ShowSound ==
  ASSUME NEW s, NEW hand, Sound(s, hand), NEW m \in Messages
  PROVE  Sound(Show(s, m), hand) /\ Kept(s, Show(s, m))
<1> DEFINE r == Record(s)
           t == Show(s, m)
<1>1. Sound(r, hand) /\ Kept(s, r)
  BY RecordSound
<1>2. t = [r EXCEPT !.shown[m] = IF @ < 2 THEN @ + 1 ELSE @]
  BY DEF Show
<1> HIDE DEF r, t
<1>3. t \in State
  <2> DEFINE f == [r.shown EXCEPT ![m] = IF @ < 2 THEN @ + 1 ELSE @]
  <2>1. f \in [Messages -> 0..2]
    <3>1. r.shown \in [Messages -> 0..2] /\ r.shown[m] \in 0..2
      BY <1>1 DEF Sound, State
    <3>2. (IF r.shown[m] < 2 THEN r.shown[m] + 1 ELSE r.shown[m]) \in 0..2
      BY <3>1
    <3> QED BY <3>1, <3>2
  <2>2. t = [r EXCEPT !.shown = f]
    BY <1>2
  <2> HIDE DEF f
  <2> QED BY <1>1, <2>1, <2>2 DEF Sound, State
<1>4. /\ t.unused = r.unused /\ t.sendQ = r.sendQ /\ t.rxQ = r.rxQ
      /\ t.outbound = r.outbound /\ t.tx = r.tx /\ t.stray = r.stray /\ t.owed = r.owed
      /\ t.ring = r.ring
  BY <1>1, <1>2 DEF Sound, State
<1>5. Sound(t, hand) /\ Kept(s, t)
  BY <1>1, <1>3, <1>4, SameSound DEF Kept
<1> QED BY <1>5 DEF t

LEMMA MarkSound ==
  ASSUME NEW s, NEW hand, Sound(s, hand), NEW m \in Messages
  PROVE  Sound(Mark(s, m), hand) /\ Kept(s, Mark(s, m))
<1> DEFINE t == Mark(s, m)
<1>1. t \in State
  BY DEF Sound, State, Mark
<1>2. /\ t.unused = s.unused /\ t.sendQ = s.sendQ /\ t.rxQ = s.rxQ
      /\ t.outbound = s.outbound /\ t.tx = s.tx /\ t.stray = s.stray /\ t.owed = s.owed
      /\ t.ring = s.ring
  BY DEF Sound, State, Mark
<1> QED BY <1>1, <1>2, SameSound DEF Kept

-----------------------------------------------------------------------------
(* The node. *)

LEMMA SendSound ==
  ASSUME NEW s, NEW hand, Sound(s, hand), NEW m \in Messages, NEW d \in BOOLEAN
  PROVE  Sound(Send(s, m, d), hand) /\ Kept(s, Send(s, m, d))
<1>1. CASE s.unused = {}
  BY <1>1 DEF Send, Kept
<1>2. CASE s.unused # {}
  <2> DEFINE p == First(s.unused)
             t == [s EXCEPT !.unused = @ \ {p}]
             u == Mark(t, m)
  <2>1. p \in s.unused
    BY <1>2, FirstIsMember
  <2>2. p \in Packets \ hand /\ Sound(t, hand \cup {p}) /\ Kept(s, t)
    BY <2>1, TakeSound
  <2>3. Send(s, m, d) = queueOutbound(u, p, m, d)
    BY <1>2 DEF Send
  <2> HIDE DEF p, t, u
  <2>4. Sound(u, hand \cup {p}) /\ Kept(s, u)
    BY <2>2, MarkSound DEF u, Kept
  <2> QED BY <2>2, <2>3, <2>4, QueueOutboundSound DEF Kept
<1> QED BY <1>1, <1>2

LEMMA OnRecvPacketSound ==
  ASSUME NEW s, NEW hand, Sound(s, hand), NEW m \in Messages
  PROVE  Sound(onRecvPacket(s, m), hand) /\ Kept(s, onRecvPacket(s, m))
<1>1. "path" \in Messages
  BY DEF Messages, Own
<1>2. Sound(Mark(s, m), hand) /\ Kept(s, Mark(s, m))
  BY MarkSound
<1>3. /\ Sound(Show(Mark(s, m), m), hand)
      /\ Kept(s, Show(Mark(s, m), m))
  BY <1>2, ShowSound DEF Kept
<1>4. /\ Sound(Send(Show(Mark(s, m), m), "path", TRUE), hand)
      /\ Kept(s, Send(Show(Mark(s, m), m), "path", TRUE))
  BY <1>1, <1>3, SendSound DEF Kept
<1>5. /\ Sound(Send(Mark(s, m), "path", TRUE), hand)
      /\ Kept(s, Send(Mark(s, m), "path", TRUE))
  BY <1>1, <1>2, SendSound DEF Kept
<1>6. Sound(Record(Mark(s, m)), hand) /\ Kept(s, Record(Mark(s, m)))
  BY <1>2, RecordSound DEF Kept
<1> QED BY <1>2, <1>3, <1>4, <1>5, <1>6 DEF onRecvPacket, Kept

\* A received packet in hand is always released.
LEMMA ProcessSound ==
  ASSUME NEW s, NEW p \in Packets, Sound(s, {p})
  PROVE  Sound(processRecvPacket(s, p), {}) /\ Kept(s, processRecvPacket(s, p))
<1>1. s.load[p] \in Messages
  BY DEF Sound, State
<1>2. Sound(onRecvPacket(s, s.load[p]), {p}) /\ Kept(s, onRecvPacket(s, s.load[p]))
  BY <1>1, OnRecvPacketSound
<1> QED BY <1>2, FreeSound DEF processRecvPacket, Kept

-----------------------------------------------------------------------------
(* The dispatcher: all outcomes of a pass are sound and no longer than what *)
(* the ring held.                                                           *)

After(s, t) ==
  /\ Sound(t, {}) /\ Len(t.ring) <= Len(s.ring)
  /\ s.outbound = None => t.outbound = None

LEMMA AfterIsTransitive ==
  ASSUME NEW s, NEW t, NEW u, s.ring \in Seq(Messages), After(s, t), After(t, u)
  PROVE  After(s, u)
<1>1. t.ring \in Seq(Messages) /\ u.ring \in Seq(Messages)
  BY DEF After, Sound, State
<1>2. Len(s.ring) \in Nat /\ Len(t.ring) \in Nat /\ Len(u.ring) \in Nat
  BY <1>1, LenProperties
<1> QED BY <1>2 DEF After

LEMMA KeptAfter ==
  ASSUME NEW s, NEW t, Sound(t, {}), Kept(s, t)
  PROVE  After(s, t)
<1>1. Len(t.ring) \in Nat
  BY LenProperties DEF Sound, State
<1> QED BY <1>1 DEF After, Kept

\* The packet on the air comes back to the pool.
LEMMA FinishedSound ==
  ASSUME NEW s, Sound(s, {}), s.outbound # None, NEW left \in BOOLEAN
  PROVE  /\ After(s, [Finished(s) EXCEPT !.budget = left])
         /\ [Finished(s) EXCEPT !.budget = left].outbound = None
<1> DEFINE p == s.outbound
           b == s.stray \/ (s.tx = "pending" /\ s.owed > 0)
           t == [Finished(s) EXCEPT !.budget = left]
<1>1. p \in Packets /\ "text" \in Messages
  BY DEF Sound, State, Messages, Own
<1>2. t = [s EXCEPT !.unused = @ \cup {p}, !.ripe = @ \ {p}, !.load[p] = "text",
                    !.outbound = None, !.tx = "idle", !.late = FALSE, !.stray = b,
                    !.budget = left]
  BY DEF Finished, free, Sound, State
<1> HIDE DEF t
<1>3. b \in BOOLEAN
  BY DEF Sound, State
<1> HIDE DEF b
<1>4. t \in State
  BY <1>1, <1>2, <1>3 DEF Sound, State
<1>5. /\ t.unused = s.unused \cup {p} /\ t.sendQ = s.sendQ /\ t.rxQ = s.rxQ
      /\ t.outbound = None /\ t.tx = "idle" /\ t.stray = b /\ t.owed = s.owed
      /\ t.ring = s.ring
  BY <1>2 DEF Sound, State
<1>6. Shared(t, {}) /\ OnAir(t)
  BY <1>1, <1>5, PoolAssumption DEF Sound, Shared, Held, OnAir
<1>7. Ours(t)
  <2>1. s.owed \in Nat /\ s.tx \in {"idle", "pending", "done"}
    BY DEF Sound, State
  <2>2. ~b => s.owed = 0
    <3>1. CASE s.tx = "pending"
      BY <2>1, <3>1 DEF b
    <3>2. CASE s.tx # "pending"
      BY <3>2 DEF Sound, Ours, b
    <3> QED BY <3>1, <3>2
  <2> QED BY <1>5, <2>1, <2>2 DEF Ours
<1>8. Len(s.ring) \in Nat
  BY LenProperties DEF Sound, State
<1> QED BY <1>4, <1>5, <1>6, <1>7, <1>8 DEF Sound, After, t

LEMMA CheckOutboundSound ==
  ASSUME NEW s, Sound(s, {}), NEW t \in checkOutbound(s)
  PROVE  After(s, t) /\ t.outbound = None
<1>1. CASE s.outbound = None
  BY <1>1, KeptAfter DEF checkOutbound, Kept
<1>2. CASE s.outbound # None
  <2>1. PICK left \in BOOLEAN : t = [Finished(s) EXCEPT !.budget = left]
    BY <1>2 DEF checkOutbound
  <2> QED BY <1>2, <2>1, FinishedSound
<1> QED BY <1>1, <1>2

LEMMA CheckInboundSound ==
  ASSUME NEW s, Sound(s, {}), NEW t \in checkInbound(s)
  PROVE  After(s, t)
<1>1. CASE s.rxQ \cap s.ripe = {}
  BY <1>1, KeptAfter DEF checkInbound, Kept
<1>2. CASE s.rxQ \cap s.ripe # {}
  <2>1. PICK p \in s.rxQ \cap s.ripe : t = processRecvPacket([s EXCEPT !.rxQ = @ \ {p}], p)
    BY <1>2 DEF checkInbound
  <2> DEFINE u == [s EXCEPT !.rxQ = @ \ {p}]
  <2>2. p \in Packets /\ u \in State
    BY <2>1 DEF Sound, State
  <2>3. /\ u.unused = s.unused /\ u.sendQ = s.sendQ /\ u.rxQ = s.rxQ \ {p}
        /\ u.outbound = s.outbound /\ u.tx = s.tx /\ u.stray = s.stray /\ u.owed = s.owed
        /\ u.ring = s.ring
    BY DEF Sound, State
  <2>4. Sound(u, {p})
    BY <2>1, <2>2, <2>3 DEF Sound, Shared, Held, OnAir, Ours
  <2> HIDE DEF u
  <2>5. Sound(processRecvPacket(u, p), {}) /\ Kept(u, processRecvPacket(u, p))
    BY <2>2, <2>4, ProcessSound
  <2> QED BY <2>1, <2>3, <2>5, KeptAfter DEF u, Kept
<1> QED BY <1>1, <1>2

\* Taking a packet off the ring.
LEMMA RingTaken ==
  ASSUME NEW s, Sound(s, {}), s.ring # <<>>
  PROVE  /\ Head(s.ring) \in Messages
         /\ After(s, [s EXCEPT !.ring = Tail(@)])
         /\ [s EXCEPT !.ring = Tail(@)].unused = s.unused
<1> DEFINE t == [s EXCEPT !.ring = Tail(@)]
<1>1. s.ring \in Seq(Messages)
  BY DEF Sound, State
<1>2. Head(s.ring) \in Messages /\ Tail(s.ring) \in Seq(Messages) /\ Len(s.ring) \in Nat
      /\ Len(Tail(s.ring)) = Len(s.ring) - 1
  BY <1>1, HeadTailProperties, LenProperties
<1>3. t \in State
  BY <1>2 DEF Sound, State
<1>4. /\ t.unused = s.unused /\ t.sendQ = s.sendQ /\ t.rxQ = s.rxQ
      /\ t.outbound = s.outbound /\ t.tx = s.tx /\ t.stray = s.stray /\ t.owed = s.owed
      /\ t.ring = Tail(s.ring)
  BY DEF Sound, State
<1> HIDE DEF t
<1>5. Sound(t, {})
  BY <1>3, <1>4, SameSound
<1> QED BY <1>2, <1>4, <1>5 DEF After, t

LEMMA CheckRecvSound ==
  ASSUME NEW s, Sound(s, {}), NEW t \in checkRecv(s)
  PROVE  After(s, t)
<1> DEFINE m == Head(s.ring)
           taken == [s EXCEPT !.ring = Tail(@)]
           p == First(s.unused)
           filled == [taken EXCEPT !.unused = @ \ {p}, !.load[p] = m]
<1>1. CASE s.ring = <<>>
  BY <1>1, KeptAfter DEF checkRecv, Kept
<1>2. CASE s.ring # <<>> /\ s.unused = {}
  <2>1. m \in Messages /\ After(s, taken)
    BY <1>2, RingTaken
  <2>2. t = [taken EXCEPT !.lost = @ \cup {m}]
    BY <1>2 DEF checkRecv
  <2> HIDE DEF m, taken
  <2>3. t \in State
    BY <2>1, <2>2 DEF After, Sound, State
  <2>4. /\ t.unused = taken.unused /\ t.sendQ = taken.sendQ /\ t.rxQ = taken.rxQ
        /\ t.outbound = taken.outbound /\ t.tx = taken.tx /\ t.stray = taken.stray
        /\ t.owed = taken.owed /\ t.ring = taken.ring
    BY <2>1, <2>2 DEF After, Sound, State
  <2> QED BY <2>1, <2>3, <2>4, SameSound DEF After
<1>3. CASE s.ring # <<>> /\ s.unused # {}
  <2>1. m \in Messages /\ After(s, taken) /\ taken.unused = s.unused
    BY <1>3, RingTaken
  <2>2. p \in taken.unused
    BY <1>3, <2>1, FirstIsMember
  <2>3. t \in {processRecvPacket(filled, p), queueInbound(filled, p)}
    BY <1>3 DEF checkRecv
  <2> HIDE DEF m, taken, p
  <2> DEFINE u == [taken EXCEPT !.unused = @ \ {p}]
  <2>4. p \in Packets /\ Sound(u, {p}) /\ Kept(taken, u)
    <3>1. Sound(taken, {})
      BY <2>1 DEF After
    <3>2. {} \cup {p} = {p}
      OBVIOUS
    <3>3. p \in Packets \ {} /\ Sound(u, {} \cup {p}) /\ Kept(taken, u)
      BY <2>2, <3>1, TakeSound
    <3> QED BY <3>2, <3>3
  <2>5. filled = [u EXCEPT !.load[p] = m]
    BY <2>1 DEF After, Sound, State
  <2> HIDE DEF u, filled
  <2>6. filled \in State
    BY <2>1, <2>4, <2>5 DEF Sound, State
  <2>7. /\ filled.unused = u.unused /\ filled.sendQ = u.sendQ /\ filled.rxQ = u.rxQ
        /\ filled.outbound = u.outbound /\ filled.tx = u.tx /\ filled.stray = u.stray
        /\ filled.owed = u.owed /\ filled.ring = u.ring
    BY <2>4, <2>5 DEF Sound, State
  <2>8. Sound(filled, {p}) /\ Kept(taken, filled)
    BY <2>4, <2>6, <2>7, SameSound DEF Kept
  <2>9. Sound(t, {}) /\ Kept(taken, t)
    BY <2>3, <2>4, <2>8, ProcessSound, QueueInboundSound DEF Kept
  <2> QED BY <2>1, <2>9 DEF After, Kept
<1> QED BY <1>1, <1>2, <1>3

\* A packet is put on the air only while nothing else is, and nothing is owed.
LEMMA StartSendRawSound ==
  ASSUME NEW s, Sound(s, {}), s.outbound = None, NEW p \in s.sendQ
  PROVE  Sound(startSendRaw(s, p), {}) /\ startSendRaw(s, p).ring = s.ring
<1> DEFINE out == [s EXCEPT !.sendQ = @ \ {p}]
<1>1. p \in Packets /\ out \in State /\ s.tx = "idle"
  BY DEF Sound, State, OnAir
<1>2. /\ out.unused = s.unused /\ out.sendQ = s.sendQ \ {p} /\ out.rxQ = s.rxQ
      /\ out.outbound = None /\ out.tx = "idle" /\ out.stray = s.stray
      /\ out.owed = s.owed /\ out.ring = s.ring /\ out.load = s.load
      /\ out.aired = s.aired
  BY <1>1 DEF Sound, State
<1>3. CASE s.link = "up"
  <2> DEFINE n == s.owed + 1
             a == s.aired \/ s.load[p] = "text"
             t == [out EXCEPT !.outbound = p, !.ripe = @ \ {p}, !.tx = "pending",
                              !.late = FALSE, !.owed = @ + 1, !.aired = a]
  <2>1. startSendRaw(s, p) = t
    BY <1>1, <1>2, <1>3 DEF startSendRaw
  <2>2. a \in BOOLEAN /\ n \in Nat
    BY DEF Sound, State
  <2>0. t = [s EXCEPT !.sendQ = @ \ {p}, !.outbound = p, !.ripe = @ \ {p},
                       !.tx = "pending", !.late = FALSE, !.owed = n, !.aired = a]
    BY DEF Sound, State
  <2> HIDE DEF n, a, out, t
  <2>3. t \in State
    BY <1>1, <2>0, <2>2 DEF Sound, State
  <2>4. /\ t.unused = s.unused /\ t.sendQ = s.sendQ \ {p} /\ t.rxQ = s.rxQ
        /\ t.outbound = p /\ t.tx = "pending" /\ t.stray = s.stray
        /\ t.owed = s.owed + 1 /\ t.ring = s.ring
    BY <1>1, <2>0 DEF Sound, State, n
  <2>5. Shared(t, {}) /\ OnAir(t)
    BY <1>1, <2>4, PoolAssumption DEF Sound, Shared, Held, OnAir
  <2>6. Ours(t)
    <3>1. ~s.stray => s.owed = 0
      BY <1>1 DEF Sound, Ours
    <3> QED BY <2>4, <3>1 DEF Ours
  <2> QED BY <2>1, <2>3, <2>4, <2>5, <2>6 DEF Sound
<1>4. CASE s.link # "up"
  <2>1. startSendRaw(s, p) = free(out, p)
    BY <1>4 DEF startSendRaw
  <2>2. Sound(out, {p})
    BY <1>1, <1>2 DEF Sound, Shared, Held, OnAir, Ours
  <2> HIDE DEF out
  <2> QED BY <1>1, <1>2, <2>1, <2>2, FreeSound DEF Kept
<1> QED BY <1>3, <1>4

LEMMA CheckSendSound ==
  ASSUME NEW s, Sound(s, {}), s.outbound = None, NEW t \in checkSend(s)
  PROVE  Sound(t, {}) /\ t.ring = s.ring
<1>1. t = s \/ \E p \in s.sendQ : t = startSendRaw(s, p)
  BY DEF checkSend, getNextOutbound
<1> QED BY <1>1, StartSendRawSound

\* A whole pass of Dispatcher::loop.
LEMMA NodeLoopSound ==
  ASSUME NEW s, Sound(s, {}), NEW t \in NodeLoop(s)
  PROVE  Sound(t, {}) /\ Len(t.ring) <= Len(s.ring)
<1>1. s.ring \in Seq(Messages)
  BY DEF Sound, State
<1>2. CASE s.outbound # None /\ ~Over(s)
  <2>1. Len(s.ring) \in Nat
    BY <1>1, LenProperties
  <2> QED BY <1>2, <2>1 DEF NodeLoop
<1>3. CASE ~(s.outbound # None /\ ~Over(s))
  <2>1. PICK a \in checkOutbound(s) : \E b \in checkInbound(a) :
          \E c \in checkRecv(b) : t \in checkSend(c)
    BY <1>3 DEF NodeLoop
  <2>2. PICK b \in checkInbound(a) : \E c \in checkRecv(b) : t \in checkSend(c)
    BY <2>1
  <2>3. PICK c \in checkRecv(b) : t \in checkSend(c)
    BY <2>2
  <2>4. After(s, a) /\ a.outbound = None
    BY <2>1, CheckOutboundSound
  <2>5. After(a, b)
    BY <2>2, <2>4, CheckInboundSound DEF After
  <2>6. After(b, c)
    BY <2>3, <2>5, CheckRecvSound DEF After
  <2>7. a.ring \in Seq(Messages)
    BY <2>4 DEF After, Sound, State
  <2>8. After(a, c)
    BY <2>5, <2>6, <2>7, AfterIsTransitive
  <2>9. After(s, c)
    BY <1>1, <2>4, <2>8, AfterIsTransitive
  <2>10. c.outbound = None
    BY <2>4, <2>8 DEF After
  <2>11. Sound(t, {}) /\ t.ring = c.ring
    BY <2>3, <2>9, <2>10, CheckSendSound DEF After
  <2> QED BY <2>9, <2>11 DEF After
<1> QED BY <1>2, <1>3

-----------------------------------------------------------------------------
(* The actions. *)

LEMMA EnqueueSound ==
  ASSUME NEW s, Sound(s, {}), NEW m \in Messages
  PROVE  Sound(enqueueHex(s, m), {}) /\ Len(enqueueHex(s, m).ring) = Len(s.ring) + 1
<1> DEFINE r == Append(s.ring, m)
           t == enqueueHex(s, m)
<1>1. s.ring \in Seq(Messages)
  BY DEF Sound, State
<1>2. r \in Seq(Messages) /\ Len(r) = Len(s.ring) + 1
  BY <1>1, AppendProperties
<1>3. t = [s EXCEPT !.ring = r]
  BY DEF enqueueHex
<1> HIDE DEF r, t
<1>4. t \in State
  BY <1>2, <1>3 DEF Sound, State
<1>5. /\ t.unused = s.unused /\ t.sendQ = s.sendQ /\ t.rxQ = s.rxQ
      /\ t.outbound = s.outbound /\ t.tx = s.tx /\ t.stray = s.stray /\ t.owed = s.owed
      /\ t.ring = r
  BY <1>3 DEF Sound, State
<1>6. Sound(t, {})
  BY <1>4, <1>5, SameSound
<1> QED BY <1>2, <1>5, <1>6 DEF t

LEMMA PollRecordSound ==
  ASSUME NEW s, Sound(s, {}), NEW before, NEW m \in Messages
  PROVE  Sound(pollRecord(s, before, m), {}) /\ Kept(s, pollRecord(s, before, m))
<1>1. Sound(Show(s, m), {}) /\ Kept(s, Show(s, m))
  BY ShowSound
<1>2. Sound(Record(s), {}) /\ Kept(s, Record(s))
  BY RecordSound
<1> QED BY <1>1, <1>2 DEF pollRecord, Kept

\* What else the state holds.
Counted ==
  /\ sends \in 0..MaxSends /\ hears \in 0..MaxHeard
  /\ heard \subseteq Messages /\ odd \subseteq Messages

IInv == Sound(g, {}) /\ Fits(g) /\ Counted

\* A step in which only the node changes.
LEMMA NodeStep ==
  ASSUME IInv, NEW s, Sound(s, {}), Len(s.ring) <= Len(g.ring),
         Node(s), sends' = sends \/ (sends < MaxSends /\ sends' = sends + 1)
  PROVE  IInv'
<1>1. g.ring \in Seq(Messages) /\ s.ring \in Seq(Messages)
  BY DEF IInv, Sound, State
<1>2. Len(g.ring) \in Nat /\ Len(s.ring) \in Nat
  BY <1>1, LenProperties
<1>3. Fits(g')
  BY <1>2, BoundsAssumption DEF IInv, Fits, Node
<1>4. Counted'
  BY BoundsAssumption DEF IInv, Counted, Node
<1> QED BY <1>3, <1>4 DEF IInv, Node

\* ... and no packet, report or transmission is touched.
LEMMA QuietStep ==
  ASSUME IInv, NEW s \in State, Node(s), UNCHANGED sends,
         s.unused = g.unused, s.sendQ = g.sendQ, s.rxQ = g.rxQ, s.outbound = g.outbound,
         s.tx = g.tx, s.stray = g.stray, s.owed = g.owed, s.ring = g.ring
  PROVE  IInv'
<1>1. Sound(s, {})
  BY SameSound DEF IInv
<1>2. Len(s.ring) <= Len(g.ring)
  <2>1. Len(g.ring) \in Nat
    BY LenProperties DEF IInv, Sound, State
  <2> QED BY <2>1
<1> QED BY <1>1, <1>2, NodeStep

LEMMA HandleRxStep ==
  ASSUME IInv, NEW m \in Messages, HandleRx(m)
  PROVE  IInv'
<1>1. Counted'
  BY BoundsAssumption DEF IInv, Counted, HandleRx
<1>2. CASE RingHasRoom(g)
  <2>1. PICK t \in NodeLoop(enqueueHex(g, m)) : g' = pollRecord(t, g.count, m)
    BY <1>2 DEF HandleRx
  <2>2. Sound(enqueueHex(g, m), {}) /\ Len(enqueueHex(g, m).ring) = Len(g.ring) + 1
    BY EnqueueSound DEF IInv
  <2>3. Sound(t, {}) /\ Len(t.ring) <= Len(g.ring) + 1
    BY <2>1, <2>2, NodeLoopSound
  <2>4. Sound(g', {}) /\ g'.ring = t.ring
    BY <2>1, <2>3, PollRecordSound DEF Kept
  <2>5. Len(g.ring) \in Nat /\ Len(t.ring) \in Nat
    BY <2>3, LenProperties DEF IInv, Sound, State
  <2>6. Fits(g')
    BY <1>2, <2>3, <2>4, <2>5, BoundsAssumption DEF RingHasRoom, Fits
  <2> QED BY <1>1, <2>4, <2>6 DEF IInv
<1>3. CASE ~RingHasRoom(g)
  <2> DEFINE r == pollRecord(g, g.count, m)
  <2>1. g' = [r EXCEPT !.lost = @ \cup {m}]
    BY <1>3 DEF HandleRx
  <2>2. Sound(r, {}) /\ Kept(g, r)
    BY PollRecordSound DEF IInv
  <2> HIDE DEF r
  <2>3. g' \in State
    BY <2>1, <2>2 DEF Sound, State
  <2>4. /\ g'.unused = r.unused /\ g'.sendQ = r.sendQ /\ g'.rxQ = r.rxQ
        /\ g'.outbound = r.outbound /\ g'.tx = r.tx /\ g'.stray = r.stray
        /\ g'.owed = r.owed /\ g'.ring = r.ring
    BY <2>1, <2>2 DEF Sound, State
  <2>5. Sound(g', {})
    BY <2>2, <2>3, <2>4, SameSound
  <2>6. Fits(g')
    BY <2>2, <2>4 DEF IInv, Fits, Kept
  <2> QED BY <1>1, <2>5, <2>6 DEF IInv
<1> QED BY <1>2, <1>3

\* A report ends the transmission it is about, as nothing else is owed.
LEMMA TxReportStep ==
  ASSUME IInv, TxReport
  PROVE  IInv'
<1> DEFINE n == g.owed - 1
           l == IF g.link = "busy" THEN "up" ELSE g.link
           x == IF g.tx = "pending" THEN "done" ELSE g.tx
           t == [g EXCEPT !.owed = n, !.link = l, !.tx = x]
<1>1. g \in State /\ g.owed \in Nat /\ g.owed > 0
  BY DEF IInv, Sound, State, TxReport
<1>2. Node(t) /\ UNCHANGED sends
  BY <1>1 DEF TxReport, Line, State
<1>3. n \in Nat /\ l \in {"down", "busy", "up"} /\ x \in {"idle", "pending", "done"}
  BY <1>1 DEF State
<1>4. x = "idle" <=> g.tx = "idle"
  BY <1>1 DEF State
<1>5. ~g.stray => n = 0
  BY <1>1 DEF IInv, Sound, Ours
<1> HIDE DEF n, l, x
<1>6. t \in State
  BY <1>1, <1>3 DEF State
<1>7. /\ t.unused = g.unused /\ t.sendQ = g.sendQ /\ t.rxQ = g.rxQ
      /\ t.outbound = g.outbound /\ t.tx = x /\ t.stray = g.stray /\ t.owed = n
      /\ t.ring = g.ring
  BY <1>1 DEF State
<1> HIDE DEF t
<1>8. Sound(t, {})
  BY <1>4, <1>5, <1>6, <1>7 DEF IInv, Sound, Shared, Held, OnAir, Ours
<1>9. Len(g.ring) \in Nat
  BY <1>1, LenProperties DEF State
<1> QED BY <1>2, <1>7, <1>8, <1>9, NodeStep

LEMMA TxUnreportedStep ==
  ASSUME IInv, TxUnreported
  PROVE  IInv'
<1> DEFINE n == g.owed - 1
           l == IF g.link = "busy" THEN "up" ELSE g.link
<1>1. g \in State /\ g.owed \in Nat /\ g.owed > 0
  BY DEF IInv, Sound, State, TxUnreported
<1>2. n \in Nat /\ l \in {"down", "busy", "up"}
  BY <1>1 DEF State
<1>3. PICK k \in {l, g.link} : Node([g EXCEPT !.owed = n, !.link = k]) /\ UNCHANGED sends
  <2>1. [g EXCEPT !.owed = n] = [g EXCEPT !.owed = n, !.link = g.link]
    BY <1>1 DEF State
  <2> QED BY <1>1, <2>1 DEF TxUnreported, Line, State
<1> DEFINE t == [g EXCEPT !.owed = n, !.link = k]
<1>4. k \in {"down", "busy", "up"}
  BY <1>1, <1>2 DEF State
<1>5. /\ ~g.stray => n = 0
  BY <1>1 DEF IInv, Sound, Ours
<1> HIDE DEF n, l
<1>6. t \in State
  BY <1>1, <1>2, <1>4 DEF State
<1>7. /\ t.unused = g.unused /\ t.sendQ = g.sendQ /\ t.rxQ = g.rxQ
      /\ t.outbound = g.outbound /\ t.tx = g.tx /\ t.stray = g.stray /\ t.owed = n
      /\ t.ring = g.ring
  BY <1>1 DEF State
<1>8. Node(t) /\ UNCHANGED sends
  BY <1>3
<1> HIDE DEF t
<1>9. Sound(t, {})
  BY <1>5, <1>6, <1>7 DEF IInv, Sound, Shared, Held, OnAir, Ours
<1>10. Len(g.ring) \in Nat
  BY <1>1, LenProperties DEF State
<1> QED BY <1>7, <1>8, <1>9, <1>10, NodeStep

LEMMA OwnMessages ==
  {"localAdvert", "text", "request", "path", "floodAdvert"} \subseteq Messages
  BY DEF Messages, Own

LEMMA DeferredAdvertSound ==
  ASSUME NEW s, Sound(s, {})
  PROVE  Sound(deferredAdvert(s), {}) /\ deferredAdvert(s).ring = s.ring
<1>1. CASE ~(s.advert # "no" /\ s.link = "up")
  BY <1>1 DEF deferredAdvert
<1>2. CASE s.advert # "no" /\ s.link = "up"
  <2> DEFINE m == IF s.advert = "flood" THEN "floodAdvert" ELSE "localAdvert"
             t == Send(s, m, FALSE)
             u == [t EXCEPT !.advert = "no"]
  <2>1. deferredAdvert(s) = u
    BY <1>2 DEF deferredAdvert
  <2>2. Sound(t, {}) /\ Kept(s, t)
    BY OwnMessages, SendSound
  <2> HIDE DEF t
  <2>3. u \in State
    BY <2>2 DEF Sound, State
  <2>4. /\ u.unused = t.unused /\ u.sendQ = t.sendQ /\ u.rxQ = t.rxQ
        /\ u.outbound = t.outbound /\ u.tx = t.tx /\ u.stray = t.stray
        /\ u.owed = t.owed /\ u.ring = t.ring
    BY <2>2 DEF Sound, State
  <2> HIDE DEF u
  <2>5. Sound(u, {})
    BY <2>2, <2>3, <2>4, SameSound
  <2> QED BY <2>1, <2>2, <2>4, <2>5 DEF Kept
<1> QED BY <1>1, <1>2

LEMMA MeshLoopStep ==
  ASSUME IInv, MeshLoop
  PROVE  IInv'
<1>1. PICK t \in NodeLoop(g) :
        \/ Node(deferredAdvert(t)) /\ UNCHANGED sends
        \/ /\ sends < MaxSends /\ sends' = sends + 1
           /\ \/ t.link = "up" /\ Over(t) /\ Node(deferredAdvert(Send(t, "request", FALSE)))
              \/ t.link # "down" /\ Node(Send(deferredAdvert(t), "localAdvert", FALSE))
  BY DEF MeshLoop
<1>2. Sound(t, {}) /\ Len(t.ring) <= Len(g.ring)
  BY <1>1, NodeLoopSound DEF IInv
<1>3. Sound(deferredAdvert(t), {}) /\ deferredAdvert(t).ring = t.ring
  BY <1>2, DeferredAdvertSound
<1>4. /\ Sound(Send(t, "request", FALSE), {})
      /\ Send(t, "request", FALSE).ring = t.ring
  BY <1>2, OwnMessages, SendSound DEF Kept
<1>5. /\ Sound(deferredAdvert(Send(t, "request", FALSE)), {})
      /\ deferredAdvert(Send(t, "request", FALSE)).ring = t.ring
  BY <1>4, DeferredAdvertSound
<1>6. /\ Sound(Send(deferredAdvert(t), "localAdvert", FALSE), {})
      /\ Send(deferredAdvert(t), "localAdvert", FALSE).ring = t.ring
  BY <1>3, OwnMessages, SendSound DEF Kept
<1> QED BY <1>1, <1>2, <1>3, <1>5, <1>6, NodeStep

\* The ring as it is.
LEMMA SameLength ==
  ASSUME IInv, NEW s, s.ring = g.ring
  PROVE  Len(s.ring) <= Len(g.ring)
<1>1. Len(g.ring) \in Nat
  BY LenProperties DEF IInv, Sound, State
<1> QED BY <1>1

LEMMA RequestStep ==
  ASSUME IInv, requestSelectedMeshTelemetry
  PROVE  IInv'
<1> DEFINE t == Send(g, "request", FALSE)
<1>1. Sound(t, {}) /\ t.ring = g.ring
  BY OwnMessages, SendSound DEF IInv, Kept
<1>2. sends < MaxSends /\ sends' = sends + 1 /\ Node(t)
  BY DEF requestSelectedMeshTelemetry
<1> QED BY <1>1, <1>2, SameLength, NodeStep

LEMMA AdvertStep ==
  ASSUME IInv, NEW flood \in BOOLEAN, requestTab5MeshCoreAdvert(flood)
  PROVE  IInv'
<1>1. CASE g.link = "down"
  <2> DEFINE a == IF flood \/ g.advert = "flood" THEN "flood" ELSE "local"
             t == [g EXCEPT !.advert = a]
  <2>1. g \in State
    BY DEF IInv, Sound
  <2>2. Node(t) /\ sends < MaxSends /\ sends' = sends + 1
    BY <1>1, <2>1 DEF requestTab5MeshCoreAdvert, State
  <2>3. a \in {"no", "local", "flood"}
    OBVIOUS
  <2> HIDE DEF a
  <2>4. t \in State
    BY <2>1, <2>3 DEF State
  <2>5. /\ t.unused = g.unused /\ t.sendQ = g.sendQ /\ t.rxQ = g.rxQ
        /\ t.outbound = g.outbound /\ t.tx = g.tx /\ t.stray = g.stray
        /\ t.owed = g.owed /\ t.ring = g.ring
    BY <2>1 DEF State
  <2> HIDE DEF t
  <2>6. Sound(t, {})
    BY <2>4, <2>5, SameSound DEF IInv
  <2> QED BY <2>2, <2>5, <2>6, SameLength, NodeStep
<1>2. CASE g.link # "down"
  <2> DEFINE m == IF flood THEN "floodAdvert" ELSE "localAdvert"
             t == Send(g, m, FALSE)
  <2>1. Sound(t, {}) /\ t.ring = g.ring
    BY OwnMessages, SendSound DEF IInv, Kept
  <2>2. sends < MaxSends /\ sends' = sends + 1 /\ Node(t)
    BY <1>2 DEF requestTab5MeshCoreAdvert
  <2> QED BY <2>1, <2>2, SameLength, NodeStep
<1> QED BY <1>1, <1>2

\* A message past the dispatcher is owed a report that no packet waits for.
LEMMA TextStep ==
  ASSUME IInv, sendLoraTextMessage
  PROVE  IInv'
<1>1. sends < MaxSends /\ sends' = sends + 1
  BY DEF sendLoraTextMessage
<1>2. CASE g.unused # {} /\ Node(Record(Send(g, "text", FALSE)))
  <2>1. Sound(Send(g, "text", FALSE), {}) /\ Send(g, "text", FALSE).ring = g.ring
    BY OwnMessages, SendSound DEF IInv, Kept
  <2>2. /\ Sound(Record(Send(g, "text", FALSE)), {})
        /\ Record(Send(g, "text", FALSE)).ring = g.ring
    BY <2>1, RecordSound DEF Kept
  <2> QED BY <1>1, <1>2, <2>2, SameLength, NodeStep
<1>3. CASE Node(g)
  BY <1>1, <1>3, SameLength, NodeStep DEF IInv
<1>4. CASE Node([Record(g) EXCEPT !.link = "busy", !.owed = @ + 1, !.stray = TRUE,
                                  !.aired = TRUE])
  <2> DEFINE r == Record(g)
             n == r.owed + 1
             t == [r EXCEPT !.link = "busy", !.owed = n, !.stray = TRUE, !.aired = TRUE]
  <2>1. Sound(r, {}) /\ Kept(g, r)
    BY RecordSound DEF IInv
  <2>2. Node(t)
    BY <1>4
  <2> HIDE DEF r
  <2>3. n \in Nat
    BY <2>1 DEF Sound, State
  <2> HIDE DEF n
  <2>4. t \in State
    BY <2>1, <2>3 DEF Sound, State
  <2>5. /\ t.unused = r.unused /\ t.sendQ = r.sendQ /\ t.rxQ = r.rxQ
        /\ t.outbound = r.outbound /\ t.tx = r.tx /\ t.stray = TRUE /\ t.ring = r.ring
    BY <2>1 DEF Sound, State
  <2> HIDE DEF t
  <2>6. Sound(t, {})
    BY <2>1, <2>4, <2>5 DEF Sound, Shared, Held, OnAir, Ours
  <2>7. t.ring = g.ring
    BY <2>1, <2>5 DEF Kept
  <2> QED BY <1>1, <2>2, <2>6, <2>7, SameLength, NodeStep
<1> QED BY <1>2, <1>3, <1>4 DEF sendLoraTextMessage

LEMMA WorldStep ==
  ASSUME IInv, LinkChanges \/ Ripen \/ AirtimeOver \/ BudgetRefilled
  PROVE  IInv'
<1>0. g \in State
  BY DEF IInv, Sound
<1>1. CASE LinkChanges
  <2>1. PICK to \in {"down", "busy", "up"} : Node([g EXCEPT !.link = to]) /\ UNCHANGED sends
    BY <1>1 DEF LinkChanges
  <2> DEFINE t == [g EXCEPT !.link = to]
  <2>2. t \in State
    BY <1>0 DEF State
  <2>3. /\ t.unused = g.unused /\ t.sendQ = g.sendQ /\ t.rxQ = g.rxQ
        /\ t.outbound = g.outbound /\ t.tx = g.tx /\ t.stray = g.stray
        /\ t.owed = g.owed /\ t.ring = g.ring
    BY <1>0 DEF State
  <2> QED BY <2>1, <2>2, <2>3, QuietStep
<1>2. CASE Ripen
  <2>1. PICK p \in (g.sendQ \cup g.rxQ) \ g.ripe :
          Node([g EXCEPT !.ripe = @ \cup {p}]) /\ UNCHANGED sends
    BY <1>2 DEF Ripen
  <2> DEFINE t == [g EXCEPT !.ripe = @ \cup {p}]
  <2>2. t \in State
    BY <1>0, <2>1 DEF State
  <2>3. /\ t.unused = g.unused /\ t.sendQ = g.sendQ /\ t.rxQ = g.rxQ
        /\ t.outbound = g.outbound /\ t.tx = g.tx /\ t.stray = g.stray
        /\ t.owed = g.owed /\ t.ring = g.ring
    BY <1>0 DEF State
  <2> QED BY <2>1, <2>2, <2>3, QuietStep
<1>3. CASE AirtimeOver
  <2> DEFINE t == [g EXCEPT !.late = TRUE]
  <2>1. Node(t) /\ UNCHANGED sends
    BY <1>3 DEF AirtimeOver
  <2>2. t \in State
    BY <1>0 DEF State
  <2>3. /\ t.unused = g.unused /\ t.sendQ = g.sendQ /\ t.rxQ = g.rxQ
        /\ t.outbound = g.outbound /\ t.tx = g.tx /\ t.stray = g.stray
        /\ t.owed = g.owed /\ t.ring = g.ring
    BY <1>0 DEF State
  <2> QED BY <2>1, <2>2, <2>3, QuietStep
<1>4. CASE BudgetRefilled
  <2> DEFINE t == [g EXCEPT !.budget = TRUE]
  <2>1. Node(t) /\ UNCHANGED sends
    BY <1>4 DEF BudgetRefilled
  <2>2. t \in State
    BY <1>0 DEF State
  <2>3. /\ t.unused = g.unused /\ t.sendQ = g.sendQ /\ t.rxQ = g.rxQ
        /\ t.outbound = g.outbound /\ t.tx = g.tx /\ t.stray = g.stray
        /\ t.owed = g.owed /\ t.ring = g.ring
    BY <1>0 DEF State
  <2> QED BY <2>1, <2>2, <2>3, QuietStep
<1> QED BY <1>1, <1>2, <1>3, <1>4

LEMMA Initially ==
  ASSUME Init
  PROVE  IInv
<1>1. "text" \in Messages /\ <<>> \in Seq(Messages) /\ Len(<<>>) = 0
  BY OwnMessages, EmptySeq
<1>2. 0 \in 0..History /\ 0 \in 0..MaxSends /\ 0 \in 0..MaxHeard /\ 0 <= RingSize
  BY BoundsAssumption
<1>3. g \in State
  BY <1>1, <1>2 DEF Init, State
<1>4. Shared(g, {}) /\ OnAir(g) /\ Ours(g)
  BY DEF Init, Shared, Held, OnAir, Ours
<1>5. Fits(g) /\ Counted
  BY <1>1, <1>2 DEF Init, Fits, Counted
<1> QED BY <1>3, <1>4, <1>5 DEF IInv, Sound

LEMMA Inductive ==
  ASSUME IInv, [Next]_vars
  PROVE  IInv'
<1>1. CASE UNCHANGED vars
  BY <1>1 DEF vars, IInv, Counted
<1>2. CASE Next
  BY <1>2, HandleRxStep, TxReportStep, TxUnreportedStep, MeshLoopStep, TextStep,
     RequestStep, AdvertStep, WorldStep DEF Next
<1> QED BY <1>1, <1>2

-----------------------------------------------------------------------------
(* What is shown.  A message that waits in the ring or in the inbound queue *)
(* is odd, as it was not handled in the call that brought it; any other is  *)
(* shown by the node once at most, and if it was, the number of records has *)
(* grown, so that the line handler does not show it again.                  *)

Ringed(s) == {s.ring[i] : i \in DOMAIN s.ring}
Queued(s) == {s.load[p] : p \in s.rxQ}
Waiting(s) == Ringed(s) \cup Queued(s)

HInv ==
  /\ Waiting(g) \subseteq odd /\ odd \subseteq heard
  /\ \A m \in Heard : g.shown[m] > 0 => m \in heard
  /\ ShownOnce

\* The message m is shown once more at most, and then there is a record of it.
Once(s, t, m) ==
  t.shown[m] <= s.shown[m] + 1 /\ (s.count < History => s.count < t.count)

\* What waits stays as it is; of the messages, those in X are shown once more at most.
Heeds(s, t, X) ==
  /\ t.ring = s.ring /\ t.rxQ = s.rxQ /\ \A q \in s.rxQ : t.load[q] = s.load[q]
  /\ s.count \in Nat /\ t.count \in Nat /\ s.count <= t.count
  /\ \A m \in Heard : t.shown[m] # s.shown[m] => m \in X /\ Once(s, t, m)
Calm(s, t) == Heeds(s, t, {})

LEMMA HeardAre ==
  /\ Heard \subseteq Messages /\ "text" \notin Heard /\ Public \cup Direct \subseteq Heard
  BY MessagesAssumption DEF Heard, Messages, Own

LEMMA StateFacts ==
  ASSUME NEW s \in State
  PROVE  /\ s.count \in Nat /\ s.count <= History /\ s.count \in 0..History
         /\ s.shown \in [Messages -> 0..2] /\ \A m \in Heard : s.shown[m] \in 0..2
         /\ s.ring \in Seq(Messages) /\ s.rxQ \subseteq Packets
         /\ s.load \in [Packets -> Messages]
  BY HeardAre, BoundsAssumption DEF State

LEMMA CalmSame ==
  ASSUME NEW s \in State, NEW t, t.ring = s.ring, t.rxQ = s.rxQ, t.load = s.load,
         t.count = s.count, t.shown = s.shown
  PROVE  Calm(s, t)
  BY StateFacts DEF Calm, Heeds

LEMMA CalmThen ==
  ASSUME NEW s, NEW t, NEW u, NEW X, Calm(s, t), Heeds(t, u, X)
  PROVE  Heeds(s, u, X)
<1>1. s.count \in Nat /\ t.count \in Nat /\ u.count \in Nat /\ s.count <= t.count
      /\ t.count <= u.count /\ History \in Nat
  BY BoundsAssumption DEF Calm, Heeds
<1>2. ASSUME NEW m \in Heard, u.shown[m] # s.shown[m]
      PROVE  m \in X /\ Once(s, u, m)
  <2>1. t.shown[m] = s.shown[m]
    BY DEF Calm, Heeds
  <2>2. m \in X /\ Once(t, u, m)
    BY <1>2, <2>1 DEF Heeds
  <2> QED BY <1>1, <2>1, <2>2 DEF Once
<1> QED BY <1>1, <1>2 DEF Calm, Heeds

LEMMA ThenCalm ==
  ASSUME NEW s, NEW t, NEW u, NEW X, Heeds(s, t, X), Calm(t, u)
  PROVE  Heeds(s, u, X)
<1>1. s.count \in Nat /\ t.count \in Nat /\ u.count \in Nat /\ s.count <= t.count
      /\ t.count <= u.count
  BY DEF Calm, Heeds
<1>2. ASSUME NEW m \in Heard, u.shown[m] # s.shown[m]
      PROVE  m \in X /\ Once(s, u, m)
  <2>1. u.shown[m] = t.shown[m]
    BY DEF Calm, Heeds
  <2>2. m \in X /\ Once(s, t, m)
    BY <1>2, <2>1 DEF Heeds
  <2> QED BY <1>1, <2>1, <2>2 DEF Once
<1> QED BY <1>1, <1>2 DEF Calm, Heeds

LEMMA HeedsSame ==
  ASSUME NEW s, NEW t, NEW X, Calm(s, t)
  PROVE  Heeds(s, t, X)
  BY DEF Calm, Heeds

LEMMA FreeCalm ==
  ASSUME NEW s \in State, NEW p \in Packets, p \notin s.rxQ
  PROVE  Calm(s, free(s, p))
<1> DEFINE t == free(s, p)
<1>1. /\ t.ring = s.ring /\ t.rxQ = s.rxQ /\ t.count = s.count /\ t.shown = s.shown
      /\ t.load = [s.load EXCEPT ![p] = "text"]
  BY DEF free, State
<1> HIDE DEF t
<1>2. \A q \in s.rxQ : t.load[q] = s.load[q]
  BY <1>1, StateFacts
<1>3. Calm(s, t)
  BY <1>1, <1>2, StateFacts DEF Calm, Heeds
<1> QED BY <1>3 DEF t

LEMMA QueueOutboundCalm ==
  ASSUME NEW s \in State, NEW p \in Packets, p \notin s.rxQ, NEW m, NEW d
  PROVE  Calm(s, queueOutbound(s, p, m, d))
<1> DEFINE t == queueOutbound(s, p, m, d)
<1>1. /\ t.ring = s.ring /\ t.rxQ = s.rxQ /\ t.count = s.count /\ t.shown = s.shown
      /\ t.load = [s.load EXCEPT ![p] = m]
  BY DEF queueOutbound, State
<1> HIDE DEF t
<1>2. \A q \in s.rxQ : t.load[q] = s.load[q]
  BY <1>1, StateFacts
<1>3. Calm(s, t)
  BY <1>1, <1>2, StateFacts DEF Calm, Heeds
<1> QED BY <1>3 DEF t

LEMMA MarkCalm ==
  ASSUME NEW s \in State, NEW m
  PROVE  Calm(s, Mark(s, m))
<1>1. /\ Mark(s, m).ring = s.ring /\ Mark(s, m).rxQ = s.rxQ /\ Mark(s, m).load = s.load
      /\ Mark(s, m).count = s.count /\ Mark(s, m).shown = s.shown
  BY DEF Mark, State
<1> QED BY <1>1, CalmSame

LEMMA RecordCounts ==
  ASSUME NEW s \in State
  PROVE  /\ Record(s).ring = s.ring /\ Record(s).rxQ = s.rxQ /\ Record(s).load = s.load
         /\ Record(s).shown = s.shown
         /\ Record(s).count \in Nat /\ s.count <= Record(s).count
         /\ s.count < History => s.count < Record(s).count
<1> DEFINE n == IF s.count < History THEN s.count + 1 ELSE s.count
<1>1. Record(s) = [s EXCEPT !.count = n]
  BY DEF Record
<1>2. n \in Nat /\ s.count <= n /\ (s.count < History => s.count < n)
  BY StateFacts
<1> HIDE DEF n
<1> QED BY <1>1, <1>2 DEF State

LEMMA RecordCalm ==
  ASSUME NEW s \in State
  PROVE  Calm(s, Record(s))
  BY RecordCounts, StateFacts DEF Calm, Heeds

LEMMA ShowHeeds ==
  ASSUME NEW s, NEW hand, Sound(s, hand), NEW m \in Messages
  PROVE  Heeds(s, Show(s, m), {m})
<1> DEFINE r == Record(s)
           v == IF s.shown[m] < 2 THEN s.shown[m] + 1 ELSE s.shown[m]
           t == Show(s, m)
<1>1. s \in State /\ r \in State
  BY RecordSound DEF Sound
<1>2. /\ r.ring = s.ring /\ r.rxQ = s.rxQ /\ r.load = s.load /\ r.shown = s.shown
      /\ r.count \in Nat /\ s.count <= r.count /\ (s.count < History => s.count < r.count)
  BY <1>1, RecordCounts
<1>3. t = [r EXCEPT !.shown[m] = v]
  BY <1>1, <1>2 DEF Show
<1>4. s.shown \in [Messages -> 0..2] /\ v <= s.shown[m] + 1 /\ s.count \in Nat
  BY <1>1, StateFacts
<1> HIDE DEF r, v, t
<1>5. /\ t.ring = s.ring /\ t.rxQ = s.rxQ /\ t.load = s.load /\ t.count = r.count
      /\ t.shown = [s.shown EXCEPT ![m] = v]
  BY <1>1, <1>2, <1>3 DEF State
<1>6. t.shown[m] = v /\ \A x \in Heard \ {m} : t.shown[x] = s.shown[x]
  BY <1>4, <1>5, HeardAre
<1>7. Heeds(s, t, {m})
  BY <1>2, <1>4, <1>5, <1>6 DEF Heeds, Once
<1> QED BY <1>7 DEF t

LEMMA SendCalm ==
  ASSUME NEW s, NEW hand, Sound(s, hand), NEW m \in Messages, NEW d \in BOOLEAN
  PROVE  Calm(s, Send(s, m, d))
<1>0. s \in State
  BY DEF Sound
<1>1. CASE s.unused = {}
  BY <1>0, <1>1, CalmSame DEF Send
<1>2. CASE s.unused # {}
  <2> DEFINE p == First(s.unused)
             t == [s EXCEPT !.unused = @ \ {p}]
             u == Mark(t, m)
  <2>1. p \in s.unused
    BY <1>2, FirstIsMember
  <2>2. p \in Packets /\ p \notin s.rxQ /\ t \in State
    BY <2>1 DEF Sound, Shared, State
  <2>3. Send(s, m, d) = queueOutbound(u, p, m, d)
    BY <1>2 DEF Send
  <2>4. /\ t.ring = s.ring /\ t.rxQ = s.rxQ /\ t.load = s.load /\ t.count = s.count
        /\ t.shown = s.shown
    BY <1>0 DEF State
  <2> HIDE DEF p, t
  <2>5. Calm(s, t) /\ Calm(t, u)
    BY <1>0, <2>2, <2>4, CalmSame, MarkCalm
  <2>6. u \in State /\ u.rxQ = s.rxQ
    BY <2>2, <2>4 DEF Mark, State
  <2> HIDE DEF u
  <2>7. Calm(u, queueOutbound(u, p, m, d))
    BY <2>2, <2>6, QueueOutboundCalm
  <2> QED BY <2>3, <2>5, <2>7, CalmThen DEF Calm
<1> QED BY <1>1, <1>2

LEMMA OnRecvPacketHeeds ==
  ASSUME NEW s, NEW hand, Sound(s, hand), NEW m \in Messages
  PROVE  Heeds(s, onRecvPacket(s, m), {m})
<1> DEFINE a == Mark(s, m)
           b == Show(a, m)
<1>1. "path" \in Messages /\ s \in State
  BY DEF Messages, Own, Sound
<1>2. Sound(a, hand) /\ Calm(s, a)
  BY <1>1, MarkSound, MarkCalm
<1>3. Sound(b, hand) /\ Heeds(a, b, {m})
  BY <1>2, ShowSound, ShowHeeds
<1> HIDE DEF a, b
<1>4. Heeds(s, b, {m})
  BY <1>2, <1>3, CalmThen
<1>5. Calm(b, Send(b, "path", TRUE))
  BY <1>1, <1>3, SendCalm
<1>6. Heeds(s, Send(b, "path", TRUE), {m})
  BY <1>4, <1>5, ThenCalm
<1>7. Heeds(s, s, {m}) /\ Heeds(s, a, {m})
  BY <1>1, <1>2, CalmSame, HeedsSame
<1>8. a \in State /\ Calm(a, Send(a, "path", TRUE)) /\ Calm(a, Record(a))
  BY <1>1, <1>2, SendCalm, RecordCalm DEF Sound
<1>9. Heeds(s, Send(a, "path", TRUE), {m}) /\ Heeds(s, Record(a), {m})
  BY <1>7, <1>8, ThenCalm
<1> QED BY <1>4, <1>6, <1>7, <1>9 DEF onRecvPacket, a, b

LEMMA ProcessHeeds ==
  ASSUME NEW s, NEW p \in Packets, Sound(s, {p})
  PROVE  Heeds(s, processRecvPacket(s, p), {s.load[p]})
<1> DEFINE t == onRecvPacket(s, s.load[p])
<1>1. s.load[p] \in Messages /\ p \notin s.rxQ
  BY DEF Sound, Shared, State
<1>2. Sound(t, {p}) /\ Heeds(s, t, {s.load[p]})
  BY <1>1, OnRecvPacketSound, OnRecvPacketHeeds
<1> HIDE DEF t
<1>3. t \in State /\ p \notin t.rxQ
  BY <1>1, <1>2 DEF Sound, Heeds
<1>4. Calm(t, free(t, p))
  BY <1>3, FreeCalm
<1> QED BY <1>2, <1>4, ThenCalm DEF processRecvPacket, t

\* A pass handles what waits, each of the ring once.
Passes(s, t) ==
  /\ Queued(t) \subseteq Waiting(s) /\ Ringed(t) \subseteq Ringed(s)
  /\ s.count \in Nat /\ t.count \in Nat /\ s.count <= t.count
  /\ \A m \in Heard : t.shown[m] # s.shown[m] =>
       m \in Waiting(s) /\ (m \in Queued(s) \/ Once(s, t, m))

LEMMA CheckOutboundCalm ==
  ASSUME NEW s, Sound(s, {}), NEW t \in checkOutbound(s)
  PROVE  Calm(s, t)
<1>0. s \in State
  BY DEF Sound
<1>1. CASE s.outbound = None
  BY <1>0, <1>1, CalmSame DEF checkOutbound
<1>2. CASE s.outbound # None
  <2>1. PICK left \in BOOLEAN : t = [Finished(s) EXCEPT !.budget = left]
    BY <1>2 DEF checkOutbound
  <2> DEFINE u == free(s, s.outbound)
  <2>2. s.outbound \in Packets /\ s.outbound \notin s.rxQ
    BY <1>2 DEF Sound, Shared, Held, State
  <2>3. Calm(s, u)
    BY <1>0, <2>2, FreeCalm
  <2>4. u \in State
    BY <1>0, <2>2, OwnMessages DEF free, State
  <2>5. /\ t.ring = u.ring /\ t.rxQ = u.rxQ /\ t.load = u.load /\ t.count = u.count
        /\ t.shown = u.shown
    BY <1>0, <2>1 DEF Finished, free, State
  <2> HIDE DEF u
  <2>6. Calm(u, t)
    BY <2>4, <2>5, CalmSame
  <2> QED BY <2>3, <2>6, CalmThen DEF Calm
<1> QED BY <1>1, <1>2

\* Only packets of the inbound queue are handled.
LEMMA CheckInboundPasses ==
  ASSUME NEW s, Sound(s, {}), NEW t \in checkInbound(s)
  PROVE  /\ t.ring = s.ring /\ Queued(t) \subseteq Queued(s)
         /\ s.count \in Nat /\ t.count \in Nat /\ s.count <= t.count
         /\ \A m \in Heard : t.shown[m] # s.shown[m] => m \in Queued(s)
<1>0. s \in State
  BY DEF Sound
<1>1. CASE s.rxQ \cap s.ripe = {}
  BY <1>0, <1>1, StateFacts DEF checkInbound
<1>2. CASE s.rxQ \cap s.ripe # {}
  <2>1. PICK p \in s.rxQ \cap s.ripe : t = processRecvPacket([s EXCEPT !.rxQ = @ \ {p}], p)
    BY <1>2 DEF checkInbound
  <2> DEFINE u == [s EXCEPT !.rxQ = @ \ {p}]
  <2>2. p \in Packets /\ u \in State
    BY <2>1 DEF Sound, State
  <2>3. /\ u.unused = s.unused /\ u.sendQ = s.sendQ /\ u.rxQ = s.rxQ \ {p}
        /\ u.outbound = s.outbound /\ u.tx = s.tx /\ u.stray = s.stray /\ u.owed = s.owed
        /\ u.ring = s.ring /\ u.load = s.load /\ u.count = s.count /\ u.shown = s.shown
    BY DEF Sound, State
  <2>4. Sound(u, {p})
    BY <2>1, <2>2, <2>3 DEF Sound, Shared, Held, OnAir, Ours
  <2> HIDE DEF u
  <2>5. Heeds(u, processRecvPacket(u, p), {u.load[p]}) /\ t = processRecvPacket(u, p)
    BY <2>1, <2>2, <2>4, ProcessHeeds DEF u
  <2>6. u.load[p] \in Queued(s)
    BY <2>1, <2>3 DEF Queued
  <2>7. Queued(t) \subseteq Queued(s)
    BY <2>3, <2>5 DEF Heeds, Queued
  <2> QED BY <2>3, <2>5, <2>6, <2>7 DEF Heeds
<1> QED BY <1>1, <1>2

\* Only the packet at the head of the ring is handled.
LEMMA CheckRecvPasses ==
  ASSUME NEW s, Sound(s, {}), NEW t \in checkRecv(s)
  PROVE  /\ Ringed(t) \subseteq Ringed(s) /\ Queued(t) \subseteq Waiting(s)
         /\ s.count \in Nat /\ t.count \in Nat /\ s.count <= t.count
         /\ \A m \in Heard : t.shown[m] # s.shown[m] => m \in Ringed(s) /\ Once(s, t, m)
<1> DEFINE m == Head(s.ring)
           taken == [s EXCEPT !.ring = Tail(@)]
           p == First(s.unused)
           filled == [taken EXCEPT !.unused = @ \ {p}, !.load[p] = m]
<1>0. s \in State /\ s.ring \in Seq(Messages)
  BY DEF Sound, State
<1>1. CASE s.ring = <<>>
  BY <1>0, <1>1, StateFacts DEF checkRecv, Waiting
<1>2. ASSUME s.ring # <<>>
      PROVE  /\ m \in Ringed(s) /\ m \in Messages
             /\ \A i \in DOMAIN Tail(s.ring) : Tail(s.ring)[i] \in Ringed(s)
  <2>1. Len(s.ring) \in Nat \ {0} /\ DOMAIN s.ring = 1..Len(s.ring)
    BY <1>0, <1>2, LenProperties, EmptySeq
  <2>2. m = s.ring[1] /\ 1 \in DOMAIN s.ring
    BY <1>0, <1>2, <2>1
  <2>3. /\ DOMAIN Tail(s.ring) = 1..(Len(s.ring) - 1)
        /\ \A i \in 1..(Len(s.ring) - 1) : Tail(s.ring)[i] = s.ring[i + 1]
    BY <1>0, <1>2, <2>1
  <2>4. \A i \in 1..(Len(s.ring) - 1) : i + 1 \in DOMAIN s.ring
    BY <2>1
  <2>5. m \in Messages
    BY <1>0, <2>2
  <2> HIDE DEF m
  <2> QED BY <2>2, <2>3, <2>4, <2>5 DEF Ringed
<1>3. CASE s.ring # <<>> /\ s.unused = {}
  <2>1. t = [taken EXCEPT !.lost = @ \cup {m}]
    BY <1>3 DEF checkRecv
  <2> HIDE DEF m
  <2>2. /\ t.ring = Tail(s.ring) /\ t.rxQ = s.rxQ /\ t.load = s.load /\ t.count = s.count
        /\ t.shown = s.shown
    BY <1>0, <2>1 DEF State
  <2>3. Ringed(t) \subseteq Ringed(s) /\ Queued(t) = Queued(s)
    BY <1>2, <1>3, <2>2 DEF Ringed, Queued
  <2> QED BY <1>0, <2>2, <2>3, StateFacts DEF Waiting
<1>4. CASE s.ring # <<>> /\ s.unused # {}
  <2>1. m \in Messages /\ After(s, taken) /\ taken.unused = s.unused
    BY <1>4, RingTaken
  <2>2. p \in s.unused /\ p \in taken.unused
    BY <1>4, <2>1, FirstIsMember
  <2>3. t \in {processRecvPacket(filled, p), queueInbound(filled, p)}
    BY <1>4 DEF checkRecv
  <2>4. p \in Packets /\ p \notin s.rxQ
    BY <2>2 DEF Sound, Shared, State
  <2>5. m \in Ringed(s) /\ \A i \in DOMAIN Tail(s.ring) : Tail(s.ring)[i] \in Ringed(s)
    BY <1>2, <1>4
  <2> HIDE DEF m, p
  <2>6. /\ taken.ring = Tail(s.ring) /\ taken.rxQ = s.rxQ /\ taken.load = s.load
        /\ taken.count = s.count /\ taken.shown = s.shown /\ Sound(taken, {})
    BY <1>0, <2>1 DEF State, After
  <2> HIDE DEF taken
  <2> DEFINE u == [taken EXCEPT !.unused = @ \ {p}]
  <2>7. Sound(u, {p})
    <3>1. {} \cup {p} = {p}
      OBVIOUS
    <3>2. Sound(u, {} \cup {p})
      BY <2>2, <2>6, TakeSound
    <3> QED BY <3>1, <3>2
  <2>8. filled = [u EXCEPT !.load[p] = m] /\ u.load = s.load
    BY <2>6 DEF Sound, State
  <2>9. /\ u.ring = Tail(s.ring) /\ u.rxQ = s.rxQ /\ u.count = s.count /\ u.shown = s.shown
    BY <2>6 DEF Sound, State
  <2> HIDE DEF u, filled
  <2>10. filled \in State
    BY <2>1, <2>4, <2>7, <2>8 DEF Sound, State
  <2>11. /\ filled.unused = u.unused /\ filled.sendQ = u.sendQ /\ filled.rxQ = u.rxQ
         /\ filled.outbound = u.outbound /\ filled.tx = u.tx /\ filled.stray = u.stray
         /\ filled.owed = u.owed /\ filled.ring = u.ring /\ filled.count = u.count
         /\ filled.shown = u.shown /\ filled.load = [s.load EXCEPT ![p] = m]
    BY <2>7, <2>8 DEF Sound, State
  <2>12. Sound(filled, {p})
    BY <2>7, <2>10, <2>11, SameSound
  <2>13. filled.load[p] = m /\ \A q \in s.rxQ : filled.load[q] = s.load[q]
    BY <1>0, <2>4, <2>11, StateFacts
  <2>14. Ringed(filled) \subseteq Ringed(s) /\ Queued(filled) = Queued(s)
    BY <2>5, <2>9, <2>11, <2>13 DEF Ringed, Queued
  <2>15. CASE t = processRecvPacket(filled, p)
    <3>1. Heeds(filled, t, {m})
      BY <2>4, <2>12, <2>13, <2>15, ProcessHeeds
    <3>2. Ringed(t) = Ringed(filled) /\ Queued(t) = Queued(filled)
      BY <3>1 DEF Heeds, Ringed, Queued
    <3>3. filled.count = s.count /\ filled.shown = s.shown
      BY <2>9, <2>11
    <3> QED BY <2>5, <2>14, <3>1, <3>2, <3>3 DEF Heeds, Once, Waiting
  <2>16. CASE t = queueInbound(filled, p)
    <3>1. /\ t.ring = filled.ring /\ t.rxQ = s.rxQ \cup {p} /\ t.load = filled.load
          /\ t.count = s.count /\ t.shown = s.shown
      BY <2>9, <2>10, <2>11, <2>16 DEF queueInbound, State
    <3>2. Ringed(t) = Ringed(filled) /\ Queued(t) \subseteq Queued(s) \cup {m}
      BY <2>13, <3>1 DEF Ringed, Queued
    <3> QED BY <1>0, <2>5, <2>14, <3>1, <3>2, StateFacts DEF Waiting
  <2> QED BY <2>3, <2>15, <2>16
<1> QED BY <1>1, <1>3, <1>4

LEMMA CheckSendCalm ==
  ASSUME NEW s, Sound(s, {}), NEW t \in checkSend(s)
  PROVE  Calm(s, t)
<1>0. s \in State
  BY DEF Sound
<1>1. CASE t = s
  BY <1>0, <1>1, CalmSame
<1>2. ASSUME NEW p \in s.sendQ, t = startSendRaw(s, p)
      PROVE  Calm(s, t)
  <2> DEFINE out == [s EXCEPT !.sendQ = @ \ {p}]
  <2>1. p \in Packets /\ p \notin s.rxQ /\ out \in State
    BY DEF Sound, Shared, State
  <2>2. /\ out.ring = s.ring /\ out.rxQ = s.rxQ /\ out.load = s.load /\ out.count = s.count
        /\ out.shown = s.shown
    BY <1>0 DEF State
  <2>3. Calm(s, out)
    BY <1>0, <2>2, CalmSame
  <2>4. CASE s.link = "up" /\ s.tx = "idle"
    <3>1. /\ t.ring = s.ring /\ t.rxQ = s.rxQ /\ t.load = s.load /\ t.count = s.count
          /\ t.shown = s.shown
      BY <1>0, <1>2, <2>4 DEF startSendRaw, State
    <3> QED BY <1>0, <3>1, CalmSame
  <2>5. CASE ~ (s.link = "up" /\ s.tx = "idle")
    <3>1. t = free(out, p)
      BY <1>2, <2>5 DEF startSendRaw
    <3> HIDE DEF out
    <3>2. Calm(out, t)
      BY <2>1, <2>2, <3>1, FreeCalm
    <3> QED BY <2>3, <3>2, CalmThen DEF Calm
  <2> QED BY <2>4, <2>5
<1>3. t = s \/ \E p \in s.sendQ : t = startSendRaw(s, p)
  BY DEF checkSend, getNextOutbound
<1> QED BY <1>1, <1>2, <1>3

LEMMA NodeLoopPasses ==
  ASSUME NEW s, Sound(s, {}), NEW t \in NodeLoop(s)
  PROVE  Passes(s, t)
<1>0. s \in State
  BY DEF Sound
<1>1. CASE s.outbound # None /\ ~Over(s)
  <2>1. t = s
    BY <1>1 DEF NodeLoop
  <2> QED BY <1>0, <2>1, StateFacts DEF Passes, Waiting
<1>2. CASE ~(s.outbound # None /\ ~Over(s))
  <2>1. PICK a \in checkOutbound(s) : \E b \in checkInbound(a) :
          \E c \in checkRecv(b) : t \in checkSend(c)
    BY <1>2 DEF NodeLoop
  <2>2. PICK b \in checkInbound(a) : \E c \in checkRecv(b) : t \in checkSend(c)
    BY <2>1
  <2>3. PICK c \in checkRecv(b) : t \in checkSend(c)
    BY <2>2
  <2>4. Sound(a, {}) /\ Sound(b, {}) /\ Sound(c, {})
    BY <2>1, <2>2, <2>3, CheckOutboundSound, CheckInboundSound, CheckRecvSound DEF After
  <2>5. Calm(s, a) /\ Calm(c, t)
    BY <2>1, <2>3, <2>4, CheckOutboundCalm, CheckSendCalm
  <2>6. /\ Ringed(a) = Ringed(s) /\ Queued(a) = Queued(s)
        /\ Ringed(t) = Ringed(c) /\ Queued(t) = Queued(c)
    BY <2>5 DEF Calm, Heeds, Ringed, Queued
  <2>7. /\ b.ring = a.ring /\ Queued(b) \subseteq Queued(a)
        /\ a.count \in Nat /\ b.count \in Nat /\ a.count <= b.count
        /\ \A m \in Heard : b.shown[m] # a.shown[m] => m \in Queued(a)
    BY <2>2, <2>4, CheckInboundPasses
  <2>8. /\ Ringed(c) \subseteq Ringed(b) /\ Queued(c) \subseteq Waiting(b)
        /\ b.count \in Nat /\ c.count \in Nat /\ b.count <= c.count
        /\ \A m \in Heard : c.shown[m] # b.shown[m] => m \in Ringed(b) /\ Once(b, c, m)
    BY <2>3, <2>4, CheckRecvPasses
  <2>9. Ringed(b) = Ringed(a)
    BY <2>7 DEF Ringed
  <2>10. /\ s.count \in Nat /\ t.count \in Nat /\ s.count <= a.count /\ c.count <= t.count
         /\ \A m \in Heard : a.shown[m] = s.shown[m] /\ t.shown[m] = c.shown[m]
    BY <2>5 DEF Calm, Heeds
  <2>11. Queued(t) \subseteq Waiting(s) /\ Ringed(t) \subseteq Ringed(s)
    BY <2>6, <2>7, <2>8, <2>9 DEF Waiting
  <2>12. ASSUME NEW m \in Heard, t.shown[m] # s.shown[m]
         PROVE  m \in Waiting(s) /\ (m \in Queued(s) \/ Once(s, t, m))
    <3>1. CASE m \in Queued(s)
      BY <3>1 DEF Waiting
    <3>2. CASE m \notin Queued(s)
      <4>1. b.shown[m] = s.shown[m]
        BY <2>6, <2>7, <2>10, <3>2
      <4>2. m \in Ringed(b) /\ Once(b, c, m)
        BY <2>8, <2>10, <2>12, <4>1
      <4>3. History \in Nat /\ s.count <= b.count
        BY <2>7, <2>10, BoundsAssumption
      <4>4. Once(s, t, m)
        BY <2>7, <2>8, <2>10, <4>1, <4>2, <4>3 DEF Once
      <4> QED BY <2>6, <2>9, <4>2, <4>4 DEF Waiting
    <3> QED BY <3>1, <3>2
  <2>13. s.count <= t.count
    BY <2>7, <2>8, <2>10
  <2> QED BY <2>10, <2>11, <2>12, <2>13 DEF Passes
<1> QED BY <1>1, <1>2

LEMMA DeferredAdvertCalm ==
  ASSUME NEW s, Sound(s, {})
  PROVE  Calm(s, deferredAdvert(s))
<1>1. CASE ~(s.advert # "no" /\ s.link = "up")
  BY <1>1, CalmSame DEF deferredAdvert, Sound
<1>2. CASE s.advert # "no" /\ s.link = "up"
  <2> DEFINE m == IF s.advert = "flood" THEN "floodAdvert" ELSE "localAdvert"
             t == Send(s, m, FALSE)
             u == [t EXCEPT !.advert = "no"]
  <2>1. deferredAdvert(s) = u
    BY <1>2 DEF deferredAdvert
  <2>2. Sound(t, {}) /\ Calm(s, t)
    BY OwnMessages, SendSound, SendCalm
  <2> HIDE DEF t
  <2>3. /\ u.ring = t.ring /\ u.rxQ = t.rxQ /\ u.load = t.load /\ u.count = t.count
        /\ u.shown = t.shown
    BY <2>2 DEF Sound, State
  <2> HIDE DEF u
  <2>4. Calm(t, u)
    BY <2>2, <2>3, CalmSame DEF Sound
  <2> QED BY <2>1, <2>2, <2>4, CalmThen DEF Calm
<1> QED BY <1>1, <1>2

\* A step of the node in which nothing is received.
LEMMA QuietHInv ==
  ASSUME IInv, HInv, NEW s, Calm(g, s) \/ \E t \in NodeLoop(g) : Calm(t, s), Node(s)
  PROVE  HInv'
<1>1. g' = s /\ odd' = odd /\ heard' = heard
  BY DEF Node
<1>2. \A m \in Heard : g.shown[m] \in 0..2
  BY StateFacts DEF IInv, Sound
<1>3. /\ Waiting(s) \subseteq Waiting(g)
      /\ \A m \in Heard : s.shown[m] # g.shown[m] => m \in Waiting(g)
  <2>1. CASE Calm(g, s)
    BY <2>1 DEF Calm, Heeds, Waiting, Ringed, Queued
  <2>2. CASE \E t \in NodeLoop(g) : Calm(t, s)
    <3>1. PICK t \in NodeLoop(g) : Calm(t, s)
      BY <2>2
    <3>2. Passes(g, t)
      BY NodeLoopPasses DEF IInv
    <3>3. Waiting(s) = Waiting(t) /\ \A m \in Heard : s.shown[m] = t.shown[m]
      BY <3>1 DEF Calm, Heeds, Waiting, Ringed, Queued
    <3> QED BY <3>2, <3>3 DEF Passes, Waiting
  <2> QED BY <2>1, <2>2
<1>4. Waiting(g) \subseteq odd /\ odd \subseteq heard
  BY DEF HInv
<1>5. ASSUME NEW m \in Heard
      PROVE  /\ s.shown[m] > 0 => m \in heard
             /\ s.shown[m] > 1 => m \in odd
  BY <1>3, <1>4 DEF HInv, ShownOnce
<1> QED BY <1>1, <1>3, <1>4, <1>5 DEF HInv, ShownOnce

\* The line handler records what the node did not.
LEMMA PollRecordHeeds ==
  ASSUME NEW s, Sound(s, {}), NEW before, NEW m \in Messages
  PROVE  /\ Heeds(s, pollRecord(s, before, m), {m})
         /\ s.count # before => pollRecord(s, before, m) = s
<1>1. s \in State
  BY DEF Sound
<1>2. Heeds(s, Show(s, m), {m}) /\ Heeds(s, Record(s), {m}) /\ Heeds(s, s, {m})
  BY <1>1, ShowHeeds, RecordCalm, CalmSame, HeedsSame
<1> QED BY <1>2 DEF pollRecord

\* A message is received.
LEMMA HandleRxShows ==
  ASSUME IInv, HInv, NEW m \in Messages, HandleRx(m)
  PROVE  HInv'
<1>1. heard' = heard \cup {m} /\ odd \subseteq odd' /\ odd' \subseteq odd \cup {m}
  BY DEF HandleRx
<1>2. Waiting(g) \subseteq odd /\ odd \subseteq heard /\ g \in State /\ Sound(g, {})
  BY DEF HInv, IInv, Sound
<1>3. \A x \in Heard : /\ g.shown[x] \in 0..2 /\ (g.shown[x] > 0 => x \in heard)
                       /\ (g.shown[x] > 1 => x \in odd)
  BY <1>2, StateFacts DEF HInv, ShownOnce
<1>4. CASE RingHasRoom(g)
  <2> DEFINE s == enqueueHex(g, m)
  <2>1. PICK t \in NodeLoop(s) :
          /\ g' = pollRecord(t, g.count, m)
          /\ odd' = IF m \in heard \/ g.count = History \/ t.ring # <<>> \/ t.rxQ # {}
                    THEN odd \cup {m} ELSE odd
    BY <1>4 DEF HandleRx
  <2>2. Sound(s, {}) /\ Sound(t, {}) /\ Passes(s, t)
    BY <1>2, <2>1, EnqueueSound, NodeLoopSound, NodeLoopPasses
  <2>3. /\ s.ring = Append(g.ring, m) /\ s.rxQ = g.rxQ /\ s.load = g.load
        /\ s.count = g.count /\ s.shown = g.shown
    BY <1>2 DEF enqueueHex, State
  <2>4. Queued(s) = Queued(g) /\ Ringed(s) \subseteq Ringed(g) \cup {m}
    <3>1. g.ring \in Seq(Messages)
      BY <1>2 DEF State
    <3> QED BY <2>3, <3>1 DEF Queued, Ringed
  <2> HIDE DEF s
  <2>5. Heeds(t, g', {m}) /\ (t.count # g.count => g' = t)
    BY <2>1, <2>2, PollRecordHeeds
  <2>6. Waiting(g') = Waiting(t) /\ Waiting(t) \subseteq Waiting(g) \cup {m}
    BY <2>2, <2>4, <2>5 DEF Heeds, Passes, Waiting, Ringed, Queued
  <2>7. Waiting(g') \subseteq odd'
    <3>1. CASE m \in odd'
      BY <1>1, <1>2, <2>6, <3>1
    <3>2. CASE m \notin odd'
      <4>1. t.ring = <<>> /\ t.rxQ = {}
        BY <2>1, <3>2
      <4>2. Waiting(t) = {}
        BY <4>1 DEF Waiting, Ringed, Queued
      <4> QED BY <2>6, <4>2
    <3> QED BY <3>1, <3>2
  <2>8. ASSUME NEW x \in Heard, x # m
        PROVE  g'.shown[x] = g.shown[x] \/ x \in odd
    <3>1. g'.shown[x] = t.shown[x]
      BY <2>5, <2>8 DEF Heeds
    <3>2. t.shown[x] # s.shown[x] => x \in Waiting(g)
      BY <2>2, <2>4, <2>8 DEF Passes, Waiting
    <3> QED BY <1>2, <2>3, <3>1, <3>2
  <2>9. ASSUME m \in Heard, m \notin odd'
        PROVE  ~ (g'.shown[m] > 1)
    <3>1. m \notin heard /\ g.count # History
      BY <2>1, <2>9
    <3>2. g.shown[m] = 0 /\ m \notin Waiting(g) /\ g.count \in Nat /\ g.count < History
          /\ History \in Nat
      BY <1>2, <1>3, <2>9, <3>1, StateFacts, BoundsAssumption
    <3>3. m \notin Queued(s)
      BY <2>4, <3>2 DEF Waiting
    <3>4. t.shown[m] = 0 \/ (t.shown[m] <= 1 /\ g.count < t.count)
      BY <2>2, <2>3, <2>9, <3>2, <3>3 DEF Passes, Once
    <3>5. t.count \in Nat /\ t.shown[m] \in 0..2 /\ g'.shown[m] \in 0..2
      <4>1. Sound(g', {})
        BY <2>1, <2>2, PollRecordSound
      <4> QED BY <2>2, <2>9, <4>1, StateFacts DEF Sound
    <3>6. CASE t.count # g.count
      BY <2>5, <3>4, <3>5, <3>6
    <3>7. CASE t.count = g.count
      <4>1. t.shown[m] = 0
        BY <3>2, <3>4, <3>7
      <4>2. g'.shown[m] = t.shown[m] \/ g'.shown[m] <= t.shown[m] + 1
        BY <2>5, <2>9 DEF Heeds, Once
      <4> QED BY <3>5, <4>1, <4>2
    <3> QED BY <3>6, <3>7
  <2>10. ASSUME NEW x \in Heard
         PROVE  (g'.shown[x] > 0 => x \in heard') /\ (g'.shown[x] > 1 => x \in odd')
    <3>1. CASE x = m
      BY <1>1, <2>9, <3>1
    <3>2. CASE x # m
      BY <1>1, <1>2, <1>3, <2>8, <3>2
    <3> QED BY <3>1, <3>2
  <2>11. odd' \subseteq heard'
    BY <1>1, <1>2
  <2> QED BY <2>7, <2>10, <2>11 DEF HInv, ShownOnce
<1>5. CASE ~RingHasRoom(g)
  <2> DEFINE r == pollRecord(g, g.count, m)
  <2>1. g' = [r EXCEPT !.lost = @ \cup {m}] /\ odd' = odd \cup {m}
    BY <1>5 DEF HandleRx
  <2>2. Sound(r, {}) /\ Heeds(g, r, {m})
    BY <1>2, PollRecordSound, PollRecordHeeds
  <2> HIDE DEF r
  <2>3. g'.ring = r.ring /\ g'.rxQ = r.rxQ /\ g'.load = r.load /\ g'.shown = r.shown
    BY <2>1, <2>2 DEF Sound, State
  <2>4. Waiting(g') = Waiting(g)
    BY <2>2, <2>3 DEF Heeds, Waiting, Ringed, Queued
  <2>5. \A x \in Heard : x # m => g'.shown[x] = g.shown[x]
    BY <2>2, <2>3 DEF Heeds
  <2>6. ASSUME NEW x \in Heard
        PROVE  (g'.shown[x] > 0 => x \in heard') /\ (g'.shown[x] > 1 => x \in odd')
    <3>1. CASE x = m
      BY <1>1, <2>1, <3>1
    <3>2. CASE x # m
      BY <1>1, <1>3, <2>5, <3>2
    <3> QED BY <3>1, <3>2
  <2> QED BY <1>1, <1>2, <2>1, <2>4, <2>6 DEF HInv, ShownOnce
<1> QED BY <1>4, <1>5

\* Whatever else happens, the node says nothing of a message it has not received.
LEMMA QuietActions ==
  ASSUME IInv, Next, ~ \E m \in Messages : HandleRx(m)
  PROVE  \E s : Node(s) /\ (Calm(g, s) \/ \E t \in NodeLoop(g) : Calm(t, s))
<1>1. g \in State /\ Sound(g, {})
  BY DEF IInv, Sound
<1>2. ASSUME NEW t, t.ring = g.ring, t.rxQ = g.rxQ, t.load = g.load, t.count = g.count,
             t.shown = g.shown
      PROVE  Calm(g, t)
  BY <1>1, <1>2, CalmSame
<1>3. CASE TxReport \/ TxUnreported
  <2>1. /\ Node(g')
        /\ g'.ring = g.ring /\ g'.rxQ = g.rxQ /\ g'.load = g.load /\ g'.count = g.count
        /\ g'.shown = g.shown
    BY <1>1, <1>3 DEF TxReport, TxUnreported, Line, Node, State
  <2> QED BY <1>2, <2>1
<1>4. CASE MeshLoop
  <2>1. PICK t \in NodeLoop(g) :
          \/ Node(deferredAdvert(t))
          \/ Node(deferredAdvert(Send(t, "request", FALSE)))
          \/ Node(Send(deferredAdvert(t), "localAdvert", FALSE))
    BY <1>4 DEF MeshLoop
  <2>2. Sound(t, {})
    BY <1>1, <2>1, NodeLoopSound
  <2>3. Sound(deferredAdvert(t), {}) /\ Sound(Send(t, "request", FALSE), {})
    BY <2>2, OwnMessages, DeferredAdvertSound, SendSound
  <2>4. Calm(t, deferredAdvert(t)) /\ Calm(t, Send(t, "request", FALSE))
    BY <2>2, OwnMessages, DeferredAdvertCalm, SendCalm
  <2>5. Calm(t, deferredAdvert(Send(t, "request", FALSE)))
    BY <2>3, <2>4, DeferredAdvertCalm, CalmThen DEF Calm
  <2>6. Calm(t, Send(deferredAdvert(t), "localAdvert", FALSE))
    <3>1. Calm(deferredAdvert(t), Send(deferredAdvert(t), "localAdvert", FALSE))
      BY <2>3, OwnMessages, SendCalm
    <3> QED BY <2>4, <3>1, CalmThen DEF Calm
  <2> QED BY <2>1, <2>4, <2>5, <2>6
<1>5. CASE sendLoraTextMessage
  <2> DEFINE t == Send(g, "text", FALSE)
  <2>1. Sound(t, {}) /\ Calm(g, t)
    BY <1>1, OwnMessages, SendSound, SendCalm
  <2>2. CASE Node(Record(t))
    <3> HIDE DEF t
    <3>1. Calm(t, Record(t))
      BY <2>1, RecordCalm DEF Sound
    <3>2. Calm(g, Record(t))
      BY <2>1, <3>1, CalmThen DEF Calm
    <3> QED BY <2>2, <3>2
  <2>3. CASE Node(g)
    BY <1>2, <2>3
  <2>4. CASE Node([Record(g) EXCEPT !.link = "busy", !.owed = @ + 1, !.stray = TRUE,
                                    !.aired = TRUE])
    <3> DEFINE r == Record(g)
               u == [r EXCEPT !.link = "busy", !.owed = r.owed + 1, !.stray = TRUE,
                              !.aired = TRUE]
    <3>1. Calm(g, r) /\ r \in State
      BY <1>1, RecordCalm, RecordSound DEF Sound
    <3>2. Node(u)
      BY <2>4
    <3> HIDE DEF r
    <3>3. u.ring = r.ring /\ u.rxQ = r.rxQ /\ u.load = r.load /\ u.count = r.count
          /\ u.shown = r.shown
      BY <3>1 DEF State
    <3>4. Calm(g, u)
      <4> HIDE DEF u
      <4> QED BY <3>1, <3>3, CalmSame, CalmThen DEF Calm
    <3> QED BY <3>2, <3>4
  <2> QED BY <1>5, <2>2, <2>3, <2>4 DEF sendLoraTextMessage
<1>6. CASE requestSelectedMeshTelemetry
  BY <1>1, <1>6, OwnMessages, SendCalm DEF requestSelectedMeshTelemetry
<1>7. CASE \E flood \in BOOLEAN : requestTab5MeshCoreAdvert(flood)
  <2>1. PICK flood \in BOOLEAN : requestTab5MeshCoreAdvert(flood)
    BY <1>7
  <2>2. CASE g.link = "down"
    <3>1. /\ Node(g')
          /\ g'.ring = g.ring /\ g'.rxQ = g.rxQ /\ g'.load = g.load /\ g'.count = g.count
          /\ g'.shown = g.shown
      BY <1>1, <2>1, <2>2 DEF requestTab5MeshCoreAdvert, Node, State
    <3> QED BY <1>2, <3>1
  <2>3. CASE g.link # "down"
    <3> DEFINE m == IF flood THEN "floodAdvert" ELSE "localAdvert"
    <3>1. m \in Messages /\ Node(Send(g, m, FALSE))
      BY <2>1, <2>3, OwnMessages DEF requestTab5MeshCoreAdvert
    <3> HIDE DEF m
    <3> QED BY <1>1, <3>1, SendCalm
  <2> QED BY <2>2, <2>3
<1>8. CASE LinkChanges \/ Ripen \/ AirtimeOver \/ BudgetRefilled
  <2>1. /\ Node(g')
        /\ g'.ring = g.ring /\ g'.rxQ = g.rxQ /\ g'.load = g.load /\ g'.count = g.count
        /\ g'.shown = g.shown
    BY <1>1, <1>8 DEF LinkChanges, Ripen, AirtimeOver, BudgetRefilled, Node, State
  <2> QED BY <1>2, <2>1
<1> QED BY <1>3, <1>4, <1>5, <1>6, <1>7, <1>8 DEF Next

LEMMA ShowsInductive ==
  ASSUME IInv, HInv, [Next]_vars
  PROVE  HInv'
<1>1. CASE \E m \in Messages : HandleRx(m)
  BY <1>1, HandleRxShows
<1>2. CASE Next /\ ~ \E m \in Messages : HandleRx(m)
  BY <1>2, QuietActions, QuietHInv
<1>3. CASE UNCHANGED vars
  BY <1>3 DEF vars, HInv, ShownOnce, Waiting, Ringed, Queued
<1> QED BY <1>1, <1>2, <1>3

LEMMA ShowsInitially ==
  ASSUME Init
  PROVE  HInv
<1>1. g.ring = <<>> /\ g.rxQ = {} /\ heard = {} /\ odd = {}
  BY DEF Init
<1>2. \A m \in Heard : g.shown[m] = 0
  BY HeardAre DEF Init
<1>3. Waiting(g) = {}
  BY <1>1 DEF Waiting, Ringed, Queued
<1> QED BY <1>1, <1>2, <1>3 DEF HInv, ShownOnce

LEMMA ShowsInvariant == Spec => []HInv
  BY Initially, Inductive, ShowsInitially, ShowsInductive, PTL DEF Spec

-----------------------------------------------------------------------------
(* The theorems. *)

LEMMA Invariant == Spec => []IInv
  BY Initially, Inductive, PTL DEF Spec

\* The state has its type, and the ring never holds more than RingSize packets.
THEOREM TypeCorrect == Spec => []TypeOK
<1>1. IInv => TypeOK
  BY DEF IInv, Sound, Fits, Counted, TypeOK
<1> QED BY <1>1, Invariant, PTL

\* Every slot of the pool is in exactly one place, however many there are.
THEOREM PoolIsConserved == Spec => []PoolConserved
<1>1. IInv => PoolConserved
  BY DEF IInv, Sound, Shared, PoolConserved
<1> QED BY <1>1, Invariant, PTL

\* Dispatcher and radio object always agree on whether a packet is on the air.
THEOREM DispatcherAgreesWithRadio == Spec => []OutboundIsOnAir
<1>1. IInv => OutboundIsOnAir
  BY DEF IInv, Sound, OnAir, OutboundIsOnAir
<1> QED BY <1>1, Invariant, PTL

\* Until a transmission was given up or sent past the dispatcher, at most one report
\* is owed, and it is that of the packet on the air.
THEOREM ReportsMatch == Spec => []ReportIsOurs
<1>1. IInv => ReportIsOurs
  BY DEF IInv, Sound, Ours, ReportIsOurs
<1> QED BY <1>1, Invariant, PTL

\* A message is only shown twice if it was heard twice, if the history was full, or if
\* the node could not handle it in the call that brought it.
THEOREM NothingIsShownTwice == Spec => []ShownOnce
<1>1. HInv => ShownOnce
  BY DEF HInv
<1> QED BY <1>1, ShowsInvariant, PTL
=============================================================================
