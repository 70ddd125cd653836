--------------------------- MODULE MeshDispatcher ---------------------------
(***************************************************************************)
(* The MeshCore packet pool and dispatcher of the device, and the glue that *)
(* feeds them from the LoRa serial line                                     *)
(* (lib/MeshCoreCore/src/Dispatcher.cpp, helpers/StaticPoolPacketManager,    *)
(* Mesh.cpp, and Tab5AtMeshRadio, tab5MeshCoreHandleRx, pollLoraPortA,       *)
(* tab5MeshCoreLoop of src/main.cpp).                                       *)
(*                                                                          *)
(* All of it runs in the Arduino loop: an action is one serial line, one    *)
(* pass of tab5MeshCoreLoop or one thing the user sends.  The functions are *)
(* operators on the state record g; where the time or the signal decides,   *)
(* an operator returns the set of its outcomes.                             *)
(***************************************************************************)
EXTENDS Naturals, Sequences

CONSTANTS
  Packets,     \* the slots of StaticPoolPacketManager (24)
  None,        \* no packet
  Public, Direct, Other,   \* messages of other nodes: on the public channel, to this node, else
  Asking, Adverts,   \* of the others: requests and paths the node answers, adverts it records
  RingSize,    \* received packets the radio keeps (4)
  History,     \* kMeshPacketHistoryCount (16)
  MaxSends,    \* how often the user sends in a run
  MaxHeard     \* how many messages are received in a run

Own == {"localAdvert", "text", "request", "path", "floodAdvert"}   \* what the node itself sends
Heard == Public \cup Direct \cup Other
Messages == Own \cup Heard

ASSUME PoolAssumption == None \notin Packets
ASSUME MessagesAssumption ==
  /\ Own \cap Heard = {} /\ Public \cap (Direct \cup Other) = {} /\ Direct \cap Other = {}
  /\ Asking \cup Adverts \subseteq Other /\ Asking \cap Adverts = {}
ASSUME BoundsAssumption ==
  /\ RingSize \in Nat \ {0} /\ History \in Nat \ {0}
  /\ MaxSends \in Nat /\ MaxHeard \in Nat

VARIABLES
  g,       \* the node, the radio object, the history of records and the module's debts
  sends,   \* what the node and its user have sent so far
  hears,   \* how many messages were received so far
  heard,   \* which ones
  odd      \* messages heard again, under a full history, or not handled at once

vars == <<g, sends, hears, heard, odd>>

State ==
  [unused : SUBSET Packets,        \* the free packets
   sendQ : SUBSET Packets, rxQ : SUBSET Packets,
   ripe : SUBSET Packets,          \* those whose scheduled time has come
   load : [Packets -> Messages],
   outbound : Packets \cup {None},
   tx : {"idle", "pending", "done"},    \* txPending, txDone
   late : BOOLEAN,                 \* outbound_expiry, or 7 s, have passed
   budget : BOOLEAN,               \* duty-cycle budget left and next_tx_time passed
   ring : Seq(Messages),
   seen : SUBSET Messages,         \* the last 160 hashes, more than a run has
   count : 0..History,             \* meshPacketCount
   shown : [Messages -> 0..2],     \* times a message was shown as received (2: or more)
   link : {"down", "busy", "up"},  \* ~loraP2pConfigured, loraCommandPending, or ready
   advert : {"no", "local", "flood"},   \* meshAdvertPending(Flood)
   owed : Nat,                     \* transmissions the module has not reported yet
   aired : BOOLEAN,                \* has an own public message been on the air?
   stray : BOOLEAN,                \* was a report ever owed that no packet waits for?
   lost : SUBSET Messages]         \* messages that found the ring full or the pool empty

TypeOK ==
  /\ g \in State /\ Len(g.ring) <= RingSize
  /\ sends \in 0..MaxSends /\ hears \in 0..MaxHeard
  /\ heard \subseteq Messages /\ odd \subseteq Messages

-----------------------------------------------------------------------------
(* The pool (StaticPoolPacketManager).  Each queue is as large as the pool. *)

First(set) == CHOOSE p \in set : TRUE

\* What a free packet held does not matter.
free(s, p) == [s EXCEPT !.unused = @ \cup {p}, !.ripe = @ \ {p}, !.load[p] = "text"]

queueOutbound(s, p, m, delayed) ==
  [s EXCEPT !.sendQ = @ \cup {p}, !.load[p] = m,
            !.ripe = IF delayed THEN @ \ {p} ELSE @ \cup {p}]

queueInbound(s, p) == [s EXCEPT !.rxQ = @ \cup {p}, !.ripe = @ \ {p}]

Priority(m) ==
  CASE m = "localAdvert" -> 0 [] m = "path" -> 2 [] m = "floodAdvert" -> 3 [] OTHER -> 1

\* The due packets of the most important kind.
getNextOutbound(s) ==
  {p \in s.sendQ \cap s.ripe :
     \A q \in s.sendQ \cap s.ripe : Priority(s.load[p]) <= Priority(s.load[q])}

-----------------------------------------------------------------------------
(* The node (Mesh, BaseChatMesh, Tab5MeshCoreNode). *)

\* addMeshPacketRecord
Record(s) == [s EXCEPT !.count = IF @ < History THEN @ + 1 ELSE @]
Show(s, m) == [Record(s) EXCEPT !.shown[m] = IF @ < 2 THEN @ + 1 ELSE @]

hasSeen(s, m) == m \in s.seen
Mark(s, m) == [s EXCEPT !.seen = @ \cup {m}]

\* obtainNewPacket, then sendFlood or sendZeroHop; nothing if the pool is empty.
Send(s, m, delayed) ==
  IF s.unused = {} THEN s
  ELSE LET p == First(s.unused)
       IN  queueOutbound(Mark([s EXCEPT !.unused = @ \ {p}], m), p, m, delayed)

\* A direct message is acknowledged, and a request answered, with a path return.
onRecvPacket(s, m) ==
  CASE hasSeen(s, m) -> s
    [] ~hasSeen(s, m) /\ m \in Direct -> Send(Show(Mark(s, m), m), "path", TRUE)
    [] ~hasSeen(s, m) /\ m \in Public \cup {"text"} -> Show(Mark(s, m), m)
    [] ~hasSeen(s, m) /\ m \in Asking -> Send(Mark(s, m), "path", TRUE)
    [] ~hasSeen(s, m) /\ m \in Adverts -> Record(Mark(s, m))
    [] OTHER -> Mark(s, m)

\* Variant: a packet already seen is not released.
processRecvPacket_Leak(s, p) ==
  IF hasSeen(s, s.load[p]) THEN s ELSE free(onRecvPacket(s, s.load[p]), p)

\* allowPacketForward is false: every received packet is released.
processRecvPacket(s, p) == free(onRecvPacket(s, s.load[p]), p)

-----------------------------------------------------------------------------
(* Dispatcher::loop and the radio object. *)

\* Variant: the radio object is not told that the packet is given up.
Finished_NotTold(s) == [free(s, s.outbound) EXCEPT !.outbound = None, !.late = FALSE]

\* onSendFinished, releasePacket.  A transmission given up may still be reported.
Finished(s) ==
  [free(s, s.outbound) EXCEPT !.outbound = None, !.tx = "idle", !.late = FALSE,
                              !.stray = @ \/ (s.tx = "pending" /\ s.owed > 0)]

\* Variant: only the module's report ends a transmission.
Over_NoTimeout(s) == s.tx # "pending"

\* isSendComplete, or outbound_expiry.
Over(s) == s.tx # "pending" \/ s.late

\* What can be done once the radio listens again.
checkOutbound(s) ==
  IF s.outbound = None THEN {s}
  ELSE {[Finished(s) EXCEPT !.budget = left] : left \in BOOLEAN}

checkInbound(s) ==
  IF s.rxQ \cap s.ripe = {} THEN {s}
  ELSE {processRecvPacket([s EXCEPT !.rxQ = @ \ {p}], p) : p \in s.rxQ \cap s.ripe}

\* One packet of the ring; a weak flood packet waits in the inbound queue.
checkRecv(s) ==
  LET m == Head(s.ring)
      taken == [s EXCEPT !.ring = Tail(@)]
      p == First(s.unused)
      filled == [taken EXCEPT !.unused = @ \ {p}, !.load[p] = m]
  IN  CASE s.ring = <<>> -> {s}
        [] s.ring # <<>> /\ s.unused = {} -> {[taken EXCEPT !.lost = @ \cup {m}]}
        [] OTHER -> {processRecvPacket(filled, p), queueInbound(filled, p)}

\* The packet goes on the air, or is dropped if the radio is not ready.
startSendRaw(s, p) ==
  LET out == [s EXCEPT !.sendQ = @ \ {p}]
  IN  IF s.link = "up" /\ s.tx = "idle"
      THEN [out EXCEPT !.outbound = p, !.ripe = @ \ {p}, !.tx = "pending", !.late = FALSE,
                       !.owed = @ + 1, !.aired = @ \/ s.load[p] = "text"]
      ELSE free(out, p)

checkSend(s) ==
  IF s.budget /\ s.sendQ \cap s.ripe # {}
  THEN {startSendRaw(s, p) : p \in getNextOutbound(s)}
  ELSE {s}

\* While a packet is on the air nothing else is done.
NodeLoop(s) ==
  IF s.outbound # None /\ ~Over(s) THEN {s}
  ELSE UNION {UNION {UNION {checkSend(c) : c \in checkRecv(b)} : b \in checkInbound(a)}
              : a \in checkOutbound(s)}

-----------------------------------------------------------------------------
(* The glue of main.cpp. *)

RingHasRoom(s) == Len(s.ring) < RingSize
enqueueHex(s, m) == [s EXCEPT !.ring = Append(@, m)]

\* Variant: the line handler does not ask what the node has made of the packet.
pollRecord_Always(s, before, m) ==
  IF m \in Public \cup {"text"} THEN Show(s, m) ELSE Record(s)

\* The line handler records the packet itself if the number of records is what it was.
pollRecord(s, before, m) ==
  CASE s.count # before -> s
    [] s.count = before /\ m \in Public \cup {"text"} -> Show(s, m)
    [] OTHER -> Record(s)

\* +EVT:RXP2P.  An own message comes back only if a repeater has heard it.
HandleRx(m) ==
  /\ m \in Heard \cup {"text"} /\ hears < MaxHeard /\ (m = "text" => g.aired)
  /\ hears' = hears + 1 /\ heard' = heard \cup {m}
  /\ \/ /\ RingHasRoom(g)
        /\ \E t \in NodeLoop(enqueueHex(g, m)) :
             /\ g' = pollRecord(t, g.count, m)
             /\ odd' = IF m \in heard \/ g.count = History \/ t.ring # <<>> \/ t.rxQ # {}
                       THEN odd \cup {m} ELSE odd
     \/ /\ ~RingHasRoom(g)
        /\ g' = [pollRecord(g, g.count, m) EXCEPT !.lost = @ \cup {m}]
        /\ odd' = odd \cup {m}
  /\ UNCHANGED sends

Node(s) == g' = s /\ UNCHANGED <<hears, heard, odd>>
Line(s) == [s EXCEPT !.owed = @ - 1, !.link = IF @ = "busy" THEN "up" ELSE @]

\* Variant: the immediate OK of AT+PSEND is taken for the report.
TxReport_OnOk ==
  /\ g.owed > 0 /\ UNCHANGED sends
  /\ Node([g EXCEPT !.tx = IF @ = "pending" THEN "done" ELSE @])

\* +EVT:TXP2P, whichever transmission it is about.
TxReport ==
  /\ g.owed > 0 /\ UNCHANGED sends
  /\ Node([Line(g) EXCEPT !.tx = IF @ = "pending" THEN "done" ELSE @])

\* The module was busy (ERROR), or its report is lost.
TxUnreported ==
  /\ g.owed > 0 /\ UNCHANGED sends
  /\ Node(Line(g)) \/ Node([g EXCEPT !.owed = @ - 1])

deferredAdvert(s) ==
  IF s.advert # "no" /\ s.link = "up"
  THEN [Send(s, IF s.advert = "flood" THEN "floodAdvert" ELSE "localAdvert", FALSE)
          EXCEPT !.advert = "no"]
  ELSE s

\* tab5MeshCoreLoop: the node, a reciprocal request, the deferred and the automatic advert.
MeshLoop ==
  \E t \in NodeLoop(g) :
    \/ Node(deferredAdvert(t)) /\ UNCHANGED sends
    \/ /\ sends < MaxSends /\ sends' = sends + 1
       /\ \/ t.link = "up" /\ Over(t) /\ Node(deferredAdvert(Send(t, "request", FALSE)))
          \/ t.link # "down" /\ Node(Send(deferredAdvert(t), "localAdvert", FALSE))

\* sendLoraTextMessage.  With an empty pool a public message goes straight to the
\* module, past the dispatcher.
sendLoraTextMessage ==
  /\ sends < MaxSends /\ sends' = sends + 1 /\ g.link # "down"
  /\ \/ g.unused # {} /\ Node(Record(Send(g, "text", FALSE)))
     \/ /\ g.unused = {}
        /\ \/ Node([Record(g) EXCEPT !.link = "busy", !.owed = @ + 1, !.stray = TRUE,
                                      !.aired = TRUE])
           \/ Node(g)                             \* a direct message fails

requestSelectedMeshTelemetry ==
  /\ sends < MaxSends /\ sends' = sends + 1 /\ g.link # "down"
  /\ Node(Send(g, "request", FALSE))

requestTab5MeshCoreAdvert(flood) ==
  /\ sends < MaxSends /\ sends' = sends + 1
  /\ \/ /\ g.link = "down"
        /\ Node([g EXCEPT !.advert = IF flood \/ @ = "flood" THEN "flood" ELSE "local"])
     \/ /\ g.link # "down"
        /\ Node(Send(g, IF flood THEN "floodAdvert" ELSE "localAdvert", FALSE))

-----------------------------------------------------------------------------
(* The configuration dialogue of the module (module LoraLink), and time. *)

LinkChanges == \E to \in {"down", "busy", "up"} : Node([g EXCEPT !.link = to]) /\ UNCHANGED sends

Ripen ==
  \E p \in (g.sendQ \cup g.rxQ) \ g.ripe :
    Node([g EXCEPT !.ripe = @ \cup {p}]) /\ UNCHANGED sends

AirtimeOver ==
  g.outbound # None /\ ~g.late /\ Node([g EXCEPT !.late = TRUE]) /\ UNCHANGED sends

BudgetRefilled == ~g.budget /\ Node([g EXCEPT !.budget = TRUE]) /\ UNCHANGED sends

Init ==
  /\ g = [unused |-> Packets, sendQ |-> {}, rxQ |-> {}, ripe |-> {},
          load |-> [p \in Packets |-> "text"], outbound |-> None, tx |-> "idle",
          late |-> FALSE, budget |-> TRUE, ring |-> <<>>, seen |-> {},
          count |-> 0, shown |-> [m \in Messages |-> 0], link |-> "down", advert |-> "no",
          owed |-> 0, aired |-> FALSE, stray |-> FALSE, lost |-> {}]
  /\ sends = 0 /\ hears = 0 /\ heard = {} /\ odd = {}

Next ==
  \/ \E m \in Messages : HandleRx(m)
  \/ TxReport \/ TxUnreported \/ MeshLoop
  \/ sendLoraTextMessage \/ requestSelectedMeshTelemetry
  \/ \E flood \in BOOLEAN : requestTab5MeshCoreAdvert(flood)
  \/ LinkChanges \/ Ripen \/ AirtimeOver \/ BudgetRefilled

Spec == Init /\ [][Next]_vars

\* The loop runs for ever and time passes; the module owes nothing.
Fairness ==
  /\ WF_vars(MeshLoop) /\ WF_vars(Ripen) /\ WF_vars(AirtimeOver) /\ WF_vars(BudgetRefilled)
FairSpec == Spec /\ Fairness

-----------------------------------------------------------------------------
(* Properties. *)

Held(s) == {s.outbound} \ {None}

\* Every packet is in exactly one place: free, queued in or out, or on the air.  No
\* path through the handlers loses one or gives one back twice.
PoolConserved ==
  /\ g.unused \cup g.sendQ \cup g.rxQ \cup Held(g) = Packets
  /\ g.unused \cap (g.sendQ \cup g.rxQ \cup Held(g)) = {}
  /\ g.sendQ \cap (g.rxQ \cup Held(g)) = {}
  /\ g.rxQ \cap Held(g) = {}

\* The dispatcher waits for a transmission exactly when the radio object has one:
\* no drop, refusal or timeout leaves one of the two waiting for the other.
OutboundIsOnAir == g.outbound = None <=> g.tx = "idle"

\* Until a transmission has been given up or sent past the dispatcher, a report ends
\* the transmission it is about: nothing else is owed.
ReportIsOurs ==
  ~g.stray => /\ g.tx # "pending" => g.owed = 0
              /\ g.owed <= 1

\* A message is only shown twice if it was heard twice, if the history was full, or
\* if the node could not handle it in the call that brought it.
ShownOnce == \A m \in Heard : g.shown[m] > 1 => m \in odd

\* A direct message is shown, unless it found the ring full or the pool empty
\* ("reliable background MeshCore direct-message reception", CHANGELOG.md:43).
DirectIsShown ==
  \A m \in Direct : m \in heard ~> (g.shown[m] > 0 \/ m \in g.lost)

\* Every packet returns to the pool, whatever the module reports or fails to.
EveryPacketReturns == \A p \in Packets : p \notin g.unused ~> p \in g.unused

\* Own messages are marked as sent "in case it is rebroadcast back to us"
\* (Mesh.cpp:636): an echo is not shown as received.
EchoIsNotShown == g.shown["text"] = 0
=============================================================================
