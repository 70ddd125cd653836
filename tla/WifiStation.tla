----------------------------- MODULE WifiStation -----------------------------
(***************************************************************************)
(* The Wi-Fi station: saved networks and their flash copy, the scan of the    *)
(* Wi-Fi screen and the reconnection of the loop (storeNetwork,               *)
(* clearSavedNetworks, startWifiScan, updateWifiScan, beginAsyncWifiReconnect, *)
(* setWifiEnabled and the Wi-Fi part of loop, src/main.cpp).                  *)
(*                                                                          *)
(* The radio and its events are external.  An action is one call in the       *)
(* Arduino loop; connectToNetwork and autoConnectWifi are never called.        *)
(***************************************************************************)
EXTENDS Naturals, Sequences, SequencesExt

CONSTANTS
  SSID,        \* the networks
  Blank,       \* the empty name
  MaxSaved,    \* kMaxSavedNetworks
  MaxActs,     \* bound: saves, forgets, scans and losses of the radio in a behaviour
  MaxTorn      \* bound: resets in the middle of a write to flash

ASSUME WifiAssumption == Blank \notin SSID /\ MaxSaved \in Nat \ {0}

VARIABLES
  saved,       \* savedCreds
  nvs,         \* their copy: the count and MaxSaved names and passwords
  radio,       \* wifiEnabled, wifiTransition and the association
  scan,        \* wifiScanInProgress, wifiScanDriverDone and the driver's side
  retry,       \* wifiEnableReconnectSequence, wifiAsyncReconnect*
  inRange,     \* the networks that can be joined
  tried,       \* those the radio was given the whole 8 s for since it was enabled
  forgotten,   \* the networks the user has cleared, and not entered again
  cut,         \* was the present attempt cut off, by a scan or the user?
  skipped,     \* was any attempt since the radio was enabled?
  acts, torn   \* counters of the bounds

history == <<inRange, tried, forgotten, cut, skipped, acts, torn>>
vars == <<saved, nvs, radio, scan, retry, inRange, tried, forgotten, cut, skipped, acts, torn>>

\* A password is the network it is for.
Name == SSID \cup {Blank}
Cred == [ssid : Name, pass : Name]
Empty == [ssid |-> Blank, pass |-> Blank]
Slots == 1..MaxSaved

Radio == [enabled : BOOLEAN, transition : BOOLEAN, state : {"idle", "trying", "joined"},
          cred : Cred]
Scan == [on : BOOLEAN, done : BOOLEAN, driver : BOOLEAN,
         late : BOOLEAN]    \* the event of a stopped scan that has not been delivered
Retry == [sequence : BOOLEAN, active : BOOLEAN, attempts : 0..MaxSaved,
          next : Slots, current : Slots]

TypeOK ==
  /\ saved \in BoundedSeq(Cred, MaxSaved)
  /\ nvs.count \in 0..MaxSaved /\ nvs.entry \in [Slots -> Cred]
  /\ radio \in Radio /\ scan \in Scan /\ retry \in Retry
  /\ inRange \subseteq SSID /\ tried \subseteq SSID /\ forgotten \subseteq Name
  /\ cut \in BOOLEAN /\ skipped \in BOOLEAN

Act == acts < MaxActs /\ acts' = acts + 1

Quiet == [on |-> FALSE, done |-> FALSE, driver |-> FALSE, late |-> FALSE]
Asleep == [enabled |-> FALSE, transition |-> FALSE, state |-> "idle", cred |-> Empty]
NoRetry == [sequence |-> FALSE, active |-> FALSE, attempts |-> 0, next |-> 1, current |-> 1]

-----------------------------------------------------------------------------
(* The saved networks. *)

\* The keys are written in the order count, s0, p0, s1, p1, ...; n keys after the count.
Written(list, count, n) ==
  [count |-> count,
   entry |-> [i \in Slots |->
     [ssid |-> IF i <= Len(list) /\ 2 * i - 1 <= n THEN list[i].ssid ELSE nvs.entry[i].ssid,
      pass |-> IF i <= Len(list) /\ 2 * i <= n THEN list[i].pass ELSE nvs.entry[i].pass]]]

\* loadSavedNetworks, after a reset that leaves the flash as f.
Boot(f) ==
  /\ nvs' = f /\ saved' = [i \in 1..f.count |-> f.entry[i]]
  /\ radio' = Asleep /\ scan' = Quiet /\ retry' = NoRetry
  /\ tried' = {} /\ cut' = FALSE /\ skipped' = FALSE

\* Over the network of that name, in the next free slot, or over the first.
Stored(n) ==
  LET same == {i \in DOMAIN saved : saved[i].ssid = n}
      cred == [ssid |-> n, pass |-> n]
  IN  IF same # {} THEN [saved EXCEPT ![CHOOSE i \in same : \A j \in same : i <= j] = cred]
      ELSE IF Len(saved) < MaxSaved THEN Append(saved, cred)
      ELSE [saved EXCEPT ![1] = cred]

Wiped == [i \in Slots |-> Empty]

\* saveWifiNetworkAndRebootClean.  A reset in between is a reboot, too.
storeNetwork(n) ==
  /\ Act /\ forgotten' = forgotten \ {n}
  /\ \E k \in 0..2 * Len(Stored(n)) :
       /\ IF k = 2 * Len(Stored(n)) THEN torn' = torn ELSE torn < MaxTorn /\ torn' = torn + 1
       /\ Boot(Written(Stored(n), Len(Stored(n)), k))
  /\ UNCHANGED inRange

\* Variant: only the count is written.
Cleared_Count(n) == [nvs EXCEPT !.count = 0]

Cleared(n) == Written(Wiped, 0, n)

-----------------------------------------------------------------------------
(* The scan. *)

\* esp_wifi_scan_stop: the scan that runs may still announce its end.
Stopped(late) == [Quiet EXCEPT !.late = scan.late \/ (scan.driver /\ late)]

\* A call of WiFi.disconnect: an attempt under way is cut off by it.
Idle == [radio EXCEPT !.state = "idle", !.cred = Empty]

\* startWifiScan, with or without resources and success.  A connection is kept.
startWifiScan ==
  /\ Act /\ ~scan.on /\ radio.enabled /\ ~radio.transition
  /\ radio' = IF radio.state = "joined" THEN radio ELSE Idle
  /\ cut' = (cut \/ (retry.active /\ radio.state # "joined"))
  /\ skipped' = (skipped \/ (retry.active /\ radio.state # "joined"))
  /\ \E late \in BOOLEAN :
       \/ scan' = [Stopped(late) EXCEPT !.on = TRUE, !.driver = TRUE]
       \/ scan' = Stopped(late)
  /\ UNCHANGED <<saved, nvs, retry, inRange, tried, forgotten, torn>>

stopWifiScan ==
  /\ Act /\ scan.on /\ \E late \in BOOLEAN : scan' = Stopped(late)
  /\ UNCHANGED <<saved, nvs, radio, retry, inRange, tried, forgotten, cut, skipped, torn>>

\* onWifiScanDoneEvent, of the scan that runs or of one that was stopped.
onWifiScanDoneEvent ==
  /\ \/ scan.driver /\ scan' = [scan EXCEPT !.driver = FALSE, !.done = TRUE]
     \/ scan.late /\ scan' = [scan EXCEPT !.late = FALSE, !.done = TRUE]
  /\ UNCHANGED <<saved, nvs, radio, retry>> /\ UNCHANGED history

\* Variant: nothing but the event ends a scan.
updateWifiScan_NoTimeout ==
  /\ scan.on /\ scan.done /\ scan' = [scan EXCEPT !.on = FALSE, !.done = FALSE]
  /\ UNCHANGED <<saved, nvs, radio, retry>> /\ UNCHANGED history

\* When the event has come the list is read, which may fail; after 15 s without one the
\* scan is stopped.
updateWifiScan ==
  /\ scan.on
  /\ \/ scan.done /\ scan' = [scan EXCEPT !.on = FALSE, !.done = FALSE]
     \/ \E late \in BOOLEAN : scan' = Stopped(late)
  /\ UNCHANGED <<saved, nvs, radio, retry>> /\ UNCHANGED history

-----------------------------------------------------------------------------
(* Wi-Fi on and off. *)

\* Variant: an attempt of the last time is kept.
Fresh_Kept == [retry EXCEPT !.sequence = saved # <<>>, !.attempts = 0]

Fresh == [retry EXCEPT !.sequence = saved # <<>>, !.active = FALSE, !.attempts = 0]

\* setWifiEnabled(true), if nothing fails; otherwise only the transition begins.
enable ==
  /\ ~radio.enabled /\ ~radio.transition
  /\ \/ /\ radio' = [Idle EXCEPT !.enabled = TRUE, !.transition = TRUE]
        /\ retry' = Fresh /\ tried' = {} /\ cut' = FALSE /\ skipped' = FALSE
     \/ /\ radio' = [radio EXCEPT !.transition = TRUE]
        /\ UNCHANGED <<retry, tried, cut, skipped>>
  /\ UNCHANGED <<saved, nvs, scan, inRange, forgotten, acts, torn>>

\* setWifiEnabled(false): the network of now is the first one tried the next time.
disable ==
  /\ Act /\ radio.enabled /\ ~radio.transition
  /\ LET here == {i \in DOMAIN saved : radio.state = "joined" /\ saved[i].ssid = radio.cred.ssid}
     IN  retry' = [NoRetry EXCEPT
           !.next = IF here = {} THEN retry.next
                    ELSE CHOOSE i \in here : \A j \in here : i <= j,
           !.current = retry.current]
  /\ radio' = [Idle EXCEPT !.enabled = FALSE, !.transition = TRUE]
  /\ IF scan.on THEN \E late \in BOOLEAN : scan' = Stopped(late) ELSE UNCHANGED scan
  /\ UNCHANGED <<saved, nvs, inRange, tried, forgotten, cut, skipped, torn>>

\* suspendWifiForSdr, stopWifiForBleRadio and serviceWifiPanicGuard take
\* the radio away and leave the attempt and the sequence as they are.
radioTaken ==
  /\ Act /\ radio.enabled /\ radio' = Asleep
  /\ \E late \in BOOLEAN : scan' = Stopped(late)
  /\ UNCHANGED <<saved, nvs, retry, inRange, tried, forgotten, cut, skipped, torn>>

updateWifiTransition ==
  /\ radio.transition /\ radio' = [radio EXCEPT !.transition = FALSE]
  /\ UNCHANGED <<saved, nvs, scan, retry>> /\ UNCHANGED history

\* The user forgets all networks; only an existing connection is ended.
clearSavedNetworks ==
  /\ Act /\ (saved # <<>> \/ (radio.enabled /\ radio.state = "joined"))
  /\ forgotten' = forgotten \cup {saved[i].ssid : i \in DOMAIN saved}
  /\ \E k \in 0..2 * MaxSaved :
       IF saved # <<>> /\ k < 2 * MaxSaved
       THEN torn < MaxTorn /\ torn' = torn + 1 /\ Boot(Cleared(k))
       ELSE /\ nvs' = IF saved # <<>> THEN Cleared(k) ELSE nvs
            /\ saved' = <<>> /\ torn' = torn
            /\ radio' = IF radio.state = "joined" THEN Idle ELSE radio
            /\ cut' = (cut \/ (retry.active /\ radio.state = "joined"))
            /\ skipped' = (skipped \/ cut')
            /\ IF scan.on THEN \E late \in BOOLEAN : scan' = Stopped(late)
               ELSE UNCHANGED scan
            /\ UNCHANGED <<retry, tried>>
  /\ UNCHANGED inRange

-----------------------------------------------------------------------------
(* The reconnection. *)

Named == {i \in DOMAIN saved : saved[i].ssid # Blank}

\* The slots in the order they are looked at, from the i-th one on.
Turn(i, d) == 1 + ((i - 1 + d) % Len(saved))

\* Variant: the search starts with the first slot every time.
FirstNamed_First == CHOOSE i \in Named : \A j \in Named : i <= j

\* The next saved network, if any has a name.
FirstNamed ==
  LET d == CHOOSE d \in 0..Len(saved) - 1 :
             /\ Turn(retry.next, d) \in Named
             /\ \A e \in 0..d - 1 : Turn(retry.next, e) \notin Named
  IN  Turn(retry.next, d)

\* beginAsyncWifiReconnect, in a state where it starts an attempt.
Begin ==
  LET i == FirstNamed
  IN  /\ radio' = [radio EXCEPT !.state = "trying", !.cred = saved[i]]
      /\ retry' = [retry EXCEPT !.active = TRUE, !.attempts = @ + 1, !.current = i,
                                !.next = Turn(i, 1)]
      /\ \E late \in BOOLEAN : scan' = Stopped(late)
      /\ cut' = FALSE

Waits ==
  /\ radio.enabled /\ radio.state # "joined" /\ ~scan.on /\ ~radio.transition /\ ~retry.active

\* The sequence that follows the enabling of Wi-Fi: every saved network once.
sequenceStep ==
  /\ retry.sequence /\ Waits
  /\ IF retry.attempts < Len(saved) /\ Named # {}
     THEN Begin
     ELSE /\ retry' = [retry EXCEPT !.sequence = FALSE, !.attempts = 0]
          /\ UNCHANGED <<radio, scan, cut>>
  /\ UNCHANGED <<saved, nvs, inRange, tried, forgotten, skipped, acts, torn>>

\* Every 30 s.
backgroundReconnect ==
  /\ ~retry.sequence /\ Waits /\ Named # {} /\ Begin
  /\ UNCHANGED <<saved, nvs, inRange, tried, forgotten, skipped, acts, torn>>

Joinable(c) == c.ssid \in inRange /\ c.pass = c.ssid

\* Variant: the attempts are not counted anew.
Over_KeepsCount == [retry EXCEPT !.active = FALSE, !.sequence = FALSE]

Over == [retry EXCEPT !.active = FALSE, !.sequence = FALSE, !.attempts = 0]

\* The attempt is seen to have succeeded, or has had its 8 s; a network that can be joined
\* is joined by then.
attemptEnds ==
  /\ retry.active
  /\ IF radio.state = "joined"
     THEN retry' = [Over EXCEPT !.next = retry.current] /\ UNCHANGED <<radio, tried>>
     ELSE /\ radio.state = "trying" => ~Joinable(radio.cred)
          /\ radio' = Idle
          /\ tried' = IF radio.state = "trying" THEN tried \cup {radio.cred.ssid} ELSE tried
          /\ retry' = IF ~retry.sequence \/ retry.attempts >= Len(saved) THEN Over
                      ELSE [retry EXCEPT !.active = FALSE]
  /\ UNCHANGED <<saved, nvs, scan, inRange, forgotten, cut, skipped, acts, torn>>

-----------------------------------------------------------------------------
(* The radio and its surroundings. *)

joins ==
  /\ radio.state = "trying" /\ Joinable(radio.cred)
  /\ radio' = [radio EXCEPT !.state = "joined"]
  /\ UNCHANGED <<saved, nvs, scan, retry>> /\ UNCHANGED history

\* A lost connection is sought again by the driver, unless a scan has that turned off.
drops ==
  /\ radio.state = "joined" /\ ~Joinable(radio.cred)
  /\ radio' = IF scan.on THEN Idle ELSE [radio EXCEPT !.state = "trying"]
  /\ cut' = (cut \/ (scan.on /\ retry.active)) /\ skipped' = (skipped \/ cut')
  /\ UNCHANGED <<saved, nvs, scan, retry, inRange, tried, forgotten, acts, torn>>

moves ==
  /\ Act /\ inRange' \in SUBSET SSID
  /\ UNCHANGED <<saved, nvs, radio, scan, retry, tried, forgotten, cut, skipped, torn>>

Init ==
  /\ nvs = [count |-> 0, entry |-> Wiped] /\ saved = <<>>
  /\ radio = Asleep /\ scan = Quiet /\ retry = NoRetry
  /\ inRange \in SUBSET SSID /\ tried = {} /\ forgotten = {} /\ cut = FALSE /\ skipped = FALSE
  /\ acts = 0 /\ torn = 0

Next ==
  \/ \E n \in SSID : storeNetwork(n)
  \/ clearSavedNetworks
  \/ startWifiScan \/ stopWifiScan \/ onWifiScanDoneEvent \/ updateWifiScan
  \/ enable \/ disable \/ radioTaken \/ updateWifiTransition
  \/ sequenceStep \/ backgroundReconnect \/ attemptEnds
  \/ joins \/ drops \/ moves

Spec == Init /\ [][Next]_vars

\* The loop runs for ever; a network in range answers.
FairSpec ==
  /\ Spec /\ WF_vars(updateWifiScan) /\ WF_vars(updateWifiTransition)
  /\ WF_vars(sequenceStep) /\ WF_vars(backgroundReconnect) /\ WF_vars(attemptEnds)
  /\ WF_vars(joins)

-----------------------------------------------------------------------------
(* Properties. *)

\* An attempt the loop waits for is one the radio was told of since it was enabled, if the
\* user has not cut it off: whoever took the radio away has left none behind.
AttemptIsOwn == radio.enabled /\ retry.active /\ ~cut => radio.state # "idle"

\* Wi-Fi is not given up before every saved network had its turn, whichever slot the
\* sequence started with and whatever the flash has lost, unless an attempt was cut off.
SequenceTriesAll ==
  [][retry.sequence /\ ~retry'.sequence /\ radio.enabled /\ radio'.enabled
     /\ radio.state # "joined" /\ ~skipped
       => {saved[i].ssid : i \in Named} \subseteq tried']_vars

\* One reset in the middle of a write never brings a forgotten network back.  (A second
\* one can: behaviours with two are left out.)
ForgottenIsGone == torn < 2 => \A i \in DOMAIN saved : saved[i].ssid \notin forgotten

\* A network whose name and password are saved is joined, or another one, as long as it is
\* in range and Wi-Fi on (README.md:10).
ReachableIsJoined ==
  \A n \in SSID :
    <>[](radio.enabled /\ n \in inRange /\ [ssid |-> n, pass |-> n] \in ToSet(saved))
      => []<>(radio.state = "joined")
=============================================================================
