------------------------ MODULE UsbWifiHandoff_proofs ------------------------
(***************************************************************************)
(* Proofs about UsbWifiHandoff for every choice of the constants, in four   *)
(* parts: the host, the client and the radio; the lease (the refinement of  *)
(* UsbLease); Wi-Fi lent to a session and the restore screen; and that      *)
(* nothing takes the host back under that screen.                           *)
(***************************************************************************)
EXTENDS UsbWifiHandoff, TLAPS

Named == {"mode", "app", "trans", "owner", "phase", "host", "client", "nav", "boot", "why"}

(***************************************************************************)
(* The inductive strengthening of ClientWithinHost, WifiOverHostIsTeardown  *)
(* and RadioOffInUsbProfile.  The host task only leaves its pump loop after *)
(* it has seen the stop flag, nobody takes the flag back before it is gone, *)
(* and what it reports is a host without a client.                          *)
(***************************************************************************)
HandoffInv(g) ==
  /\ g.client # "none" => g.inst
  /\ g.wifi /\ g.inst => g.stop
  /\ g.host \notin {"none", "run"} => g.stop
  /\ g.host \in {"cleared", "reported"} => ~g.inst /\ g.client = "none"
  /\ g.mode = "usb" => ~g.wifi /\ ~g.stack
  /\ g.why # "none" => g.boot # "no"

Good(g) == GlobalState(g) /\ HandoffInv(g)

\* The flags HandoffInv does not speak of.
Free == Flags \ {"wifi", "stack", "inst", "stop"}

LEMMA FieldNames ==
  /\ Flags \subseteq Fields /\ Named \subseteq Fields /\ Flags \cap Named = {}
  /\ Free = {"dim", "want", "auto", "disabled", "pend", "crash", "cool", "rel",
             "minst", "blocking", "ex", "owed"}
  /\ Flags = Free \cup {"wifi", "stack", "inst", "stop"}
  BY DEF Fields, Flags, Named, Free

\* Assigning one field that HandoffInv does not speak of.
LEMMA SetFree ==
  ASSUME NEW g, Good(g), NEW f \in Free, NEW v \in BOOLEAN
  PROVE  Good([g EXCEPT ![f] = v])
  BY FieldNames DEF Good, GlobalState, HandoffInv, Named
LEMMA SetOwner ==
  ASSUME NEW g, Good(g), NEW v \in Owners
  PROVE  Good([g EXCEPT !.owner = v])
  BY FieldNames DEF Good, GlobalState, HandoffInv, Named
LEMMA SetTrans ==
  ASSUME NEW g, Good(g), NEW v \in Transitions
  PROVE  Good([g EXCEPT !.trans = v])
  BY FieldNames DEF Good, GlobalState, HandoffInv, Named
LEMMA SetApp ==
  ASSUME NEW g, Good(g), NEW v \in Screens
  PROVE  Good([g EXCEPT !.app = v])
  BY FieldNames DEF Good, GlobalState, HandoffInv, Named
LEMMA SetNav ==
  ASSUME NEW g, Good(g), NEW v \in Navs
  PROVE  Good([g EXCEPT !.nav = v])
  BY FieldNames DEF Good, GlobalState, HandoffInv, Named
LEMMA SetPhase ==
  ASSUME NEW g, Good(g), NEW v \in Phases
  PROVE  Good([g EXCEPT !.phase = v])
  BY FieldNames DEF Good, GlobalState, HandoffInv, Named

\* Shutting the radio down or stopping the host never hurts.
LEMMA ClearWifi ==
  ASSUME NEW g, Good(g)
  PROVE  Good([g EXCEPT !.wifi = FALSE])
  BY FieldNames DEF Good, GlobalState, HandoffInv, Named
LEMMA ClearStack ==
  ASSUME NEW g, Good(g)
  PROVE  Good([g EXCEPT !.stack = FALSE])
  BY FieldNames DEF Good, GlobalState, HandoffInv, Named
LEMMA SetStop ==
  ASSUME NEW g, Good(g)
  PROVE  Good([g EXCEPT !.stop = TRUE])
  BY FieldNames DEF Good, GlobalState, HandoffInv, Named

-----------------------------------------------------------------------------
(* The operations of the loop keep the invariant. *)

LEMMA RestartGood ==
  ASSUME NEW g, Good(g), NEW p \in Profiles \ {"no"}, NEW r \in Reasons
  PROVE  Good(Restart(g, p, r))
  BY FieldNames DEF Restart, Good, GlobalState, HandoffInv, Named

LEMMA SuspendGood ==
  ASSUME NEW g, Good(g)
  PROVE  Good(suspendWifiForSdr(g))
  BY SetFree, SetTrans, ClearWifi, ClearStack, FieldNames DEF suspendWifiForSdr, Transitions

LEMMA RestoreGood ==
  ASSUME NEW g, Good(g), NEW mem, NEW waited
  PROVE  Good(restoreWifiAfterSdr(g, mem, waited))
  BY SetFree, RestartGood, FieldNames DEF restoreWifiAfterSdr, requestWifiBoot, Profiles, Reasons

LEMMA StopGood ==
  ASSUME NEW g, Good(g)
  PROVE  Good(stopRtlSdrHost(g))
  BY SetFree, SetOwner, SetStop, FieldNames DEF stopRtlSdrHost, Owners

LEMMA ReleaseSessionGood ==
  ASSUME NEW g, Good(g)
  PROVE  Good(releaseUsbSession(g))
  BY StopGood, SetFree, SetOwner, FieldNames DEF releaseUsbSession, Owners

LEMMA ReleaseAppGood ==
  ASSUME NEW g, Good(g), NEW mem, NEW waited
  PROVE  Good(releaseSdrAppResources(g, mem, waited))
  BY ReleaseSessionGood, RestoreGood, SetFree, SetApp, FieldNames
     DEF releaseSdrAppResources, Screens

LEMMA HiddenGood ==
  ASSUME NEW g, Good(g)
  PROVE  Good(stopHiddenAppWork(g))
  BY ReleaseSessionGood, SetFree, FieldNames DEF stopHiddenAppWork

LEMMA ReleaseSessionFields ==
  ASSUME NEW g, Good(g)
  PROVE  /\ releaseUsbSession(g).mode = g.mode
         /\ releaseUsbSession(g).inst = g.inst
         /\ g.inst => releaseUsbSession(g).stop
<1> USE FieldNames DEF Good, GlobalState, Named
<1>1. CASE Tasks(g)
  BY <1>1 DEF releaseUsbSession, stopRtlSdrHost
<1>2. CASE ~Tasks(g)
  BY <1>2 DEF releaseUsbSession, stopRtlSdrHost, Tasks
<1> QED BY <1>1, <1>2

LEMMA PrepareGood ==
  ASSUME NEW g, Good(g)
  PROVE  /\ Good(resourceManagerPrepareForWifi(g))
         /\ resourceManagerPrepareForWifi(g).mode = g.mode
         /\ HostHeld(g) /\ ~foregroundUsbAccessory(g)
              => (resourceManagerPrepareForWifi(g).inst => resourceManagerPrepareForWifi(g).stop)
         /\ ~HostHeld(g) => ~resourceManagerPrepareForWifi(g).inst
  BY ReleaseSessionGood, ReleaseSessionFields DEF resourceManagerPrepareForWifi, HostHeld

\* The radio may only be started in its own profile, and over a host on its way out.
LEMMA StartGood ==
  ASSUME NEW g, Good(g), NEW hw \in RadioOutcomes, g.mode = "wifi", g.inst => g.stop
  PROVE  Good(wifiStart(g, hw))
  BY FieldNames DEF wifiStart, RadioOutcomes, Good, GlobalState, HandoffInv, Named, Transitions

LEMMA EnableGood ==
  ASSUME NEW g, Good(g), NEW mem, NEW hw \in RadioOutcomes
  PROVE  Good(setWifiEnabledTrue(g, mem, hw))
<1>1. CASE g.mode # "wifi"
  BY <1>1, SetFree, SetTrans, ClearWifi, RestartGood, FieldNames
     DEF setWifiEnabledTrue, requestWifiBoot, Transitions, Profiles, Reasons
<1>2. CASE g.mode = "wifi" /\ (g.wifi \/ (~g.blocking /\ foregroundUsbAccessory(g)))
  BY <1>2, SetFree, FieldNames DEF setWifiEnabledTrue
<1>3. CASE g.mode = "wifi" /\ ~g.wifi /\ ~(~g.blocking /\ foregroundUsbAccessory(g))
  <2> DEFINE needs == HostHeld(g) \/ (~mem /\ ~g.stack)
             prepared == IF needs THEN resourceManagerPrepareForWifi(g) ELSE g
             refused == needs /\ ~prepareSucceeds(g, mem)
  <2>1. Good(prepared) /\ prepared.mode = "wifi"
    BY <1>3, PrepareGood
  <2>2. ~refused => (prepared.inst => prepared.stop)
    BY PrepareGood DEF prepareSucceeds, HostHeld
  <2>3. ~refused => Good(wifiStart(prepared, hw))
    <3> HIDE DEF prepared, refused
    <3> QED BY <2>1, <2>2, StartGood
  <2>4. Good([prepared EXCEPT !.pend = TRUE]) /\ Good([prepared EXCEPT !.trans = "held"])
    <3> HIDE DEF prepared
    <3> QED BY <2>1, SetFree, SetTrans, FieldNames DEF Transitions
  <2>5. setWifiEnabledTrue(g, mem, hw) \in
          {[prepared EXCEPT !.pend = TRUE], prepared, [prepared EXCEPT !.trans = "held"]}
        \/ (~refused /\ setWifiEnabledTrue(g, mem, hw) = wifiStart(prepared, hw))
    BY <1>3 DEF setWifiEnabledTrue
  <2> QED BY <2>1, <2>3, <2>4, <2>5
<1> QED BY <1>1, <1>2, <1>3

LEMMA DisableGood ==
  ASSUME NEW g, Good(g)
  PROVE  Good(setWifiEnabledFalse(g))
  BY SetFree, SetTrans, ClearWifi, FieldNames DEF setWifiEnabledFalse, Transitions

LEMMA TransitionGood ==
  ASSUME NEW g, Good(g)
  PROVE  Good(updateWifiTransition(g))
  BY SetTrans, FieldNames DEF updateWifiTransition, Good, GlobalState, Transitions

\* An installation needs a radio that is down and no shutdown in progress.
LEMMA InstallGood ==
  ASSUME NEW g, Good(g), NEW hw \in Outcomes, ~g.wifi, ~(g.stop /\ Tasks(g))
  PROVE  Good(usbHostInstall(g, hw))
<1> DEFINE up == [g EXCEPT !.stop = FALSE, !.inst = TRUE, !.minst = TRUE]
           hosted == [up EXCEPT !.host = IF @ = "none" THEN "run" ELSE @]
           served == [hosted EXCEPT !.client = IF @ = "none" THEN "start" ELSE @]
<1>1. g.host \in {"none", "run"}
  BY DEF Good, HandoffInv, Tasks
<1>2. Good([g EXCEPT !.stop = FALSE])
  BY <1>1, FieldNames DEF Good, GlobalState, HandoffInv, Named
<1>3. Good(up) /\ up.inst /\ ~up.wifi /\ up.host \in {"none", "run"}
  BY <1>1, FieldNames DEF Good, GlobalState, HandoffInv, Named
<1>4. Good(hosted) /\ hosted.inst /\ ~hosted.wifi /\ hosted.host = "run"
  <2> HIDE DEF up
  <2> QED BY <1>3, FieldNames DEF Good, GlobalState, HandoffInv, Named, HostPcs
<1>5. Good(served)
  <2> HIDE DEF hosted
  <2> QED BY <1>4, FieldNames DEF Good, GlobalState, HandoffInv, Named, ClientPcs
<1> QED BY <1>2, <1>3, <1>4, <1>5 DEF usbHostInstall

LEMMA OwnerType ==
  ASSUME NEW g
  PROVE  requestedUsbOwner(g) \in Owners
  BY DEF requestedUsbOwner, Owners

LEMMA EnsureGood ==
  ASSUME NEW g, Good(g), NEW hw \in Outcomes
  PROVE  Good(ensureRtlSdrHost(g, hw))
<1> DEFINE asked == requestedUsbOwner(g)
           owner == IF asked = "NONE" /\ g.owner = "UTILITY" THEN "UTILITY" ELSE asked
           owned == [g EXCEPT !.owner = owner]
           silent == suspendWifiForSdr(owned)
<1>1. Good(owned)
  BY OwnerType, SetOwner DEF Owners
<1>2. Good(silent) /\ ~silent.wifi /\ silent.stop = g.stop /\ Tasks(silent) = Tasks(g)
  <2>1. Good(silent)
    <3> HIDE DEF owned
    <3> QED BY <1>1, SuspendGood
  <2>2. ~silent.wifi /\ silent.stop = g.stop /\ Tasks(silent) = Tasks(g)
    BY FieldNames DEF suspendWifiForSdr, Tasks, Good, GlobalState, Named
  <2> QED BY <2>1, <2>2
<1>3. ~(g.stop /\ Tasks(g)) => Good(usbHostInstall(silent, hw))
  <2> HIDE DEF silent
  <2> QED BY <1>2, InstallGood
<1> QED BY <1>1, <1>3 DEF ensureRtlSdrHost

LEMMA RecoveryGood ==
  ASSUME NEW g, Good(g)
  PROVE  Good(requestUsbRecovery(g))
  BY SetFree, SetOwner, SetPhase, FieldNames DEF requestUsbRecovery, Owners, Phases

-----------------------------------------------------------------------------
(* What the user can do keeps the invariant. *)

LEMMA StreamGood ==
  ASSUME NEW g, Good(g), NEW hw \in Outcomes, NEW h \in startRfSdrStream(g, hw)
  PROVE  Good(h)
<1>1. Good(ensureRtlSdrHost(g, hw))
  BY EnsureGood
<1> QED BY <1>1, SetFree, FieldNames DEF startRfSdrStream

LEMMA NavigateGood ==
  ASSUME NEW g, Good(g), NEW nav \in Navs
  PROVE  Good(navigate(g, nav))
  BY SetFree, SetApp, FieldNames DEF navigate, Screens

LEMMA ReleaseElmGood ==
  ASSUME NEW g, Good(g)
  PROVE  Good(releaseElm(g))
<1>1. Good([g EXCEPT !.rel = TRUE])
  BY SetFree, FieldNames
<1>2. [g EXCEPT !.rel = TRUE].owner \in Owners
  BY FieldNames DEF Good, GlobalState, Named
<1> QED BY <1>1, <1>2, SetOwner DEF releaseElm, Owners

LEMMA ExitExclusiveGood ==
  ASSUME NEW g, Good(g)
  PROVE  Good(exitExclusive(g))
<1>1. g.owed \in BOOLEAN
  BY FieldNames DEF Good, GlobalState
<1> QED BY <1>1, StopGood, SetFree, SetApp, FieldNames DEF exitExclusive, Screens

LEMMA LeaveByNavGood ==
  ASSUME NEW g, Good(g), NEW nav \in {"menu", "lock"}, NEW mem, NEW waited
  PROVE  Good(leaveByNav(g, nav, mem, waited))
  BY ReleaseAppGood, NavigateGood, ReleaseElmGood, ExitExclusiveGood, SetNav
     DEF leaveByNav, Navs

LEMMA LeaveToMenuGood ==
  ASSUME NEW g, Good(g), NEW mem, NEW waited
  PROVE  Good(leaveCurrentAppToMenu(g, mem, waited))
  BY ReleaseAppGood, ReleaseElmGood, ExitExclusiveGood, SetApp DEF leaveCurrentAppToMenu, Screens

LEMMA OpenGood ==
  ASSUME NEW g, Good(g), NEW a \in UsbApps, NEW hw \in Outcomes
  PROVE  Good(openApp(g, a, hw))
<1>1. Good(requestWifiBoot(g, "profile"))
  BY RestartGood DEF requestWifiBoot, Profiles, Reasons
<1>2. \A e \in BOOLEAN : a \in ExclusiveApps => Good(Restart([g EXCEPT !.owed = e], a, "exclusive"))
  BY RestartGood, SetFree, FieldNames DEF ExclusiveApps, Profiles, Reasons
<1>3. g.wifi \in BOOLEAN
  BY FieldNames DEF Good, GlobalState
<1>4. Good([g EXCEPT !.app = a])
  BY SetApp DEF Screens
<1>5. Good(ensureRtlSdrHost([g EXCEPT !.app = a], hw))
  BY <1>4, EnsureGood
<1> QED BY <1>1, <1>2, <1>3, <1>4, <1>5 DEF openApp

LEMMA PressGood ==
  ASSUME NEW g, Good(g), NEW mem, NEW waited, NEW hw \in Outcomes,
         NEW h \in pressButton(g, mem, waited, hw)
  PROVE  Good(h)
<1>1. CASE g.app = "wifi"
  <2>1. \/ h \in {setWifiEnabledFalse(g), [g EXCEPT !.pend = TRUE]}
        \/ \E radio \in RadioOutcomes : h = setWifiEnabledTrue(g, mem, radio)
    BY <1>1 DEF pressButton, SdrApps
  <2>2. Good([g EXCEPT !.pend = TRUE])
    BY SetFree, FieldNames
  <2> QED BY <2>1, <2>2, DisableGood, EnableGood
<1>2. CASE g.app = "usb"
  <2>1. h = requestUsbRecovery(g)
    BY <1>2 DEF pressButton, SdrApps
  <2> QED BY <2>1, RecoveryGood
<1>3. CASE g.app \in SdrApps
  <2> DEFINE asking == [g EXCEPT !.want = g.app = "air"]
             idle == [g EXCEPT !.want = FALSE, !.auto = FALSE]
             started == startRfSdrStream(ensureRtlSdrHost(asking, hw), hw)
             stopped == restoreWifiAfterSdr(stopRtlSdrHost(idle), mem, waited)
  <2>1. Good(asking) /\ Good(idle)
    BY SetFree, FieldNames
  <2>2. \A r \in started : Good(r)
    <3> HIDE DEF asking
    <3> QED BY <2>1, EnsureGood, StreamGood
  <2>3. Good(stopped)
    <3> HIDE DEF idle
    <3> QED BY <2>1, StopGood, RestoreGood
  <2>4. h \in started \cup {idle, stopped}
    BY <1>3 DEF pressButton, sdrButtons, SdrApps
  <2> QED BY <2>1, <2>2, <2>3, <2>4
<1>4. g.app \in {"wifi", "usb"} \cup SdrApps
  BY DEF pressButton
<1> QED BY <1>1, <1>2, <1>3, <1>4

LEMMA MovesGood ==
  ASSUME NEW g, Good(g), NEW mem, NEW waited, NEW hw \in Outcomes,
         NEW h \in userMoves(g, mem, waited, hw)
  PROVE  Good(h)
<1>1. CASE \E nav \in {"menu", "lock"} : h = leaveByNav(g, nav, mem, waited)
  BY <1>1, LeaveByNavGood
<1>2. CASE h = leaveCurrentAppToMenu(g, mem, waited)
  BY <1>2, LeaveToMenuGood
<1>3. CASE \E a \in UsbApps : h = openApp(g, a, hw)
  BY <1>3, OpenGood
<1>4. CASE \E a \in Openable : h = [g EXCEPT !.app = a]
  BY <1>4, SetApp, SwitchesAssumption
<1>5. CASE h \in pressButton(g, mem, waited, hw)
  BY <1>5, PressGood
<1> QED BY <1>1, <1>2, <1>3, <1>4, <1>5 DEF userMoves

LEMMA BootGood ==
  ASSUME NEW p \in Profiles \ {"no"}, NEW owed \in BOOLEAN
  PROVE  Good(boot(p, owed))
<1>1. /\ DOMAIN Blank = Fields
      /\ \A f \in Flags : Blank[f] = FALSE
      /\ Blank.trans = "no" /\ Blank.owner = "NONE" /\ Blank.phase = "IDLE" /\ Blank.boot = "no"
      /\ Blank.host = "none" /\ Blank.client = "none" /\ Blank.nav = "none" /\ Blank.why = "none"
  BY FieldNames DEF Blank, Named
<1> HIDE DEF Blank
<1> QED BY <1>1, FieldNames
        DEF boot, Good, GlobalState, HandoffInv, Named, Profiles, Modes, Screens, UsbApps, SdrApps,
            Transitions, Owners, Phases, HostPcs, ClientPcs, Navs, Reasons

-----------------------------------------------------------------------------
(* The inductive invariant and its steps. *)

IInv == TypeOK /\ HandoffInv(s)

LoopPcs ==
  {"top", "ex", "exTm", "modal", "modalTm", "serial", "tm", "rec", "sdr",
   "touchDim", "tmDim", "restore", "touch", "tm2", "net"}

LEMMA InvIsGood == ASSUME IInv PROVE Good(s)
  BY DEF IInv, TypeOK, Good

LEMMA LoopToGood ==
  ASSUME IInv, NEW g, Good(g), NEW pc \in LoopPcs, LoopTo(g, pc)
  PROVE  IInv'
<1>1. s' = g /\ lpc' = pc /\ claim' = claim /\ memOk' = memOk /\ wl' \in {wl, "idle"}
  BY DEF LoopTo
<1>2. GlobalState(s') /\ HandoffInv(s')
  BY <1>1 DEF Good
<1> QED BY <1>1, <1>2 DEF IInv, TypeOK, LoopPcs

LEMMA LoopStepInv ==
  ASSUME IInv, LoopStep
  PROVE  IInv'
<1>1. Good(s)
  BY InvIsGood
<1>2. \A g : AfterTop(g) \in LoopPcs
  BY DEF AfterTop, LoopPcs
<1> USE DEF LoopPcs
<1>3. CASE LoopEnableDue
  <2>1. Good([s EXCEPT !.pend = FALSE])
    BY <1>1, SetFree, FieldNames
  <2>2. \A hw \in RadioOutcomes : Good(setWifiEnabledTrue([s EXCEPT !.pend = FALSE], memOk, hw))
    BY <2>1, EnableGood
  <2>3. \E g, h : Good(g) /\ LoopTo(g, AfterTop(h))
    BY <1>1, <1>3, <2>1, <2>2 DEF LoopEnableDue
  <2> QED BY <1>2, <2>3, LoopToGood
<1>4. CASE LoopTop
  BY <1>1, <1>2, <1>4, LoopToGood DEF LoopTop
<1>5. CASE LoopTaskManager
  <2>1. Good(stopHiddenAppWork(s)) /\ Good(updateWifiTransition(stopHiddenAppWork(s)))
    BY <1>1, HiddenGood, TransitionGood
  <2> QED BY <1>5, <2>1, LoopToGood DEF LoopTaskManager
<1>6. CASE LoopExclusiveExit \/ LoopExclusiveTimeout
  <2>1. Good([s EXCEPT !.ex = FALSE])
    BY <1>1, SetFree, FieldNames
  <2>2. \A r \in Reasons : Good(requestWifiBoot([s EXCEPT !.ex = FALSE], r))
    BY <2>1, RestartGood DEF requestWifiBoot, Profiles
  <2>3. \E g : Good(g) /\ LoopTo(g, "top")
    BY <1>1, <1>6, <2>2 DEF LoopExclusiveExit, LoopExclusiveTimeout, Reasons
  <2> QED BY <2>3, LoopToGood
<1>7. CASE LoopRestoreModal
  <2>1. PICK waited \in BOOLEAN :
          LET g == updateWifiTransition(restoreWifiAfterSdr(s, memOk, waited))
          IN  LoopTo(IF wifiBack(g) /\ g.why = "none" THEN dismissModal(g) ELSE g, "top")
    BY <1>7 DEF LoopRestoreModal
  <2> DEFINE g == updateWifiTransition(restoreWifiAfterSdr(s, memOk, waited))
  <2>2. Good(g)
    BY <1>1, RestoreGood, TransitionGood
  <2> HIDE DEF g
  <2>3. Good([g EXCEPT !.blocking = FALSE, !.nav = "none"])
    BY <2>2, SetFree, SetNav, FieldNames DEF Navs
  <2>4. g.nav \in Navs
    BY <2>2 DEF Good, GlobalState
  <2>5. Good(dismissModal(g))
    BY <2>3, <2>4, NavigateGood DEF dismissModal
  <2>6. \E h : Good(h) /\ LoopTo(h, "top")
    BY <2>1, <2>2, <2>5 DEF g
  <2> QED BY <2>6, LoopToGood
<1>8. CASE LoopRestoreTimeout
  <2> DEFINE g == updateWifiTransition(restoreWifiAfterSdr(s, memOk, FALSE))
             closed == [g EXCEPT !.blocking = FALSE, !.nav = "none"]
  <2>1. Good(g)
    BY <1>1, RestoreGood, TransitionGood
  <2>2. LoopTo(requestWifiBoot(closed, "timeout"), "top")
    BY <1>8 DEF LoopRestoreTimeout
  <2>3. Good(closed)
    <3> HIDE DEF g
    <3> QED BY <2>1, SetFree, SetNav, FieldNames DEF Navs
  <2>4. Good(requestWifiBoot(closed, "timeout"))
    <3> HIDE DEF closed
    <3> QED BY <2>3, RestartGood DEF requestWifiBoot, Profiles, Reasons
  <2> HIDE DEF closed
  <2> QED BY <2>2, <2>4, LoopToGood
<1>9. CASE LoopSerial \/ LoopTouch
  <2>1. Good([s EXCEPT !.dim = FALSE]) /\ Good([s EXCEPT !.dim = TRUE])
    BY <1>1, SetFree, FieldNames
  <2>2. UserMove(s) => IInv'
    BY <2>1, MovesGood, LoopToGood DEF UserMove
  <2> QED BY <1>1, <1>9, <2>1, <2>2, LoopToGood DEF LoopSerial, LoopTouch
<1>10. CASE LoopRecovery
  <2>1. Good([s EXCEPT !.phase = "POWER_OFF"])
    BY <1>1, SetPhase DEF Phases
  <2>2. \A hw \in Outcomes : Good([ensureRtlSdrHost(s, hw) EXCEPT !.phase = "ENUMERATE"])
    BY <1>1, EnsureGood, SetPhase DEF Phases
  <2> DEFINE g == [s EXCEPT !.phase = "IDLE", !.owner = IF @ = "UTILITY" THEN "NONE" ELSE @]
  <2>3. Good(g)
    <3>1. Good([s EXCEPT !.phase = "IDLE"])
      BY <1>1, SetPhase DEF Phases
    <3>2. [s EXCEPT !.phase = "IDLE"].owner \in Owners
      BY <3>1 DEF Good, GlobalState
    <3> QED BY <3>1, <3>2, SetOwner DEF Owners
  <2>4. Good([g EXCEPT !.auto = TRUE, !.want = s.app = "air"])
    <3> HIDE DEF g
    <3> QED BY <2>3, SetFree, FieldNames
  <2>5. \E h : Good(h) /\ LoopTo(h, "sdr")
    <3> HIDE DEF g
    <3> QED BY <1>1, <1>10, <2>1, <2>2, <2>3, <2>4 DEF LoopRecovery, g
  <2> QED BY <2>5, LoopToGood
<1>11. CASE LoopSdrApps
  <2>1. \A hw \in Outcomes : /\ Good(ensureRtlSdrHost(s, hw))
                             /\ Good([ensureRtlSdrHost(s, hw) EXCEPT !.want = FALSE])
    BY <1>1, EnsureGood, SetFree, FieldNames
  <2>2. \E h, pc : Good(h) /\ pc \in LoopPcs /\ LoopTo(h, pc)
    BY <1>1, <1>11, <2>1 DEF LoopSdrApps
  <2> QED BY <2>2, LoopToGood
<1>12. CASE LoopRestore
  <2>1. Good(updateWifiTransition(s))
    BY <1>1, TransitionGood
  <2>2. \A waited : Good(restoreWifiAfterSdr(updateWifiTransition(s), memOk, waited))
    BY <2>1, RestoreGood
  <2>3. \E h : Good(h) /\ LoopTo(h, "touch")
    BY <1>12, <2>1, <2>2 DEF LoopRestore
  <2> QED BY <2>3, LoopToGood
<1>13. CASE LoopWifiService
  <2> DEFINE off == [s EXCEPT !.wifi = FALSE, !.stack = FALSE, !.pend = FALSE, !.crash = TRUE]
  <2>1. Good(off)
    BY <1>1, ClearWifi, ClearStack, SetFree, FieldNames
  <2> HIDE DEF off
  <2>2. s' \in {s, off} /\ lpc' = "top" /\ wl' \in {wl, "idle", "trying"} /\ UNCHANGED <<claim, memOk>>
    BY <1>13 DEF LoopWifiService, off
  <2>3. GlobalState(s') /\ HandoffInv(s')
    BY <1>1, <2>1, <2>2 DEF Good
  <2> QED BY <2>2, <2>3 DEF IInv, TypeOK
<1> QED BY <1>3, <1>4, <1>5, <1>6, <1>7, <1>8, <1>9, <1>10, <1>11, <1>12, <1>13 DEF LoopStep

\* Every other step assigns s as a whole and leaves the rest typed.
LEMMA AssignGood ==
  ASSUME IInv, NEW g, Good(g), s' = g, lpc' = lpc, claim' \in Owners,
         wl' = wl, memOk' = memOk
  PROVE  IInv'
<1>1. GlobalState(s') /\ HandoffInv(s')
  BY DEF Good
<1> QED BY <1>1 DEF IInv, TypeOK

LEMMA ClientStepInv ==
  ASSUME IInv, ClientStep
  PROVE  IInv'
<1>1. Good(s) /\ claim \in Owners
  BY InvIsGood DEF IInv, TypeOK
<1> DEFINE Moved(pc) == [s EXCEPT !.client = pc]
\* A client that is there stays under its installed host until it ends.
<1>2. \A pc \in ClientPcs : s.client # "none" \/ pc = "none" => Good(Moved(pc))
  BY <1>1, FieldNames DEF Good, GlobalState, HandoffInv, Named
<1>3. \A pc \in ClientPcs, a \in BOOLEAN, r \in BOOLEAN :
        s.client # "none" \/ pc = "none" =>
          /\ Good([Moved(pc) EXCEPT !.auto = a])
          /\ Good([[s EXCEPT !.rel = r] EXCEPT !.auto = a])
  <2> HIDE DEF Moved
  <2> QED BY <1>1, <1>2, SetFree, FieldNames
<1>4. CASE ClientRegister
  <2>1. \E g : Good(g) /\ s' = g /\ UNCHANGED <<lpc, claim, wl, memOk>>
    BY <1>2, <1>4 DEF ClientRegister, Client, ClientPcs
  <2> QED BY <1>1, <2>1, AssignGood
<1>5. CASE ClientHead
  <2>1. \E g : Good(g) /\ s' = g /\ UNCHANGED <<lpc, claim, wl, memOk>>
    BY <1>2, <1>3, <1>5 DEF ClientHead, Client, ClientPcs
  <2> QED BY <1>1, <2>1, AssignGood
<1>6. CASE ClientBusyDone
  <2>1. isRtlSdrAppSelected(s) \in BOOLEAN
    BY <1>1, FieldNames DEF isRtlSdrAppSelected, Good, GlobalState
  <2>2. \E g : Good(g) /\ s' = g /\ UNCHANGED <<lpc, claim, wl, memOk>>
    BY <1>2, <1>3, <1>6, <2>1 DEF ClientBusyDone, Client, ClientPcs
  <2> QED BY <1>1, <2>2, AssignGood
<1>7. CASE ClientAuto
  <2> DEFINE asked == requestUsbRecovery(s)
  <2>1. Good(asked) /\ asked.client = s.client /\ asked.inst = s.inst
    BY <1>1, RecoveryGood, FieldNames DEF requestUsbRecovery, Good, GlobalState, Named
  <2>2. s.client = "auto" => Good([asked EXCEPT !.client = "head"])
    <3> HIDE DEF asked
    <3> QED BY <2>1, FieldNames DEF Good, GlobalState, HandoffInv, Named, ClientPcs
  <2>3. \E g : Good(g) /\ s' = g /\ UNCHANGED <<lpc, claim, wl, memOk>>
    BY <1>2, <1>3, <1>7, <2>2 DEF ClientAuto, Client, ClientPcs
  <2> QED BY <1>1, <2>3, AssignGood
<1>8. CASE ClientClaim
  <2>1. claim' \in Owners /\ \E g : Good(g) /\ s' = g /\ UNCHANGED <<lpc, wl, memOk>>
    BY <1>2, <1>8, OwnerType DEF ClientClaim, Owners, ClientPcs
  <2> QED BY <2>1, AssignGood
<1>9. CASE ClientRequest
  <2> DEFINE owned == [s EXCEPT !.owner = claim, !.auto = FALSE]
  <2>1. Good(owned)
    BY <1>1, SetOwner, SetFree, FieldNames
  <2>2. owned.client = s.client /\ owned.inst = s.inst
    BY <1>1, FieldNames DEF Good, GlobalState, Named
  <2>3. s.client = "claim" => Good([owned EXCEPT !.client = "head"])
    <3> HIDE DEF owned
    <3> QED BY <2>1, <2>2, FieldNames DEF Good, GlobalState, HandoffInv, Named, ClientPcs
  <2> DEFINE waiting == [s EXCEPT !.owner = claim]
  <2>5. Good(waiting)
    BY <1>1, SetOwner, FieldNames
  <2>6. waiting.client = s.client /\ waiting.inst = s.inst
    BY <1>1, FieldNames DEF Good, GlobalState, Named
  <2>7. s.client = "claim" => Good([waiting EXCEPT !.client = "head"])
    <3> HIDE DEF waiting
    <3> QED BY <2>5, <2>6, FieldNames DEF Good, GlobalState, HandoffInv, Named, ClientPcs
  <2>4. claim' \in Owners /\ \E g : Good(g) /\ s' = g /\ UNCHANGED <<lpc, wl, memOk>>
    BY <1>2, <1>9, <2>3, <2>7 DEF ClientRequest, Owners, ClientPcs
  <2> QED BY <2>4, AssignGood
<1>10. CASE ClientClose
  <2>1. \E g : Good(g) /\ s' = g /\ UNCHANGED <<lpc, claim, wl, memOk>>
    BY <1>3, <1>10 DEF ClientClose, Client, ClientPcs
  <2> QED BY <1>1, <2>1, AssignGood
<1> QED BY <1>4, <1>5, <1>6, <1>7, <1>8, <1>9, <1>10 DEF ClientStep

LEMMA HostStepInv ==
  ASSUME IInv, HostStep
  PROVE  IInv'
<1>1. Good(s) /\ claim \in Owners
  BY InvIsGood DEF IInv, TypeOK
<1>2. CASE HostStop
  <2>1. Good([s EXCEPT !.host = "await"])
    BY <1>1, <1>2, FieldNames DEF HostStop, Good, GlobalState, HandoffInv, Named, HostPcs
  <2> QED BY <1>1, <1>2, <2>1, AssignGood DEF HostStop, Host
<1>3. CASE HostWait
  <2>1. Good([s EXCEPT !.host = "drain"])
    BY <1>1, <1>3, FieldNames DEF HostWait, Host, Good, GlobalState, HandoffInv, Named, HostPcs
  <2> QED BY <1>1, <1>3, <2>1, AssignGood DEF HostWait, Host
<1>4. CASE HostUninstall
  <2>1. s.client = "none" => Good([s EXCEPT !.inst = FALSE, !.host = "cleared"])
    BY <1>1, <1>4, FieldNames DEF HostUninstall, Host, Good, GlobalState, HandoffInv, Named, HostPcs
  <2>2. Good([s EXCEPT !.host = "none"])
    BY <1>1, FieldNames DEF Good, GlobalState, HandoffInv, Named, HostPcs
  <2> QED BY <1>1, <1>4, <2>1, <2>2, AssignGood DEF HostUninstall, Host
<1>5. CASE HostReport
  <2>1. Good([s EXCEPT !.minst = FALSE, !.owner = "NONE"])
    BY <1>1, SetFree, SetOwner, FieldNames DEF Owners
  <2>2. Good([s EXCEPT !.minst = FALSE, !.owner = "NONE", !.host = "reported"])
    BY <1>1, <1>5, <2>1, FieldNames DEF HostReport, Host, Owners, Good, GlobalState, HandoffInv, Named, HostPcs
  <2> QED BY <1>1, <1>5, <2>2, AssignGood DEF HostReport, Host
<1>6. CASE HostExit
  <2>1. Good([s EXCEPT !.host = "none"])
    BY <1>1, FieldNames DEF Good, GlobalState, HandoffInv, Named, HostPcs
  <2> QED BY <1>1, <1>6, <2>1, AssignGood DEF HostExit, Host
<1> QED BY <1>2, <1>3, <1>4, <1>5, <1>6 DEF HostStep

LEMMA EnvStepInv ==
  ASSUME IInv, EnvStep
  PROVE  IInv'
<1>1. Good(s) /\ claim \in Owners
  BY InvIsGood DEF IInv, TypeOK
<1>2. CASE Associate \/ LinkLost \/ HeapChanges
  <2>1. s' = s /\ lpc' = lpc /\ claim' = claim /\ wl' \in {"idle", "trying", "up"} /\ memOk' \in BOOLEAN
    BY <1>2 DEF IInv, TypeOK, Associate, LinkLost, HeapChanges
  <2>2. GlobalState(s') /\ HandoffInv(s')
    BY <1>1, <2>1 DEF Good
  <2> QED BY <2>1, <2>2 DEF IInv, TypeOK
<1>3. CASE HoldExpires \/ CooldownExpires
  <2>1. Good([s EXCEPT !.trans = "over"]) /\ Good([s EXCEPT !.cool = FALSE])
    BY <1>1, SetTrans, SetFree, FieldNames DEF Transitions
  <2> QED BY <1>1, <1>3, <2>1, AssignGood DEF HoldExpires, CooldownExpires
<1> QED BY <1>2, <1>3 DEF EnvStep

LEMMA RestartInv ==
  ASSUME IInv, restartWithBlackScreen
  PROVE  IInv'
<1>1. s.boot \in Profiles \ {"no"} /\ s.owed \in BOOLEAN
  BY FieldNames DEF restartWithBlackScreen, Up, IInv, TypeOK, GlobalState, HandoffInv
<1>2. Good(s')
  BY <1>1, BootGood DEF restartWithBlackScreen
<1>3. GlobalState(s') /\ HandoffInv(s')
  BY <1>2 DEF Good
<1> QED BY <1>3 DEF restartWithBlackScreen, IInv, TypeOK, Owners

LEMMA InitInv == Init => IInv
<1> SUFFICES ASSUME Init PROVE IInv
  OBVIOUS
<1>1. Good(s)
  BY BootGood DEF Init, ExclusiveApps, Profiles
<1> QED BY <1>1 DEF Init, IInv, TypeOK, Good, Owners

LEMMA NextInv == IInv /\ [Next]_vars => IInv'
<1> SUFFICES ASSUME IInv, [Next]_vars PROVE IInv'
  OBVIOUS
<1>1. CASE UNCHANGED vars
  BY <1>1 DEF vars, IInv, TypeOK, GlobalState, HandoffInv
<1> QED BY <1>1, LoopStepInv, ClientStepInv, HostStepInv, EnvStepInv, RestartInv DEF Next

\* Every reachable state is one the globals of main.cpp can hold.
THEOREM TypeCorrect == Spec => []TypeOK
<1>1. IInv => TypeOK
  BY DEF IInv
<1> QED BY <1>1, InitInv, NextInv, PTL DEF Spec

\* rtlSdrClientTask never outlives the host stack it is registered with, whatever fails,
\* stalls or is opened: rtlSdrHostTask only clears rtlSdrHostInstalled behind it.
THEOREM ClientNeverOrphaned == Spec => []ClientWithinHost
<1>1. IInv => ClientWithinHost
  BY DEF IInv, HandoffInv, ClientWithinHost
<1> QED BY <1>1, InitInv, NextInv, PTL DEF Spec

\* setWifiEnabled(true) and ensureRtlSdrHost never leave both stacks in use: under a
\* live radio an installed host has been told to stop.
THEOREM StacksAlternate == Spec => []WifiOverHostIsTeardown
<1>1. IInv => WifiOverHostIsTeardown
  BY DEF IInv, HandoffInv, WifiOverHostIsTeardown
<1> QED BY <1>1, InitInv, NextInv, PTL DEF Spec

\* The boot profile without Wi-Fi keeps the hosted radio off for the whole boot.
THEOREM UsbProfileKeepsRadioOff == Spec => []RadioOffInUsbProfile
<1>1. IInv => RadioOffInUsbProfile
  BY DEF IInv, HandoffInv, RadioOffInUsbProfile
<1> QED BY <1>1, InitInv, NextInv, PTL DEF Spec

-----------------------------------------------------------------------------
(***************************************************************************)
(* UsbWifiHandoff implements UsbLease for every choice of the constants.    *)
(*                                                                          *)
(* Of a step of the loop only four things matter to the lease.  Nearly all  *)
(* operations give the owner up or leave it alone (Drops); only             *)
(* ensureRtlSdrHost brings one in, with its host and client (Takes); and    *)
(* only a recovery replaces one (Over).                                     *)
(***************************************************************************)

SamePort(g, h) == h.inst = g.inst /\ h.minst = g.minst /\ h.client = g.client
SameStack(g, h) == SamePort(g, h) /\ h.host = g.host /\ (g.stop => h.stop)
Live(g) == g.host # "none" \/ g.client # "none"
SameLease(g, h) == SameStack(g, h) /\ h.owner = g.owner

Drops(g, h) == SameStack(g, h) /\ h.owner \in {g.owner, "NONE"}
Takes(g, h) ==
  /\ h.owner # "NONE" /\ g.owner \in {"NONE", h.owner}
  /\ \/ SameStack(g, h)
     \/ /\ ~(g.stop /\ Live(g))
        /\ \/ SamePort(g, h)
           \/ h.inst /\ h.minst /\ (g.client # "none" => h.client # "none")
Over(g, h) == SameStack(g, h) /\ h.owner = "UTILITY"

Claims(g, h) == SameLease(g, h) \/ Takes(g, h)
Uses(g, h) == Drops(g, h) \/ Takes(g, h) \/ Over(g, h)

\* The flag of the manager is set with that of the tasks and cleared after it.
Reported(g) == g.inst => g.minst

LeaseInv == IInv /\ Reported(s)

LEMMA DropsTransitive ==
  ASSUME NEW g, NEW h, NEW k, Drops(g, h), Drops(h, k)
  PROVE  Drops(g, k)
  BY DEF Drops, SameStack, SamePort
LEMMA ClaimsTransitive ==
  ASSUME NEW g, NEW h, NEW k, Claims(g, h), Claims(h, k)
  PROVE  Claims(g, k)
  BY DEF Claims, Takes, SameLease, SameStack, SamePort, Live
LEMMA Included ==
  ASSUME NEW g, NEW h
  PROVE  /\ SameLease(g, h) => Drops(g, h)
         /\ Drops(g, h) \/ Claims(g, h) \/ Over(g, h) => Uses(g, h)
  BY DEF Uses, Claims, Drops, SameLease

\* Fields the lease does not see.
Unseen == Fields \ {"inst", "minst", "client", "owner", "host", "stop"}
LEMMA UnseenNames ==
  Unseen = (Free \ {"minst"}) \cup {"wifi", "stack"} \cup (Named \ {"client", "owner", "host"})
  BY DEF Unseen, Fields, Flags, Free, Named

LEMMA SetUnseen ==
  ASSUME NEW g, GlobalState(g), NEW f \in Unseen, NEW v
  PROVE  SameLease(g, [g EXCEPT ![f] = v])
  BY FieldNames DEF Unseen, SameLease, SameStack, SamePort, GlobalState, Named


-----------------------------------------------------------------------------
(* The operations that give the owner up or leave it alone. *)

LEMMA RestartDrops ==
  ASSUME NEW g, Good(g), NEW p, NEW r
  PROVE  Drops(g, Restart(g, p, r))
  BY FieldNames DEF Restart, Drops, SameStack, SamePort, Good, GlobalState, Named

LEMMA SuspendDrops ==
  ASSUME NEW g, Good(g)
  PROVE  SameStack(g, suspendWifiForSdr(g)) /\ suspendWifiForSdr(g).owner = g.owner
  BY FieldNames DEF suspendWifiForSdr, SameStack, SamePort, Good, GlobalState, Named

LEMMA RestoreDrops ==
  ASSUME NEW g, Good(g), NEW mem, NEW waited
  PROVE  Drops(g, restoreWifiAfterSdr(g, mem, waited))
  BY FieldNames DEF restoreWifiAfterSdr, requestWifiBoot, Restart, Drops, SameStack, SamePort, Good,
                    GlobalState, Named

LEMMA StopDrops ==
  ASSUME NEW g, Good(g)
  PROVE  Drops(g, stopRtlSdrHost(g))
  BY FieldNames DEF stopRtlSdrHost, Drops, SameStack, SamePort, Good, GlobalState, Named

LEMMA ReleaseSessionDrops ==
  ASSUME NEW g, Good(g)
  PROVE  Drops(g, releaseUsbSession(g))
<1> DEFINE stopped == stopRtlSdrHost(g)
<1>1. Drops(g, stopped) /\ Good(stopped)
  BY StopGood, StopDrops
<1>2. Drops(stopped, [stopped EXCEPT !.rel = TRUE, !.owner = "NONE"])
  <2> HIDE DEF stopped
  <2> QED BY <1>1, FieldNames DEF Drops, SameStack, SamePort, Good, GlobalState, Named
<1> HIDE DEF stopped
<1> QED BY <1>1, <1>2, DropsTransitive DEF releaseUsbSession, stopped

LEMMA ReleaseAppDrops ==
  ASSUME NEW g, Good(g), NEW mem, NEW waited
  PROVE  Drops(g, releaseSdrAppResources(g, mem, waited))
<1> DEFINE idle == [g EXCEPT !.want = FALSE, !.auto = FALSE]
           freed == releaseUsbSession(idle)
           r == restoreWifiAfterSdr(freed, mem, waited)
<1>1. Good(idle) /\ Drops(g, idle)
  <2>1. Good(idle)
    BY SetFree, FieldNames
  <2>2. Drops(g, idle)
    BY FieldNames DEF Drops, SameStack, SamePort, Good, GlobalState, Named
  <2> QED BY <2>1, <2>2
<1>2. Good(freed) /\ Drops(idle, freed)
  <2> HIDE DEF idle
  <2> QED BY <1>1, ReleaseSessionGood, ReleaseSessionDrops
<1>3. Good(r) /\ Drops(freed, r)
  <2> HIDE DEF freed
  <2> QED BY <1>2, RestoreGood, RestoreDrops
<1>4. Drops(r, [r EXCEPT !.blocking = TRUE, !.app = "menu"])
  <2> HIDE DEF r
  <2> QED BY <1>3, FieldNames DEF Drops, SameStack, SamePort, Good, GlobalState, Named
<1>5. releaseSdrAppResources(g, mem, waited) \in {r, [r EXCEPT !.blocking = TRUE, !.app = "menu"]}
  BY DEF releaseSdrAppResources
<1> HIDE DEF idle, freed, r
<1> QED BY <1>1, <1>2, <1>3, <1>4, <1>5, DropsTransitive

LEMMA HiddenDrops ==
  ASSUME NEW g, Good(g)
  PROVE  Drops(g, stopHiddenAppWork(g))
<1> DEFINE hidden == [g EXCEPT !.want = @ /\ isWaypointAppVisible(g, "air"),
                               !.auto = @ /\ isRtlSdrAppSelected(g)]
<1>1. Good(hidden)
  BY SetFree, FieldNames
<1>2. Drops(g, hidden)
  BY FieldNames DEF Drops, SameStack, SamePort, Good, GlobalState, Named
<1>3. stopHiddenAppWork(g) \in {hidden, releaseUsbSession(hidden)}
  BY DEF stopHiddenAppWork
<1> HIDE DEF hidden
<1> QED BY <1>1, <1>2, <1>3, ReleaseSessionDrops, DropsTransitive

LEMMA TransitionDrops ==
  ASSUME NEW g, Good(g)
  PROVE  Drops(g, updateWifiTransition(g))
  BY FieldNames DEF updateWifiTransition, Drops, SameStack, SamePort, Good, GlobalState, Named

LEMMA StartDrops ==
  ASSUME NEW g, Good(g), NEW hw \in RadioOutcomes
  PROVE  Drops(g, wifiStart(g, hw))
  BY FieldNames DEF wifiStart, RadioOutcomes, Drops, SameStack, SamePort, Good, GlobalState, Named

LEMMA DeferDrops ==
  ASSUME NEW g, Good(g)
  PROVE  Drops(g, [g EXCEPT !.pend = TRUE]) /\ Drops(g, [g EXCEPT !.trans = "held"])
  BY FieldNames DEF Drops, SameStack, SamePort, Good, GlobalState, Named

LEMMA EnableDrops ==
  ASSUME NEW g, Good(g), NEW mem, NEW hw \in RadioOutcomes
  PROVE  Drops(g, setWifiEnabledTrue(g, mem, hw))
<1> DEFINE profile == [g EXCEPT !.pend = FALSE, !.trans = "no", !.wifi = FALSE, !.crash = TRUE]
           needs == HostHeld(g) \/ (~mem /\ ~g.stack)
           prepared == IF needs THEN resourceManagerPrepareForWifi(g) ELSE g
           enabled == setWifiEnabledTrue(g, mem, hw)
<1>1. Drops(g, requestWifiBoot(profile, "profile"))
  BY FieldNames DEF requestWifiBoot, Restart, Drops, SameStack, SamePort, Good, GlobalState, Named
<1>2. Drops(g, [g EXCEPT !.pend = FALSE])
  BY FieldNames DEF Drops, SameStack, SamePort, Good, GlobalState, Named
<1>3. Good(prepared) /\ Drops(g, prepared)
  BY PrepareGood, ReleaseSessionDrops DEF resourceManagerPrepareForWifi, Drops, SameStack, SamePort
<1>4. /\ Drops(prepared, [prepared EXCEPT !.pend = TRUE])
      /\ Drops(prepared, [prepared EXCEPT !.trans = "held"])
      /\ Drops(prepared, wifiStart(prepared, hw))
  <2> HIDE DEF prepared
  <2> QED BY <1>3, StartDrops, DeferDrops
<1>5. \/ enabled = requestWifiBoot(profile, "profile")
      \/ enabled = [g EXCEPT !.pend = FALSE] \/ enabled = [g EXCEPT !.pend = TRUE]
      \/ enabled = prepared \/ enabled = [prepared EXCEPT !.pend = TRUE]
      \/ enabled = [prepared EXCEPT !.trans = "held"] \/ enabled = wifiStart(prepared, hw)
  <2>1. CASE g.mode # "wifi"
    BY <2>1 DEF setWifiEnabledTrue
  <2>2. CASE g.mode = "wifi" /\ (g.wifi \/ (~g.blocking /\ foregroundUsbAccessory(g)))
    BY <2>2 DEF setWifiEnabledTrue
  <2>3. CASE g.mode = "wifi" /\ ~g.wifi /\ ~(~g.blocking /\ foregroundUsbAccessory(g))
    BY <2>3 DEF setWifiEnabledTrue
  <2> QED BY <2>1, <2>2, <2>3
<1>6. /\ Drops(g, [prepared EXCEPT !.pend = TRUE])
      /\ Drops(g, [prepared EXCEPT !.trans = "held"])
      /\ Drops(g, wifiStart(prepared, hw))
  <2> HIDE DEF prepared
  <2> QED BY <1>3, <1>4, DropsTransitive
<1>7. Drops(g, [g EXCEPT !.pend = TRUE])
  BY DeferDrops
<1> HIDE DEF profile, prepared
<1> QED BY <1>1, <1>2, <1>3, <1>5, <1>6, <1>7

LEMMA DisableDrops ==
  ASSUME NEW g, Good(g)
  PROVE  Drops(g, setWifiEnabledFalse(g))
  BY FieldNames DEF setWifiEnabledFalse, Drops, SameStack, SamePort, Good, GlobalState, Named

LEMMA NavigateDrops ==
  ASSUME NEW g, Good(g), NEW nav
  PROVE  Drops(g, navigate(g, nav))
  BY FieldNames DEF navigate, Drops, SameStack, SamePort, Good, GlobalState, Named

LEMMA ReleaseElmDrops ==
  ASSUME NEW g, Good(g)
  PROVE  Drops(g, releaseElm(g))
  BY FieldNames DEF releaseElm, Drops, SameStack, SamePort, Good, GlobalState, Named

LEMMA ExitExclusiveDrops ==
  ASSUME NEW g, Good(g)
  PROVE  Drops(g, exitExclusive(g))
<1> DEFINE stopped == stopRtlSdrHost(g)
<1>1. Drops(g, stopped) /\ Good(stopped)
  BY StopGood, StopDrops
<1>2. Drops(stopped, [stopped EXCEPT !.rel = TRUE, !.app = "menu", !.ex = g.owed])
  <2> HIDE DEF stopped
  <2> QED BY <1>1, FieldNames DEF Drops, SameStack, SamePort, Good, GlobalState, Named
<1> HIDE DEF stopped
<1> QED BY <1>1, <1>2, DropsTransitive DEF exitExclusive, stopped

LEMMA LeaveByNavDrops ==
  ASSUME NEW g, Good(g), NEW nav \in {"menu", "lock"}, NEW mem, NEW waited
  PROVE  Drops(g, leaveByNav(g, nav, mem, waited))
<1> DEFINE r == releaseSdrAppResources(g, mem, waited)
           e == releaseElm(g)
           x == exitExclusive(e)
<1>1. Good(r) /\ Good(e) /\ Drops(g, r) /\ Drops(g, e)
  BY ReleaseAppGood, ReleaseAppDrops, ReleaseElmGood, ReleaseElmDrops
<1>2. Good(x) /\ Drops(g, x)
  <2> HIDE DEF e
  <2> QED BY <1>1, ExitExclusiveGood, ExitExclusiveDrops, DropsTransitive
<1>3. Drops(g, [r EXCEPT !.nav = nav])
  <2> HIDE DEF r
  <2>1. Drops(r, [r EXCEPT !.nav = nav])
    BY <1>1, FieldNames DEF Drops, SameStack, SamePort, Good, GlobalState, Named
  <2> QED BY <1>1, <2>1, DropsTransitive
<1>4. Drops(g, navigate(g, nav)) /\ Drops(g, navigate(r, nav))
      /\ Drops(g, navigate(e, nav)) /\ Drops(g, navigate(x, nav))
  <2> HIDE DEF r, e, x
  <2> QED BY <1>1, <1>2, NavigateDrops, DropsTransitive
<1>5. leaveByNav(g, nav, mem, waited) \in
        {[r EXCEPT !.nav = nav], navigate(r, nav), x, navigate(x, nav), navigate(e, nav),
         navigate(g, nav)}
  BY DEF leaveByNav
<1> HIDE DEF r, e, x
<1> QED BY <1>2, <1>3, <1>4, <1>5

LEMMA LeaveToMenuDrops ==
  ASSUME NEW g, Good(g), NEW mem, NEW waited
  PROVE  Drops(g, leaveCurrentAppToMenu(g, mem, waited))
<1>1. ASSUME NEW h, Good(h), Drops(g, h)
      PROVE  Drops(g, [h EXCEPT !.app = "menu"])
  <2>1. Drops(h, [h EXCEPT !.app = "menu"])
    BY <1>1, FieldNames DEF Drops, SameStack, SamePort, Good, GlobalState, Named
  <2> QED BY <1>1, <2>1, DropsTransitive
<1> QED BY <1>1, ReleaseAppGood, ReleaseAppDrops, ReleaseElmGood, ReleaseElmDrops,
           ExitExclusiveDrops DEF leaveCurrentAppToMenu

-----------------------------------------------------------------------------
(* The operations that bring an owner in. *)

LEMMA InstallClaims ==
  ASSUME NEW g, Good(g), NEW hw \in Outcomes
  PROVE  LET h == usbHostInstall(g, hw)
         IN  /\ h.owner = g.owner
             /\ SamePort(g, h)
                  \/ (h.inst /\ h.minst /\ (g.client # "none" => h.client # "none"))
  BY FieldNames DEF usbHostInstall, SameStack, SamePort, Good, GlobalState, Named

LEMMA EnsureClaims ==
  ASSUME NEW g, Good(g), NEW hw \in Outcomes
  PROVE  Claims(g, ensureRtlSdrHost(g, hw))
<1> DEFINE asked == requestedUsbOwner(g)
           owner == IF asked = "NONE" /\ g.owner = "UTILITY" THEN "UTILITY" ELSE asked
           owned == [g EXCEPT !.owner = owner]
           silent == suspendWifiForSdr(owned)
           hosted == usbHostInstall(silent, hw)
<1>1. Good(owned) /\ SameStack(g, owned) /\ owned.owner = owner
  <2>1. Good(owned)
    BY OwnerType, SetOwner DEF Owners
  <2> HIDE DEF owner
  <2> QED BY <2>1, FieldNames DEF SameStack, SamePort, Good, GlobalState, Named
<1>2. Good(silent) /\ SameStack(owned, silent) /\ silent.owner = owner
  <2> HIDE DEF owned
  <2> QED BY <1>1, SuspendGood, SuspendDrops
<1>3. /\ hosted.owner = owner
      /\ SamePort(silent, hosted)
           \/ (hosted.inst /\ hosted.minst /\ (silent.client # "none" => hosted.client # "none"))
  <2> HIDE DEF silent
  <2> QED BY <1>2, InstallClaims
<1>4. \/ ensureRtlSdrHost(g, hw) = g
      \/ /\ owner # "NONE" /\ g.owner \in {"NONE", owner} /\ ~(g.stop /\ Live(g))
         /\ ensureRtlSdrHost(g, hw) = owned \/ ensureRtlSdrHost(g, hw) = hosted
  <2>1. CASE (g.stop /\ Tasks(g)) \/ owner = "NONE" \/ g.owner \notin {"NONE", owner}
    BY <2>1 DEF ensureRtlSdrHost
  <2>2. CASE ~(g.stop /\ Tasks(g)) /\ owner # "NONE" /\ g.owner \in {"NONE", owner}
    BY <2>2 DEF ensureRtlSdrHost, Tasks, Live
  <2> QED BY <2>1, <2>2
<1> HIDE DEF owner, owned, silent, hosted
<1> QED BY <1>1, <1>2, <1>3, <1>4 DEF Claims, Takes, SameLease, SameStack, SamePort

LEMMA SetClaims ==
  ASSUME NEW g, NEW h, Good(h), Claims(g, h), NEW f \in Unseen, NEW v
  PROVE  Claims(g, [h EXCEPT ![f] = v])
<1>1. SameLease(h, [h EXCEPT ![f] = v])
  BY SetUnseen DEF Good
<1>2. Claims(h, [h EXCEPT ![f] = v])
  BY <1>1 DEF Claims
<1> QED BY <1>2, ClaimsTransitive

LEMMA StreamClaims ==
  ASSUME NEW g, Good(g), NEW hw \in Outcomes, NEW h \in startRfSdrStream(g, hw)
  PROVE  Claims(g, h)
<1>1. Good(ensureRtlSdrHost(g, hw)) /\ Claims(g, ensureRtlSdrHost(g, hw))
  BY EnsureGood, EnsureClaims
<1>2. "auto" \in Unseen
  BY UnseenNames DEF Free, Flags
<1> QED BY <1>1, <1>2, SetClaims DEF startRfSdrStream

LEMMA OpenUses ==
  ASSUME NEW g, Good(g), NEW a \in UsbApps, NEW hw \in Outcomes
  PROVE  Uses(g, openApp(g, a, hw))
<1> DEFINE opened == [g EXCEPT !.app = a]
           owing == [g EXCEPT !.owed = g.wifi /\ wl = "up"]
<1>1. Drops(g, requestWifiBoot(g, "profile"))
  BY RestartDrops DEF requestWifiBoot
<1>2. Drops(g, Restart(owing, a, "exclusive"))
  <2>1. Good(owing) /\ SameLease(g, owing)
    <3>1. (g.wifi /\ wl = "up") \in BOOLEAN
      BY FieldNames DEF Good, GlobalState
    <3>2. Good(owing)
      BY <3>1, SetFree, FieldNames
    <3> QED BY <3>2, FieldNames DEF SameLease, SameStack, SamePort, Good, GlobalState, Named
  <2> HIDE DEF owing
  <2>2. Drops(owing, Restart(owing, a, "exclusive"))
    BY <2>1, RestartDrops
  <2> QED BY <2>1, <2>2, Included, DropsTransitive
<1>3. Good(opened) /\ SameLease(g, opened)
  <2>1. Good(opened)
    BY SetApp DEF Screens
  <2> QED BY <2>1, FieldNames DEF SameLease, SameStack, SamePort, Good, GlobalState, Named
<1>4. Claims(g, ensureRtlSdrHost(opened, hw))
  <2> HIDE DEF opened
  <2>1. Claims(g, opened) /\ Claims(opened, ensureRtlSdrHost(opened, hw))
    BY <1>3, EnsureClaims DEF Claims
  <2> QED BY <2>1, ClaimsTransitive
<1>5. openApp(g, a, hw) \in {requestWifiBoot(g, "profile"), Restart(owing, a, "exclusive"),
                             opened, ensureRtlSdrHost(opened, hw)}
  BY DEF openApp
<1> HIDE DEF opened, owing
<1> QED BY <1>1, <1>2, <1>3, <1>4, <1>5, Included

LEMMA RecoveryUses ==
  ASSUME NEW g, Good(g)
  PROVE  /\ g.phase = "IDLE" => Over(g, requestUsbRecovery(g))
         /\ g.phase # "IDLE" => requestUsbRecovery(g) = g
  BY FieldNames DEF requestUsbRecovery, Over, SameStack, SamePort, Good, GlobalState, Named

LEMMA PressUses ==
  ASSUME NEW g, Good(g), NEW mem, NEW waited, NEW hw \in Outcomes,
         NEW h \in pressButton(g, mem, waited, hw)
  PROVE  Uses(g, h)
<1>1. CASE g.app = "wifi"
  <2>1. \/ h \in {setWifiEnabledFalse(g), [g EXCEPT !.pend = TRUE]}
        \/ \E radio \in RadioOutcomes : h = setWifiEnabledTrue(g, mem, radio)
    BY <1>1 DEF pressButton, SdrApps
  <2> QED BY <2>1, DeferDrops, DisableDrops, EnableDrops, Included
<1>2. CASE g.app = "usb"
  <2>1. h = requestUsbRecovery(g)
    BY <1>2 DEF pressButton, SdrApps
  <2>2. Drops(g, g)
    BY DEF Drops, SameStack, SamePort
  <2> QED BY <2>1, <2>2, RecoveryUses, Included
<1>3. CASE g.app \in SdrApps
  <2> DEFINE asking == [g EXCEPT !.want = g.app = "air"]
             idle == [g EXCEPT !.want = FALSE, !.auto = FALSE]
             session == ensureRtlSdrHost(asking, hw)
             started == startRfSdrStream(session, hw)
             stopped == restoreWifiAfterSdr(stopRtlSdrHost(idle), mem, waited)
  <2>1. Good(asking) /\ Good(idle)
    BY SetFree, FieldNames
  <2>2. SameLease(g, asking) /\ SameLease(g, idle)
    BY FieldNames DEF SameLease, SameStack, SamePort, Good, GlobalState, Named
  <2>3. ASSUME NEW r \in started
        PROVE  Claims(g, r)
    <3>1. Good(session) /\ Claims(g, session)
      <4> HIDE DEF asking
      <4>1. Claims(g, asking) /\ Claims(asking, session) /\ Good(session)
        BY <2>1, <2>2, EnsureGood, EnsureClaims DEF Claims
      <4> QED BY <4>1, ClaimsTransitive
    <3>2. Claims(session, r)
      <4> HIDE DEF session
      <4> QED BY <2>3, <3>1, StreamClaims
    <3> QED BY <3>1, <3>2, ClaimsTransitive
  <2>4. Drops(g, stopped)
    <3> DEFINE halted == stopRtlSdrHost(idle)
    <3>1. Good(halted) /\ Drops(g, halted)
      <4> HIDE DEF idle
      <4> QED BY <2>1, <2>2, StopGood, StopDrops, Included, DropsTransitive
    <3> HIDE DEF halted
    <3>2. Drops(halted, restoreWifiAfterSdr(halted, mem, waited))
      BY <3>1, RestoreDrops
    <3>3. Drops(g, restoreWifiAfterSdr(halted, mem, waited))
      BY <3>1, <3>2, DropsTransitive
    <3> QED BY <3>3 DEF halted
  <2>5. h \in started \/ h = idle \/ h = stopped
    BY <1>3 DEF pressButton, sdrButtons, SdrApps
  <2> HIDE DEF started, idle, stopped
  <2> QED BY <2>2, <2>3, <2>4, <2>5, Included
<1>4. g.app \in {"wifi", "usb"} \cup SdrApps
  BY DEF pressButton
<1> QED BY <1>1, <1>2, <1>3, <1>4

LEMMA MovesUses ==
  ASSUME NEW g, Good(g), NEW mem, NEW waited, NEW hw \in Outcomes,
         NEW h \in userMoves(g, mem, waited, hw)
  PROVE  Uses(g, h)
<1>1. CASE \E nav \in {"menu", "lock"} : h = leaveByNav(g, nav, mem, waited)
  BY <1>1, LeaveByNavDrops, Included
<1>2. CASE h = leaveCurrentAppToMenu(g, mem, waited)
  BY <1>2, LeaveToMenuDrops, Included
<1>3. CASE \E a \in UsbApps : h = openApp(g, a, hw)
  BY <1>3, OpenUses
<1>4. CASE \E a \in Openable : h = [g EXCEPT !.app = a]
  <2>1. SameLease(g, h)
    BY <1>4, FieldNames DEF SameLease, SameStack, SamePort, Good, GlobalState, Named
  <2> QED BY <2>1, Included
<1>5. CASE h \in pressButton(g, mem, waited, hw)
  BY <1>5, PressUses
<1> QED BY <1>1, <1>2, <1>3, <1>4, <1>5 DEF userMoves

-----------------------------------------------------------------------------
(* The steps of the three threads. *)

\* The steps of the loop that only give up.
Giving ==
  \/ LoopEnableDue \/ LoopTop \/ LoopTaskManager \/ LoopExclusiveExit
  \/ LoopExclusiveTimeout \/ LoopRestoreModal \/ LoopRestoreTimeout
  \/ LoopRestore \/ LoopWifiService

LEMMA GivingDrops ==
  ASSUME IInv, Giving
  PROVE  Drops(s, s')
<1>1. Good(s) /\ SameLease(s, s)
  BY InvIsGood DEF SameLease, SameStack, SamePort
<1>2. \A g, pc : LoopTo(g, pc) => s' = g
  BY DEF LoopTo
<1>3. CASE LoopEnableDue
  <2> DEFINE taken == [s EXCEPT !.pend = FALSE]
  <2>1. Good(taken) /\ SameLease(s, taken)
    <3>1. Good(taken)
      BY <1>1, SetFree, FieldNames
    <3> QED BY <1>1, <3>1, FieldNames DEF SameLease, SameStack, SamePort, Good, GlobalState, Named
  <2>2. \A hw \in RadioOutcomes : Drops(s, setWifiEnabledTrue(taken, memOk, hw))
    <3> HIDE DEF taken
    <3> QED BY <2>1, EnableDrops, Included, DropsTransitive
  <2>3. s' = taken \/ s' = s \/ \E hw \in RadioOutcomes : s' = setWifiEnabledTrue(taken, memOk, hw)
    BY <1>2, <1>3 DEF LoopEnableDue
  <2> HIDE DEF taken
  <2> QED BY <1>1, <2>1, <2>2, <2>3, Included
<1>4. CASE LoopTop
  BY <1>1, <1>2, <1>4, Included DEF LoopTop
<1>5. CASE LoopTaskManager
  <2> DEFINE hidden == stopHiddenAppWork(s)
  <2>1. Good(hidden) /\ Drops(s, hidden)
    BY <1>1, HiddenGood, HiddenDrops
  <2>2. Drops(s, updateWifiTransition(hidden))
    <3> HIDE DEF hidden
    <3> QED BY <2>1, TransitionDrops, DropsTransitive
  <2>3. s' = hidden \/ s' = updateWifiTransition(hidden)
    BY <1>2, <1>5 DEF LoopTaskManager
  <2> HIDE DEF hidden
  <2> QED BY <2>1, <2>2, <2>3, Included
<1>6. CASE LoopExclusiveExit \/ LoopExclusiveTimeout
  <2> DEFINE left == [s EXCEPT !.ex = FALSE]
  <2>1. Good(left) /\ SameLease(s, left)
    <3>1. Good(left)
      BY <1>1, SetFree, FieldNames
    <3> QED BY <1>1, <3>1, FieldNames DEF SameLease, SameStack, SamePort, Good, GlobalState, Named
  <2>2. \A r : Drops(s, requestWifiBoot(left, r))
    <3> HIDE DEF left
    <3> QED BY <2>1, RestartDrops, Included, DropsTransitive DEF requestWifiBoot
  <2>3. s' = s \/ \E r : s' = requestWifiBoot(left, r)
    BY <1>2, <1>6 DEF LoopExclusiveExit, LoopExclusiveTimeout
  <2> HIDE DEF left
  <2> QED BY <1>1, <2>2, <2>3, Included
<1>7. ASSUME NEW waited
      PROVE  LET g == updateWifiTransition(restoreWifiAfterSdr(s, memOk, waited))
             IN  Good(g) /\ Drops(s, g)
  <2> DEFINE restored == restoreWifiAfterSdr(s, memOk, waited)
  <2>1. Good(restored) /\ Drops(s, restored)
    BY <1>1, RestoreGood, RestoreDrops
  <2> HIDE DEF restored
  <2>2. Good(updateWifiTransition(restored)) /\ Drops(s, updateWifiTransition(restored))
    BY <2>1, TransitionGood, TransitionDrops, DropsTransitive
  <2> QED BY <2>2 DEF restored
<1>8. CASE LoopRestoreModal
  <2>1. PICK waited \in BOOLEAN :
          LET g == updateWifiTransition(restoreWifiAfterSdr(s, memOk, waited))
          IN  LoopTo(IF wifiBack(g) /\ g.why = "none" THEN dismissModal(g) ELSE g, "top")
    BY <1>8 DEF LoopRestoreModal
  <2> DEFINE g == updateWifiTransition(restoreWifiAfterSdr(s, memOk, waited))
             closed == [g EXCEPT !.blocking = FALSE, !.nav = "none"]
  <2>2. Good(g) /\ Drops(s, g)
    BY <1>7
  <2>3. s' = g \/ s' = closed \/ s' = navigate(closed, g.nav)
    BY <1>2, <2>1 DEF dismissModal
  <2> HIDE DEF g
  <2>4. Good(closed) /\ Drops(g, closed)
    <3>1. Good(closed)
      BY <2>2, SetFree, SetNav, FieldNames DEF Navs
    <3> QED BY <2>2, <3>1, FieldNames DEF Drops, SameStack, SamePort, Good, GlobalState, Named
  <2>5. Drops(s, closed) /\ Drops(s, navigate(closed, g.nav))
    <3> HIDE DEF closed
    <3> QED BY <2>2, <2>4, NavigateDrops, DropsTransitive
  <2> HIDE DEF closed
  <2> QED BY <2>2, <2>3, <2>5, Included
<1>9. CASE LoopRestoreTimeout
  <2> DEFINE g == updateWifiTransition(restoreWifiAfterSdr(s, memOk, FALSE))
             closed == [g EXCEPT !.blocking = FALSE, !.nav = "none"]
  <2>1. Good(g) /\ Drops(s, g)
    BY <1>7
  <2>2. s' = Restart(closed, "wifi", "timeout")
    BY <1>2, <1>9 DEF LoopRestoreTimeout, requestWifiBoot
  <2> HIDE DEF g
  <2>3. Good(closed) /\ Drops(g, closed)
    <3>1. Good(closed)
      BY <2>1, SetFree, SetNav, FieldNames DEF Navs
    <3> QED BY <2>1, <3>1, FieldNames DEF Drops, SameStack, SamePort, Good, GlobalState, Named
  <2> HIDE DEF closed
  <2> QED BY <2>1, <2>2, <2>3, RestartDrops, Included, DropsTransitive
<1>10. CASE LoopRestore
  <2> DEFINE g == updateWifiTransition(s)
  <2>1. Good(g) /\ Drops(s, g)
    BY <1>1, TransitionGood, TransitionDrops
  <2>2. \A waited : Drops(s, restoreWifiAfterSdr(g, memOk, waited))
    <3> HIDE DEF g
    <3> QED BY <2>1, RestoreDrops, DropsTransitive
  <2>3. s' = g \/ \E waited : s' = restoreWifiAfterSdr(g, memOk, waited)
    BY <1>2, <1>10 DEF LoopRestore
  <2> HIDE DEF g
  <2> QED BY <2>1, <2>2, <2>3, Included
<1>11. CASE LoopWifiService
  <2> DEFINE off == [s EXCEPT !.wifi = FALSE, !.stack = FALSE, !.pend = FALSE, !.crash = TRUE]
  <2>1. SameLease(s, off)
    BY <1>1, FieldNames DEF SameLease, SameStack, SamePort, Good, GlobalState, Named
  <2>2. s' \in {s, off}
    BY <1>11 DEF LoopWifiService
  <2> HIDE DEF off
  <2> QED BY <1>1, <2>1, <2>2, Included
<1> QED BY <1>3, <1>4, <1>5, <1>6, <1>8, <1>9, <1>10, <1>11 DEF Giving

LEMMA LoopStepUses ==
  ASSUME IInv, LoopStep
  PROVE  Uses(s, s')
<1>1. Good(s) /\ SameLease(s, s)
  BY InvIsGood DEF SameLease, SameStack, SamePort
<1>2. \A g, pc : LoopTo(g, pc) => s' = g
  BY DEF LoopTo
<1>3. CASE Giving
  BY <1>3, GivingDrops, Included
<1>4. CASE LoopSerial \/ LoopTouch
  <2> DEFINE Lit(d) == [s EXCEPT !.dim = d]
  <2>1. \A d \in BOOLEAN : Good(Lit(d)) /\ SameLease(s, Lit(d))
    <3>1. \A d \in BOOLEAN : Good(Lit(d))
      BY <1>1, SetFree, FieldNames
    <3> QED BY <1>1, <3>1, FieldNames DEF SameLease, SameStack, SamePort, Good, GlobalState, Named
  <2>2. UserMove(s) => Uses(s, s')
    <3> SUFFICES ASSUME UserMove(s) PROVE Uses(s, s')
      OBVIOUS
    <3>1. PICK waited \in BOOLEAN, hw \in Outcomes : s' \in userMoves(Lit(FALSE), memOk, waited, hw)
      BY <1>2 DEF UserMove
    <3> HIDE DEF Lit
    <3>2. Uses(Lit(FALSE), s')
      BY <2>1, <3>1, MovesUses
    <3> QED BY <2>1, <3>2 DEF Uses, Drops, Takes, Over, Claims, SameLease, SameStack, SamePort, Live
  <2>3. s' = s \/ (\E d \in BOOLEAN : s' = Lit(d)) \/ UserMove(s)
    BY <1>2, <1>4 DEF LoopSerial, LoopTouch
  <2> HIDE DEF Lit
  <2> QED BY <1>1, <2>1, <2>2, <2>3, Included
<1>5. CASE LoopRecovery
  <2>0. "phase" \in Unseen
    BY UnseenNames DEF Named
  <2>1. SameLease(s, [s EXCEPT !.phase = "POWER_OFF"])
    BY <1>1, <2>0, SetUnseen DEF Good
  <2>2. \A hw \in Outcomes : Claims(s, [ensureRtlSdrHost(s, hw) EXCEPT !.phase = "ENUMERATE"])
    BY <1>1, <2>0, EnsureGood, EnsureClaims, SetClaims
  <2> DEFINE g == [s EXCEPT !.phase = "IDLE", !.owner = IF @ = "UTILITY" THEN "NONE" ELSE @]
             late == [g EXCEPT !.auto = TRUE, !.want = s.app = "air"]
  <2>3. Drops(s, g)
    BY <1>1, FieldNames DEF Drops, SameStack, SamePort, Good, GlobalState, Named
  <2>4. DOMAIN g = Fields
    BY <1>1 DEF Good, GlobalState
  <2>5. Drops(s, late)
    <3>1. Drops(g, late)
      <4> HIDE DEF g
      <4> QED BY <2>4, FieldNames DEF Drops, SameStack, SamePort, Named
    <3> HIDE DEF g, late
    <3> QED BY <2>3, <3>1, DropsTransitive
  <2>6. \/ s' \in {s, [s EXCEPT !.phase = "POWER_OFF"], g, late}
        \/ \E hw \in Outcomes : s' = [ensureRtlSdrHost(s, hw) EXCEPT !.phase = "ENUMERATE"]
    BY <1>2, <1>5 DEF LoopRecovery
  <2> HIDE DEF g, late
  <2> QED BY <1>1, <2>1, <2>2, <2>3, <2>5, <2>6, Included
<1>6. CASE LoopSdrApps
  <2>1. "want" \in Unseen
    BY UnseenNames, FieldNames
  <2>2. \A hw \in Outcomes : /\ Claims(s, ensureRtlSdrHost(s, hw))
                             /\ Claims(s, [ensureRtlSdrHost(s, hw) EXCEPT !.want = FALSE])
    BY <1>1, <2>1, EnsureGood, EnsureClaims, SetClaims
  <2>3. s' = s \/ \E hw \in Outcomes : s' \in {ensureRtlSdrHost(s, hw),
                                               [ensureRtlSdrHost(s, hw) EXCEPT !.want = FALSE]}
    BY <1>2, <1>6 DEF LoopSdrApps
  <2> QED BY <1>1, <2>2, <2>3, Included
<1> QED BY <1>3, <1>4, <1>5, <1>6 DEF LoopStep, Giving

LEMMA BootFields ==
  ASSUME NEW p, NEW owed
  PROVE  LET g == boot(p, owed)
         IN  /\ g.inst = FALSE /\ g.minst = FALSE /\ g.owner = "NONE" /\ g.client = "none"
             /\ g.why = "none"
<1>1. /\ DOMAIN Blank = Fields /\ Blank.inst = FALSE /\ Blank.minst = FALSE
      /\ Blank.owner = "NONE" /\ Blank.client = "none" /\ Blank.why = "none"
  BY FieldNames DEF Blank, Named
<1> HIDE DEF Blank
<1> QED BY <1>1, FieldNames DEF boot, Named

\* Such a step is one of the lease.
LEMMA UsesIsRunning ==
  ASSUME LeaseInv, IInv', Up, Uses(s, s')
  PROVE  Lease!Running /\ Reported(s')
<1>1. s.owner \in Owners /\ s'.owner \in Owners
  BY DEF LeaseInv, IInv, TypeOK, GlobalState
<1>2. s.inst \in BOOLEAN /\ s.minst \in BOOLEAN /\ s'.inst \in BOOLEAN /\ s'.minst \in BOOLEAN
  BY FieldNames DEF LeaseInv, IInv, TypeOK, GlobalState
<1>3. CASE SameStack(s, s') /\ s'.owner = "NONE"
  BY <1>1, <1>2, <1>3 DEF SameStack, SamePort, LeaseInv, Reported, Lease!Running, Lease!Release
<1>4. CASE SameLease(s, s')
  BY <1>1, <1>2, <1>4 DEF SameLease, SameStack, SamePort, LeaseInv, Reported, Lease!Running
<1>5. CASE Takes(s, s')
  <2>1. Reported(s') /\ (s'.inst \/ s'.minst) \in {s.inst \/ s.minst, TRUE}
    BY <1>2, <1>5 DEF Takes, SameStack, SamePort, LeaseInv, Reported
  <2>2. (s'.client # "none") \in {s.client # "none", s'.inst \/ s'.minst}
    BY <1>2, <1>5 DEF Takes, SameStack, SamePort
  <2>3. s'.owner \in Owners \ {"NONE"} /\ s.owner \in {"NONE", s'.owner}
    BY <1>1, <1>5 DEF Takes
  <2> QED BY <2>1, <2>2, <2>3 DEF Lease!Running, Lease!Acquire
<1>6. CASE Over(s, s')
  BY <1>1, <1>2, <1>6 DEF Over, SameStack, SamePort, LeaseInv, Reported, Lease!Running, Lease!TakeOver
<1> QED BY <1>3, <1>4, <1>5, <1>6 DEF Uses, Drops, SameLease

\* The client task ends, asks for the lease it has computed, or starts a recovery.
LEMMA ClientStepRuns ==
  ASSUME LeaseInv, IInv', ClientStep
  PROVE  Lease!Running /\ Reported(s')
<1>1. Good(s) /\ Up
  BY InvIsGood DEF LeaseInv, ClientStep, ClientRegister, ClientHead, ClientBusyDone, ClientAuto,
     ClientClaim, ClientRequest, ClientClose, Client
<1> USE FieldNames
<1>2. ASSUME NEW pc, s' = [s EXCEPT !.client = pc], s.client # "none"
      PROVE  Lease!Running /\ Reported(s')
  <2>1. s'.inst = s.inst /\ s'.minst = s.minst /\ s'.owner = s.owner /\ s'.client = pc
    BY <1>1, <1>2 DEF Good, GlobalState, Named
  <2> QED BY <1>1, <1>2, <2>1 DEF LeaseInv, Reported, Lease!Running, Lease!ClientLeaves
<1>3. ASSUME NEW pc, NEW a, s' = [s EXCEPT !.client = pc, !.auto = a], s.client # "none"
      PROVE  Lease!Running /\ Reported(s')
  <2>1. s'.inst = s.inst /\ s'.minst = s.minst /\ s'.owner = s.owner /\ s'.client = pc
    BY <1>1, <1>3 DEF Good, GlobalState, Named
  <2> QED BY <1>1, <1>3, <2>1 DEF LeaseInv, Reported, Lease!Running, Lease!ClientLeaves
<1>4. CASE ClientRegister
  BY <1>2, <1>4 DEF ClientRegister, Client
<1>5. CASE ClientHead
  <2>1. CASE s' = [s EXCEPT !.rel = FALSE, !.auto = FALSE]
    <3>1. SameLease(s, s')
      BY <1>1, <2>1 DEF SameLease, SameStack, SamePort, Good, GlobalState, Named
    <3> QED BY <1>1, <3>1, UsesIsRunning, Included
  <2> QED BY <1>2, <1>5, <2>1 DEF ClientHead, Client
<1>6. CASE ClientBusyDone
  BY <1>2, <1>3, <1>6 DEF ClientBusyDone, Client
<1>7. CASE ClientAuto
  <2> DEFINE asked == requestUsbRecovery(s)
  <2>1. CASE s.phase = "IDLE" /\ s.client = "auto" /\ s' = [asked EXCEPT !.client = "head"]
    <3>1. Good(asked) /\ Over(s, asked)
      BY <1>1, <2>1, RecoveryGood, RecoveryUses
    <3>2. /\ s'.inst = asked.inst /\ s'.minst = asked.minst /\ s'.owner = asked.owner
          /\ s'.client = "head"
      <4> HIDE DEF asked
      <4> QED BY <2>1, <3>1 DEF Good, GlobalState, Named
    <3> HIDE DEF asked
    <3> QED BY <1>1, <2>1, <3>1, <3>2
            DEF Over, SameStack, SamePort, LeaseInv, Reported, Lease!Running, Lease!TakeOver
  <2> QED BY <1>2, <1>3, <1>7, <2>1 DEF ClientAuto, Client
<1>8. CASE ClientClaim
  BY <1>2, <1>8 DEF ClientClaim
<1>9. CASE ClientRequest
  <2>1. CASE s.owner \in {"NONE", claim} /\ s.client = "claim"
             /\ s' \in {[s EXCEPT !.owner = claim, !.auto = FALSE, !.client = "head"],
                        [s EXCEPT !.owner = claim, !.client = "head"]}
    <3>1. s'.inst = s.inst /\ s'.minst = s.minst /\ s'.owner = claim /\ s'.client = "head"
      BY <1>1, <2>1 DEF Good, GlobalState, Named
    <3>2. claim \in Owners
      BY DEF LeaseInv, IInv, TypeOK
    <3>3. CASE claim = "NONE"
      BY <1>1, <2>1, <3>1, <3>3 DEF LeaseInv, Reported, Lease!Running
    <3>4. CASE claim # "NONE"
      BY <1>1, <2>1, <3>1, <3>2, <3>4 DEF LeaseInv, Reported, Lease!Running, Lease!Acquire
    <3> QED BY <3>3, <3>4
  <2> QED BY <1>2, <1>9, <2>1 DEF ClientRequest
<1>10. CASE ClientClose
  BY <1>3, <1>10 DEF ClientClose, Client
<1> QED BY <1>4, <1>5, <1>6, <1>7, <1>8, <1>9, <1>10 DEF ClientStep

\* The host task clears its own flag first: the host is gone for the lease when the
\* manager's flag goes too, and by then the client has left.
LEMMA HostStepRuns ==
  ASSUME LeaseInv, IInv', HostStep
  PROVE  Lease!Running /\ Reported(s')
<1>1. Good(s) /\ Up
  BY InvIsGood DEF LeaseInv, HostStep, HostStop, HostWait, HostUninstall, HostReport, HostExit, Host
<1>2. s.inst \in BOOLEAN /\ s.minst \in BOOLEAN
  BY <1>1, FieldNames DEF Good, GlobalState
<1>3. ASSUME NEW pc, s' = [s EXCEPT !.host = pc]
      PROVE  Lease!Running /\ Reported(s')
  <2>1. SamePort(s, s') /\ s'.owner = s.owner
    BY <1>1, <1>3, FieldNames DEF SamePort, Good, GlobalState, Named
  <2> QED BY <1>1, <1>2, <2>1 DEF SamePort, LeaseInv, Reported, Lease!Running
<1>4. CASE HostStop \/ HostWait \/ HostExit
  BY <1>3, <1>4 DEF HostStop, HostWait, HostExit, Host
<1>5. CASE HostUninstall
  <2>1. CASE s' = [s EXCEPT !.inst = FALSE, !.host = "cleared"]
    <3>1. ~s'.inst /\ s'.minst = s.minst /\ s'.owner = s.owner /\ s'.client = s.client
      BY <1>1, <2>1, FieldNames DEF Good, GlobalState, Named
    <3> QED BY <1>1, <1>2, <3>1 DEF LeaseInv, Reported, Lease!Running
  <2> QED BY <1>3, <1>5, <2>1 DEF HostUninstall, Host
<1>6. CASE HostReport
  <2>1. s.host = "cleared" /\ s' = [s EXCEPT !.minst = FALSE, !.owner = "NONE", !.host = "reported"]
    BY <1>6 DEF HostReport, Host
  <2>2. ~s.inst /\ s.client = "none"
    BY <1>1, <2>1 DEF Good, HandoffInv
  <2>3. s'.inst = s.inst /\ ~s'.minst /\ s'.owner = "NONE" /\ s'.client = s.client
    BY <1>1, <2>1, FieldNames DEF Good, GlobalState, Named
  <2> QED BY <1>1, <1>2, <2>2, <2>3 DEF Reported, Lease!Running, Lease!Uninstall, Lease!Release
<1> QED BY <1>4, <1>5, <1>6 DEF HostStep

LEMMA LeaseInit == Init => LeaseInv /\ Lease!Init
<1> SUFFICES ASSUME Init PROVE LeaseInv /\ Lease!Init
  OBVIOUS
<1>1. PICK p, owed : s = boot(p, owed)
  BY DEF Init
<1>2. s.inst = FALSE /\ s.minst = FALSE /\ s.owner = "NONE" /\ s.client = "none" /\ s.why = "none"
  BY <1>1, BootFields
<1> QED BY <1>2, InitInv DEF LeaseInv, Reported, Lease!Init, Up

LEMMA LeaseNext == LeaseInv /\ [Next]_vars => LeaseInv' /\ [Lease!Next]_(Lease!lease)
<1> SUFFICES ASSUME LeaseInv, [Next]_vars PROVE LeaseInv' /\ [Lease!Next]_(Lease!lease)
  OBVIOUS
<1>1. IInv'
  BY NextInv DEF LeaseInv
<1>2. CASE s' = s
  BY <1>1, <1>2 DEF LeaseInv, Reported, Lease!lease, Up
<1>3. CASE LoopStep
  <2>1. Up
    BY <1>3 DEF LoopStep, LoopEnableDue, LoopTop, LoopTaskManager, LoopExclusiveExit,
       LoopExclusiveTimeout, LoopRestoreModal, LoopRestoreTimeout, LoopSerial, LoopRecovery,
       LoopSdrApps, LoopRestore, LoopTouch, LoopWifiService
  <2>2. Lease!Running /\ Reported(s')
    BY <1>1, <1>3, <2>1, LoopStepUses, UsesIsRunning DEF LeaseInv
  <2> QED BY <1>1, <2>2 DEF LeaseInv, Lease!Next, Up
<1>4. CASE ClientStep
  BY <1>1, <1>4, ClientStepRuns DEF LeaseInv, Lease!Next, Up
<1>5. CASE HostStep
  BY <1>1, <1>5, HostStepRuns DEF LeaseInv, Lease!Next, Up
<1>6. CASE HoldExpires \/ CooldownExpires
  <2>1. SameLease(s, s') /\ Up
    BY <1>6, FieldNames
       DEF HoldExpires, CooldownExpires, SameLease, SameStack, SamePort, LeaseInv, IInv, TypeOK, GlobalState, Named
  <2>2. Lease!Running /\ Reported(s')
    BY <1>1, <2>1, UsesIsRunning, Included
  <2> QED BY <1>1, <2>2 DEF LeaseInv, Lease!Next, Up
<1>7. CASE restartWithBlackScreen
  <2>1. PICK p, owed : s' = boot(p, owed)
    BY <1>7 DEF restartWithBlackScreen
  <2>2. /\ s'.inst = FALSE /\ s'.minst = FALSE /\ s'.owner = "NONE" /\ s'.client = "none"
        /\ s'.why = "none"
    BY <2>1, BootFields
  <2>3. ~Up
    BY <1>7 DEF restartWithBlackScreen
  <2> QED BY <1>1, <2>2, <2>3 DEF LeaseInv, Reported, Lease!Next, Lease!Reset, Up
<1> QED BY <1>2, <1>3, <1>4, <1>5, <1>6, <1>7
        DEF Next, EnvStep, Associate, LinkLost, HeapChanges, vars

\* The loop, rtlSdrHostTask and rtlSdrClientTask together implement the lease of the USB
\* port, whatever is opened, fails or stalls: one owner at a time, replaced only by a
\* recovery, a host that goes only after its client, and no lease without a host left over.
THEOREM LeaseImplemented == Spec => LeaseIsKept
<1>1. LeaseInv /\ [Next]_vars => LeaseInv' /\ [Lease!Next]_(Lease!lease)
  BY LeaseNext
<1> QED BY <1>1, LeaseInit, PTL DEF Spec, LeaseIsKept, Lease!Spec

\* Once rtlSdrHostStopRequested is set, nothing the user opens takes it back before both
\* tasks are gone: ensureRtlSdrHost is the only one that clears it, and it waits for them.
THEOREM StopIsRemembered == Spec => StopIsKept
<1>1. IInv /\ [Next]_vars => [s.stop /\ Up /\ (s.host # "none" \/ s.client # "none") => s'.stop]_vars
  <2> SUFFICES ASSUME IInv, Next, s.stop, Up, Live(s)
               PROVE  s'.stop
    BY DEF Live
  <2>1. DOMAIN s = Fields
    BY DEF IInv, TypeOK, GlobalState
  <2>2. CASE LoopStep
    BY <2>2, LoopStepUses DEF Uses, Drops, Takes, Over, Claims, SameLease, SameStack
  <2>3. CASE ClientStep
    BY <2>1, <2>3, FieldNames
       DEF ClientStep, ClientRegister, ClientHead, ClientBusyDone, ClientAuto, ClientClaim,
           ClientRequest, ClientClose, Client, requestUsbRecovery, Named
  <2>4. CASE HostStep
    BY <2>1, <2>4, FieldNames
       DEF HostStep, HostStop, HostWait, HostUninstall, HostReport, HostExit, Host, Named
  <2>5. CASE EnvStep
    BY <2>1, <2>5, FieldNames
       DEF EnvStep, Associate, LinkLost, HeapChanges, HoldExpires, CooldownExpires, Named
  <2> QED BY <2>2, <2>3, <2>4, <2>5 DEF Next, restartWithBlackScreen
<1> QED BY <1>1, InitInv, NextInv, PTL DEF Spec, StopIsKept

-----------------------------------------------------------------------------
(***************************************************************************)
(* Wi-Fi lent to a USB session stays recorded, and the restore screen stays *)
(* up, for every choice of the constants of UsbWifiHandoff.                 *)
(*                                                                          *)
(* Nearly all operations leave both alone (Calm).  restoreWifiAfterSdr      *)
(* drops the record when the host is gone, and ensureRtlSdrHost when it     *)
(* installs a host without a client; what a step of the loop does before    *)
(* (Eased) and after (Quiet) does not change that.                          *)
(***************************************************************************)

\* g before and h after a call.
Calm(g, h) == h.disabled = g.disabled /\ h.blocking = g.blocking
Eased(g, h) == h.disabled = g.disabled /\ h.crash = g.crash /\ h.client = g.client
Quiet(g, h) == h.disabled = g.disabled /\ h.pend = g.pend /\ SameLease(g, h)

Returned(g, h) == (h.pend \/ g.crash) /\ ~HostHeld(h)
StartedOver(g, h) == g.client = "none" /\ h.owner # "NONE"

Loan(g, h) == g.disabled /\ ~h.disabled => Returned(g, h) \/ StartedOver(g, h)
Kept(g, h) == Loan(g, h) /\ (g.blocking => h.blocking)
Renewed(g, h) ==
  /\ Claims(g, h) /\ h.blocking = g.blocking
  /\ g.disabled /\ ~h.disabled => StartedOver(g, h)

LEMMA CalmTransitive ==
  ASSUME NEW g, NEW h, NEW k, Calm(g, h), Calm(h, k)
  PROVE  Calm(g, k)
  BY DEF Calm
LEMMA CalmKept ==
  ASSUME NEW g, NEW h, Calm(g, h) \/ Renewed(g, h)
  PROVE  Kept(g, h)
  BY DEF Calm, Renewed, Kept, Loan
LEMMA LoanBefore ==
  ASSUME NEW g, NEW h, NEW k, Eased(g, h), Loan(h, k)
  PROVE  Loan(g, k)
  BY DEF Eased, Loan, Returned, StartedOver
LEMMA LoanAfter ==
  ASSUME NEW g, NEW h, NEW k, Loan(g, h), Quiet(h, k)
  PROVE  Loan(g, k)
  BY DEF Quiet, Loan, Returned, StartedOver, HostHeld, SameLease, SameStack, SamePort
LEMMA RenewedTransitive ==
  ASSUME NEW g, NEW h, NEW k, Renewed(g, h), Renewed(h, k)
  PROVE  Renewed(g, k)
<1>1. Claims(g, k)
  BY ClaimsTransitive DEF Renewed
<1>2. (h.client = "none" => g.client = "none") /\ (h.owner # "NONE" => k.owner # "NONE")
  BY DEF Renewed, Claims, Takes, SameLease, SameStack, SamePort
<1> QED BY <1>1, <1>2 DEF Renewed, StartedOver

-----------------------------------------------------------------------------
(* The operations that leave the record and the restore screen alone. *)

LEMMA RestartCalm ==
  ASSUME NEW g, Good(g), NEW p, NEW r
  PROVE  Calm(g, Restart(g, p, r)) /\ Quiet(g, Restart(g, p, r))
  BY FieldNames DEF Restart, Calm, Quiet, SameLease, SameStack, SamePort, Good, GlobalState, Named

LEMMA StopCalm ==
  ASSUME NEW g, Good(g)
  PROVE  Calm(g, stopRtlSdrHost(g)) /\ Eased(g, stopRtlSdrHost(g))
  BY FieldNames DEF stopRtlSdrHost, Calm, Eased, Good, GlobalState, Named

LEMMA ReleaseSessionCalm ==
  ASSUME NEW g, Good(g)
  PROVE  Calm(g, releaseUsbSession(g)) /\ Eased(g, releaseUsbSession(g))
<1> DEFINE stopped == stopRtlSdrHost(g)
<1>1. Good(stopped) /\ Calm(g, stopped) /\ Eased(g, stopped)
  BY StopGood, StopCalm
<1>2. LET h == [stopped EXCEPT !.rel = TRUE, !.owner = "NONE"]
      IN  Calm(stopped, h) /\ Eased(stopped, h)
  <2> HIDE DEF stopped
  <2> QED BY <1>1, FieldNames DEF Calm, Eased, Good, GlobalState, Named
<1> HIDE DEF stopped
<1> QED BY <1>1, <1>2 DEF releaseUsbSession, stopped, Calm, Eased

LEMMA HiddenCalm ==
  ASSUME NEW g, Good(g)
  PROVE  Calm(g, stopHiddenAppWork(g))
<1> DEFINE hidden == [g EXCEPT !.want = @ /\ isWaypointAppVisible(g, "air"),
                               !.auto = @ /\ isRtlSdrAppSelected(g)]
<1>1. Good(hidden)
  BY SetFree, FieldNames
<1>2. Calm(g, hidden)
  BY FieldNames DEF Calm, Good, GlobalState, Named
<1>3. stopHiddenAppWork(g) \in {hidden, releaseUsbSession(hidden)}
  BY DEF stopHiddenAppWork
<1> HIDE DEF hidden
<1> QED BY <1>1, <1>2, <1>3, ReleaseSessionCalm, CalmTransitive

LEMMA TransitionCalm ==
  ASSUME NEW g, Good(g)
  PROVE  Calm(g, updateWifiTransition(g)) /\ Quiet(g, updateWifiTransition(g))
         /\ Eased(g, updateWifiTransition(g))
  BY FieldNames DEF updateWifiTransition, Calm, Quiet, Eased, SameLease, SameStack, SamePort,
                    Good, GlobalState, Named

LEMMA SwitchCalm ==
  ASSUME NEW g, Good(g)
  PROVE  /\ Calm(g, setWifiEnabledFalse(g))
         /\ Calm(g, [g EXCEPT !.pend = TRUE]) /\ Calm(g, [g EXCEPT !.trans = "held"])
         /\ \A hw \in RadioOutcomes : Calm(g, wifiStart(g, hw))
<1>1. Calm(g, setWifiEnabledFalse(g))
  BY FieldNames DEF setWifiEnabledFalse, Calm, Good, GlobalState, Named
<1>2. Calm(g, [g EXCEPT !.pend = TRUE]) /\ Calm(g, [g EXCEPT !.trans = "held"])
  BY FieldNames DEF Calm, Good, GlobalState, Named
<1>3. ASSUME NEW hw \in RadioOutcomes
      PROVE  Calm(g, wifiStart(g, hw))
  BY <1>3, FieldNames DEF wifiStart, RadioOutcomes, Calm, Good, GlobalState, Named
<1> QED BY <1>1, <1>2, <1>3

LEMMA EnableCalm ==
  ASSUME NEW g, Good(g), NEW mem, NEW hw \in RadioOutcomes
  PROVE  Calm(g, setWifiEnabledTrue(g, mem, hw))
<1> DEFINE profile == [g EXCEPT !.pend = FALSE, !.trans = "no", !.wifi = FALSE, !.crash = TRUE]
           needs == HostHeld(g) \/ (~mem /\ ~g.stack)
           prepared == IF needs THEN resourceManagerPrepareForWifi(g) ELSE g
           enabled == setWifiEnabledTrue(g, mem, hw)
<1>1. Calm(g, requestWifiBoot(profile, "profile"))
  BY FieldNames DEF requestWifiBoot, Restart, Calm, Good, GlobalState, Named
<1>2. Calm(g, [g EXCEPT !.pend = FALSE])
  BY FieldNames DEF Calm, Good, GlobalState, Named
<1>3. Good(prepared) /\ Calm(g, prepared)
  BY PrepareGood, ReleaseSessionCalm DEF resourceManagerPrepareForWifi, Calm
<1>4. /\ Calm(g, [prepared EXCEPT !.pend = TRUE])
      /\ Calm(g, [prepared EXCEPT !.trans = "held"])
      /\ Calm(g, wifiStart(prepared, hw))
  <2> HIDE DEF prepared
  <2> QED BY <1>3, SwitchCalm, CalmTransitive
<1>5. \/ enabled = requestWifiBoot(profile, "profile")
      \/ enabled = [g EXCEPT !.pend = FALSE] \/ enabled = [g EXCEPT !.pend = TRUE]
      \/ enabled = prepared \/ enabled = [prepared EXCEPT !.pend = TRUE]
      \/ enabled = [prepared EXCEPT !.trans = "held"] \/ enabled = wifiStart(prepared, hw)
  <2>1. CASE g.mode # "wifi"
    BY <2>1 DEF setWifiEnabledTrue
  <2>2. CASE g.mode = "wifi" /\ (g.wifi \/ (~g.blocking /\ foregroundUsbAccessory(g)))
    BY <2>2 DEF setWifiEnabledTrue
  <2>3. CASE g.mode = "wifi" /\ ~g.wifi /\ ~(~g.blocking /\ foregroundUsbAccessory(g))
    BY <2>3 DEF setWifiEnabledTrue
  <2> QED BY <2>1, <2>2, <2>3
<1>6. Calm(g, [g EXCEPT !.pend = TRUE])
  BY SwitchCalm
<1> HIDE DEF profile, prepared
<1> QED BY <1>1, <1>2, <1>3, <1>4, <1>5, <1>6

LEMMA NavigateCalm ==
  ASSUME NEW g, Good(g), NEW nav
  PROVE  Calm(g, navigate(g, nav)) /\ Quiet(g, navigate(g, nav))
  BY FieldNames DEF navigate, Calm, Quiet, SameLease, SameStack, SamePort, Good, GlobalState, Named

LEMMA ReleaseElmCalm ==
  ASSUME NEW g, Good(g)
  PROVE  Calm(g, releaseElm(g))
  BY FieldNames DEF releaseElm, Calm, Good, GlobalState, Named

LEMMA ExitExclusiveCalm ==
  ASSUME NEW g, Good(g)
  PROVE  Calm(g, exitExclusive(g))
<1> DEFINE stopped == stopRtlSdrHost(g)
<1>1. Good(stopped) /\ Calm(g, stopped)
  BY StopGood, StopCalm
<1>2. Calm(stopped, [stopped EXCEPT !.rel = TRUE, !.app = "menu", !.ex = g.owed])
  <2> HIDE DEF stopped
  <2> QED BY <1>1, FieldNames DEF Calm, Good, GlobalState, Named
<1> HIDE DEF stopped
<1> QED BY <1>1, <1>2, CalmTransitive DEF exitExclusive, stopped

LEMMA RecoveryCalm ==
  ASSUME NEW g, Good(g)
  PROVE  Calm(g, requestUsbRecovery(g))
  BY FieldNames DEF requestUsbRecovery, Calm, Good, GlobalState, Named

-----------------------------------------------------------------------------
(* The two that drop the record. *)

LEMMA RestoreKept ==
  ASSUME NEW g, Good(g), NEW mem, NEW waited
  PROVE  Kept(g, restoreWifiAfterSdr(g, mem, waited))
<1> DEFINE h == restoreWifiAfterSdr(g, mem, waited)
           scheduled == [g EXCEPT !.disabled = FALSE, !.pend = TRUE]
<1>1. h.blocking = g.blocking
  BY FieldNames DEF restoreWifiAfterSdr, requestWifiBoot, Restart, Good, GlobalState, Named
<1>2. CASE g.disabled /\ ~HostHeld(g) /\ (g.stack \/ mem)
  <2>1. h = scheduled \/ (g.crash /\ h = [scheduled EXCEPT !.pend = FALSE])
    BY <1>2, FieldNames DEF restoreWifiAfterSdr, Good, GlobalState
  <2>2. Good(scheduled) /\ scheduled.pend /\ SameLease(g, scheduled)
    <3>1. Good(scheduled)
      BY SetFree, FieldNames
    <3> QED BY <3>1, FieldNames DEF SameLease, SameStack, SamePort, Good, GlobalState, Named
  <2>3. SameLease(scheduled, [scheduled EXCEPT !.pend = FALSE])
    <3> HIDE DEF scheduled
    <3> QED BY <2>2, FieldNames DEF SameLease, SameStack, SamePort, Good, GlobalState, Named
  <2> HIDE DEF scheduled
  <2>4. (h.pend \/ g.crash) /\ ~HostHeld(h)
    BY <1>2, <2>1, <2>2, <2>3 DEF HostHeld, SameLease, SameStack, SamePort
  <2> QED BY <1>1, <2>4 DEF Kept, Loan, Returned
<1>3. CASE g.disabled /\ (HostHeld(g) \/ ~(g.stack \/ mem))
  <2>1. h = g \/ h = Restart([g EXCEPT !.pend = FALSE], "wifi", "lowMemory")
    BY <1>3 DEF restoreWifiAfterSdr, requestWifiBoot
  <2>2. Restart([g EXCEPT !.pend = FALSE], "wifi", "lowMemory").disabled = g.disabled
    BY FieldNames DEF Restart, Good, GlobalState, Named
  <2> HIDE DEF h
  <2>3. h.disabled = g.disabled
    BY <2>1, <2>2
  <2> QED BY <1>1, <1>3, <2>3 DEF Kept, Loan, h
<1>4. CASE ~g.disabled
  BY <1>1, <1>4 DEF Kept, Loan
<1> QED BY <1>2, <1>3, <1>4

LEMMA EnsureRenewed ==
  ASSUME NEW g, Good(g), NEW hw \in Outcomes
  PROVE  Renewed(g, ensureRtlSdrHost(g, hw))
<1> DEFINE asked == requestedUsbOwner(g)
           owner == IF asked = "NONE" /\ g.owner = "UTILITY" THEN "UTILITY" ELSE asked
           owned == [g EXCEPT !.owner = owner]
           silent == suspendWifiForSdr(owned)
           hosted == usbHostInstall(silent, hw)
           h == ensureRtlSdrHost(g, hw)
<1>1. Claims(g, h)
  BY EnsureClaims
<1>2. Good(owned) /\ owned.blocking = g.blocking /\ owned.disabled = g.disabled
  <2>1. Good(owned)
    BY OwnerType, SetOwner DEF Owners
  <2> HIDE DEF owner
  <2> QED BY <2>1, FieldNames DEF Good, GlobalState, Named
<1>3. Good(silent) /\ silent.blocking = owned.blocking /\ silent.owner = owned.owner
  <2> HIDE DEF owned
  <2> QED BY <1>2, SuspendGood, FieldNames DEF suspendWifiForSdr, Good, GlobalState, Named
<1>4. hosted.blocking = silent.blocking /\ hosted.owner = silent.owner
  <2> HIDE DEF silent
  <2> QED BY <1>3, FieldNames DEF usbHostInstall, Good, GlobalState, Named
<1>5. owned.owner = owner
  <2> HIDE DEF owner
  <2> QED BY FieldNames DEF Good, GlobalState, Named
<1>6. \/ h = g \/ h = owned
      \/ /\ owner # "NONE" /\ ~(g.inst /\ g.client # "none") /\ h = hosted
  <2>1. CASE (g.stop /\ Tasks(g)) \/ owner = "NONE" \/ g.owner \notin {"NONE", owner}
    BY <2>1 DEF ensureRtlSdrHost
  <2>2. CASE ~(g.stop /\ Tasks(g)) /\ owner # "NONE" /\ g.owner \in {"NONE", owner}
    BY <2>2 DEF ensureRtlSdrHost
  <2> QED BY <2>1, <2>2
<1>7. g.client # "none" => g.inst
  BY DEF Good, HandoffInv
<1> HIDE DEF owner, owned, silent, hosted, h
<1>8. Renewed(g, h)
  BY <1>1, <1>2, <1>3, <1>4, <1>5, <1>6, <1>7 DEF Renewed, StartedOver
<1> QED BY <1>8 DEF h

LEMMA SetRenewed ==
  ASSUME NEW g, NEW h, Good(h), Renewed(g, h), NEW f \in Unseen \ {"disabled", "blocking"}, NEW v
  PROVE  Renewed(g, [h EXCEPT ![f] = v])
<1>1. SameLease(h, [h EXCEPT ![f] = v])
  BY SetUnseen DEF Good
<1>2. [h EXCEPT ![f] = v].disabled = h.disabled /\ [h EXCEPT ![f] = v].blocking = h.blocking
  BY FieldNames DEF Good, GlobalState
<1>3. Renewed(h, [h EXCEPT ![f] = v])
  BY <1>1, <1>2 DEF Renewed, Claims
<1> QED BY <1>3, RenewedTransitive

LEMMA StreamRenewed ==
  ASSUME NEW g, Good(g), NEW hw \in Outcomes, NEW h \in startRfSdrStream(g, hw)
  PROVE  Renewed(g, h)
<1>1. Good(ensureRtlSdrHost(g, hw)) /\ Renewed(g, ensureRtlSdrHost(g, hw))
  BY EnsureGood, EnsureRenewed
<1>2. "auto" \in Unseen \ {"disabled", "blocking"}
  BY UnseenNames, FieldNames
<1> QED BY <1>1, <1>2, SetRenewed DEF startRfSdrStream

-----------------------------------------------------------------------------
(* What the user can do. *)

LEMMA ReleaseAppKept ==
  ASSUME NEW g, Good(g), NEW mem, NEW waited
  PROVE  Kept(g, releaseSdrAppResources(g, mem, waited))
<1> DEFINE idle == [g EXCEPT !.want = FALSE, !.auto = FALSE]
           freed == releaseUsbSession(idle)
           r == restoreWifiAfterSdr(freed, mem, waited)
           shown == [r EXCEPT !.blocking = TRUE, !.app = "menu"]
<1>1. Good(idle) /\ Calm(g, idle) /\ Eased(g, idle)
  <2>1. Good(idle)
    BY SetFree, FieldNames
  <2> QED BY <2>1, FieldNames DEF Calm, Eased, Good, GlobalState, Named
<1>2. Good(freed) /\ Calm(g, freed) /\ Eased(g, freed)
  <2> HIDE DEF idle
  <2>1. Good(freed) /\ Calm(idle, freed) /\ Eased(idle, freed)
    BY <1>1, ReleaseSessionGood, ReleaseSessionCalm
  <2> QED BY <1>1, <2>1 DEF Calm, Eased
<1>3. Good(r) /\ Kept(g, r)
  <2> HIDE DEF freed
  <2>1. Good(r) /\ Kept(freed, r)
    BY <1>2, RestoreGood, RestoreKept
  <2> HIDE DEF r
  <2> QED BY <1>2, <2>1, LoanBefore DEF Kept, Calm
<1>4. Kept(g, shown)
  <2> HIDE DEF r
  <2>1. Quiet(r, shown) /\ shown.blocking
    BY <1>3, FieldNames DEF Quiet, SameLease, SameStack, SamePort, Good, GlobalState, Named
  <2> HIDE DEF shown
  <2> QED BY <1>3, <2>1, LoanAfter DEF Kept
<1>5. releaseSdrAppResources(g, mem, waited) \in {r, shown}
  BY DEF releaseSdrAppResources
<1> HIDE DEF idle, freed, r, shown
<1> QED BY <1>3, <1>4, <1>5

LEMMA KeptQuiet ==
  ASSUME NEW g, NEW h, NEW k, Kept(g, h), Quiet(h, k), Calm(h, k)
  PROVE  Kept(g, k)
  BY LoanAfter DEF Kept, Calm

LEMMA LeaveByNavKept ==
  ASSUME NEW g, Good(g), NEW nav \in {"menu", "lock"}, NEW mem, NEW waited
  PROVE  Kept(g, leaveByNav(g, nav, mem, waited))
<1> DEFINE r == releaseSdrAppResources(g, mem, waited)
           e == releaseElm(g)
           x == exitExclusive(e)
<1>1. Good(r) /\ Kept(g, r) /\ Good(e) /\ Calm(g, e)
  BY ReleaseAppGood, ReleaseAppKept, ReleaseElmGood, ReleaseElmCalm
<1>2. Good(x) /\ Calm(g, x)
  <2> HIDE DEF e
  <2> QED BY <1>1, ExitExclusiveGood, ExitExclusiveCalm, CalmTransitive
<1>3. Kept(g, [r EXCEPT !.nav = nav]) /\ Kept(g, navigate(r, nav))
  <2> HIDE DEF r
  <2>1. Quiet(r, [r EXCEPT !.nav = nav]) /\ Calm(r, [r EXCEPT !.nav = nav])
    BY <1>1, FieldNames DEF Quiet, Calm, SameLease, SameStack, SamePort, Good, GlobalState, Named
  <2> QED BY <1>1, <2>1, NavigateCalm, KeptQuiet
<1>4. Calm(g, navigate(g, nav)) /\ Calm(g, navigate(e, nav)) /\ Calm(g, navigate(x, nav))
  <2> HIDE DEF e, x
  <2> QED BY <1>1, <1>2, NavigateCalm, CalmTransitive
<1>5. leaveByNav(g, nav, mem, waited) \in
        {[r EXCEPT !.nav = nav], navigate(r, nav), x, navigate(x, nav), navigate(e, nav),
         navigate(g, nav)}
  BY DEF leaveByNav
<1> HIDE DEF r, e, x
<1> QED BY <1>2, <1>3, <1>4, <1>5, CalmKept

LEMMA LeaveToMenuKept ==
  ASSUME NEW g, Good(g), NEW mem, NEW waited
  PROVE  Kept(g, leaveCurrentAppToMenu(g, mem, waited))
<1>1. ASSUME NEW h, Good(h)
      PROVE  Calm(h, [h EXCEPT !.app = "menu"]) /\ Quiet(h, [h EXCEPT !.app = "menu"])
  BY <1>1, FieldNames DEF Calm, Quiet, SameLease, SameStack, SamePort, Good, GlobalState, Named
<1>2. Kept(g, exitExclusive(g))
  BY ExitExclusiveCalm, CalmKept
<1>3. Kept(g, [releaseElm(g) EXCEPT !.app = "menu"])
  BY <1>1, ReleaseElmGood, ReleaseElmCalm, CalmTransitive, CalmKept
<1>4. Kept(g, [releaseSdrAppResources(g, mem, waited) EXCEPT !.app = "menu"])
  BY <1>1, ReleaseAppGood, ReleaseAppKept, KeptQuiet
<1> QED BY <1>2, <1>3, <1>4 DEF leaveCurrentAppToMenu

LEMMA OpenKept ==
  ASSUME NEW g, Good(g), NEW a \in UsbApps, NEW hw \in Outcomes
  PROVE  Kept(g, openApp(g, a, hw))
<1> DEFINE opened == [g EXCEPT !.app = a]
           owing == [g EXCEPT !.owed = g.wifi /\ wl = "up"]
<1>1. Calm(g, requestWifiBoot(g, "profile"))
  BY RestartCalm DEF requestWifiBoot
<1>2. Calm(g, Restart(owing, a, "exclusive"))
  BY FieldNames DEF Restart, Calm, Good, GlobalState, Named
<1>3. Good(opened) /\ Calm(g, opened) /\ SameLease(g, opened)
  <2>1. Good(opened)
    BY SetApp DEF Screens
  <2> QED BY <2>1, FieldNames DEF Calm, SameLease, SameStack, SamePort, Good, GlobalState, Named
<1>4. Renewed(g, ensureRtlSdrHost(opened, hw))
  <2> HIDE DEF opened
  <2>1. Renewed(g, opened) /\ Renewed(opened, ensureRtlSdrHost(opened, hw))
    BY <1>3, EnsureRenewed DEF Renewed, Calm, Claims
  <2> QED BY <2>1, RenewedTransitive
<1>5. openApp(g, a, hw) \in {requestWifiBoot(g, "profile"), Restart(owing, a, "exclusive"),
                             opened, ensureRtlSdrHost(opened, hw)}
  BY DEF openApp
<1> HIDE DEF opened, owing
<1> QED BY <1>1, <1>2, <1>3, <1>4, <1>5, CalmKept

LEMMA PressKept ==
  ASSUME NEW g, Good(g), NEW mem, NEW waited, NEW hw \in Outcomes,
         NEW h \in pressButton(g, mem, waited, hw)
  PROVE  Kept(g, h)
<1>1. CASE g.app = "wifi"
  <2>1. \/ h \in {setWifiEnabledFalse(g), [g EXCEPT !.pend = TRUE]}
        \/ \E radio \in RadioOutcomes : h = setWifiEnabledTrue(g, mem, radio)
    BY <1>1 DEF pressButton, SdrApps
  <2> QED BY <2>1, SwitchCalm, EnableCalm, CalmKept
<1>2. CASE g.app = "usb"
  <2>1. h = requestUsbRecovery(g)
    BY <1>2 DEF pressButton, SdrApps
  <2> QED BY <2>1, RecoveryCalm, CalmKept
<1>3. CASE g.app \in SdrApps
  <2> DEFINE asking == [g EXCEPT !.want = g.app = "air"]
             idle == [g EXCEPT !.want = FALSE, !.auto = FALSE]
             session == ensureRtlSdrHost(asking, hw)
             started == startRfSdrStream(session, hw)
             halted == stopRtlSdrHost(idle)
             stopped == restoreWifiAfterSdr(halted, mem, waited)
  <2>1. Good(asking) /\ Good(idle)
    BY SetFree, FieldNames
  <2>2. Renewed(g, asking) /\ Calm(g, idle) /\ Eased(g, idle)
    BY FieldNames DEF Renewed, Calm, Eased, Claims, SameLease, SameStack, SamePort, Good,
                      GlobalState, Named
  <2>3. ASSUME NEW r \in started
        PROVE  Renewed(g, r)
    <3>1. Good(session) /\ Renewed(g, session)
      <4> HIDE DEF asking
      <4> QED BY <2>1, <2>2, EnsureGood, EnsureRenewed, RenewedTransitive
    <3>2. Renewed(session, r)
      <4> HIDE DEF session
      <4> QED BY <2>3, <3>1, StreamRenewed
    <3> QED BY <3>1, <3>2, RenewedTransitive
  <2>4. Kept(g, stopped)
    <3>1. Good(halted) /\ Calm(g, halted) /\ Eased(g, halted)
      <4> HIDE DEF idle
      <4>1. Good(halted) /\ Calm(idle, halted) /\ Eased(idle, halted)
        BY <2>1, StopGood, StopCalm
      <4> QED BY <2>2, <4>1 DEF Calm, Eased
    <3> HIDE DEF halted
    <3>2. Kept(halted, stopped)
      BY <3>1, RestoreKept
    <3> HIDE DEF stopped
    <3> QED BY <3>1, <3>2, LoanBefore DEF Kept, Calm
  <2>5. h \in started \/ h = idle \/ h = stopped
    BY <1>3 DEF pressButton, sdrButtons, SdrApps
  <2> HIDE DEF started, idle, stopped
  <2> QED BY <2>2, <2>3, <2>4, <2>5, CalmKept
<1>4. g.app \in {"wifi", "usb"} \cup SdrApps
  BY DEF pressButton
<1> QED BY <1>1, <1>2, <1>3, <1>4

LEMMA MovesKept ==
  ASSUME NEW g, Good(g), NEW mem, NEW waited, NEW hw \in Outcomes,
         NEW h \in userMoves(g, mem, waited, hw)
  PROVE  Kept(g, h)
<1>1. CASE \E nav \in {"menu", "lock"} : h = leaveByNav(g, nav, mem, waited)
  BY <1>1, LeaveByNavKept
<1>2. CASE h = leaveCurrentAppToMenu(g, mem, waited)
  BY <1>2, LeaveToMenuKept
<1>3. CASE \E a \in UsbApps : h = openApp(g, a, hw)
  BY <1>3, OpenKept
<1>4. CASE \E a \in Openable : h = [g EXCEPT !.app = a]
  <2>1. Calm(g, h)
    BY <1>4, FieldNames DEF Calm, Good, GlobalState, Named
  <2> QED BY <2>1, CalmKept
<1>5. CASE h \in pressButton(g, mem, waited, hw)
  BY <1>5, PressKept
<1> QED BY <1>1, <1>2, <1>3, <1>4, <1>5 DEF userMoves

-----------------------------------------------------------------------------
(* The steps of the loop: the restore screen goes only in its own pass. *)

Closes ==
  \/ LoopRestoreModal /\ s'.wifi /\ wl = "up"
  \/ LoopRestoreTimeout /\ s'.why # "none"

LEMMA LoopStepKept ==
  ASSUME IInv, LoopStep
  PROVE  Loan(s, s') /\ (s.blocking /\ ~s'.blocking => Closes)
<1>1. Good(s) /\ Calm(s, s)
  BY InvIsGood DEF Calm
<1>2. \A g, pc : LoopTo(g, pc) => s' = g
  BY DEF LoopTo
<1> SUFFICES Kept(s, s') \/ (Loan(s, s') /\ (s'.blocking \/ Closes))
  BY DEF Kept
<1>3. CASE LoopEnableDue
  <2> DEFINE taken == [s EXCEPT !.pend = FALSE]
  <2>1. Good(taken)
    BY <1>1, SetFree, FieldNames
  <2>2. Calm(s, taken)
    BY <1>1, FieldNames DEF Calm, Good, GlobalState, Named
  <2>3. \A hw \in RadioOutcomes : Calm(s, setWifiEnabledTrue(taken, memOk, hw))
    <3> HIDE DEF taken
    <3> QED BY <2>1, <2>2, EnableCalm, CalmTransitive
  <2>4. s' = taken \/ s' = s \/ \E hw \in RadioOutcomes : s' = setWifiEnabledTrue(taken, memOk, hw)
    BY <1>2, <1>3 DEF LoopEnableDue
  <2> HIDE DEF taken
  <2> QED BY <1>1, <2>2, <2>3, <2>4, CalmKept
<1>4. CASE LoopTop
  BY <1>1, <1>2, <1>4, CalmKept DEF LoopTop
<1>5. CASE LoopTaskManager
  <2> DEFINE hidden == stopHiddenAppWork(s)
  <2>1. Good(hidden) /\ Calm(s, hidden)
    BY <1>1, HiddenGood, HiddenCalm
  <2>2. Calm(s, updateWifiTransition(hidden))
    <3> HIDE DEF hidden
    <3> QED BY <2>1, TransitionCalm, CalmTransitive
  <2>3. s' = hidden \/ s' = updateWifiTransition(hidden)
    BY <1>2, <1>5 DEF LoopTaskManager
  <2> HIDE DEF hidden
  <2> QED BY <2>1, <2>2, <2>3, CalmKept
<1>6. CASE LoopExclusiveExit \/ LoopExclusiveTimeout
  <2> DEFINE left == [s EXCEPT !.ex = FALSE]
  <2>1. \A r : Calm(s, requestWifiBoot(left, r))
    BY <1>1, FieldNames DEF requestWifiBoot, Restart, Calm, Good, GlobalState, Named
  <2>2. s' = s \/ \E r : s' = requestWifiBoot(left, r)
    BY <1>2, <1>6 DEF LoopExclusiveExit, LoopExclusiveTimeout
  <2> HIDE DEF left
  <2> QED BY <1>1, <2>1, <2>2, CalmKept
<1>7. ASSUME NEW waited
      PROVE  LET g == updateWifiTransition(restoreWifiAfterSdr(s, memOk, waited))
             IN  Good(g) /\ Kept(s, g)
  <2> DEFINE restored == restoreWifiAfterSdr(s, memOk, waited)
  <2>1. Good(restored) /\ Kept(s, restored)
    BY <1>1, RestoreGood, RestoreKept
  <2> HIDE DEF restored
  <2>2. Good(updateWifiTransition(restored)) /\ Kept(s, updateWifiTransition(restored))
    BY <2>1, TransitionGood, TransitionCalm, KeptQuiet
  <2> QED BY <2>2 DEF restored
<1>8. CASE LoopRestoreModal
  <2>1. PICK waited \in BOOLEAN :
          LET g == updateWifiTransition(restoreWifiAfterSdr(s, memOk, waited))
          IN  LoopTo(IF wifiBack(g) /\ g.why = "none" THEN dismissModal(g) ELSE g, "top")
    BY <1>8 DEF LoopRestoreModal
  <2> DEFINE g == updateWifiTransition(restoreWifiAfterSdr(s, memOk, waited))
             closed == [g EXCEPT !.blocking = FALSE, !.nav = "none"]
             gone == dismissModal(g)
  <2>2. Good(g) /\ Kept(s, g)
    BY <1>7
  <2>3. s' = g \/ (s' = gone /\ g.wifi /\ wl = "up")
    BY <1>2, <2>1 DEF wifiBack
  <2> HIDE DEF g
  <2>4. Good(closed) /\ Quiet(g, closed) /\ closed.wifi = g.wifi
    <3>1. Good(closed)
      BY <2>2, SetFree, SetNav, FieldNames DEF Navs
    <3> QED BY <2>2, <3>1, FieldNames
            DEF Quiet, SameLease, SameStack, SamePort, Good, GlobalState, Named
  <2>5. Loan(s, closed)
    BY <2>2, <2>4, LoanAfter DEF Kept
  <2>6. \A nav : Loan(s, navigate(closed, nav)) /\ navigate(closed, nav).wifi = closed.wifi
    <3> HIDE DEF closed
    <3>1. \A nav : navigate(closed, nav).wifi = closed.wifi
      BY <2>4, FieldNames DEF navigate, Good, GlobalState, Named
    <3> QED BY <2>4, <2>5, <3>1, NavigateCalm, LoanAfter
  <2>7. gone = closed \/ gone = navigate(closed, g.nav)
    BY DEF dismissModal
  <2> HIDE DEF closed, gone
  <2> QED BY <1>8, <2>2, <2>3, <2>4, <2>5, <2>6, <2>7 DEF Closes
<1>9. CASE LoopRestoreTimeout
  <2> DEFINE g == updateWifiTransition(restoreWifiAfterSdr(s, memOk, FALSE))
             closed == [g EXCEPT !.blocking = FALSE, !.nav = "none"]
             left == Restart(closed, "wifi", "timeout")
  <2>1. Good(g) /\ Kept(s, g)
    BY <1>7
  <2>2. s' = left
    BY <1>2, <1>9 DEF LoopRestoreTimeout, requestWifiBoot
  <2> HIDE DEF g
  <2>3. Good(closed) /\ Quiet(g, closed)
    <3>1. Good(closed)
      BY <2>1, SetFree, SetNav, FieldNames DEF Navs
    <3> QED BY <2>1, <3>1, FieldNames
            DEF Quiet, SameLease, SameStack, SamePort, Good, GlobalState, Named
  <2>4. Loan(s, closed)
    BY <2>1, <2>3, LoanAfter DEF Kept
  <2> HIDE DEF closed
  <2>5. Loan(s, left) /\ left.why = "timeout"
    BY <2>3, <2>4, RestartCalm, LoanAfter, FieldNames DEF Restart, Good, GlobalState, Named
  <2> HIDE DEF left
  <2> QED BY <1>9, <2>2, <2>5 DEF Closes
<1>10. CASE LoopSerial \/ LoopTouch
  <2> DEFINE Lit(d) == [s EXCEPT !.dim = d]
  <2>1. Good(Lit(FALSE)) /\ Eased(s, Lit(FALSE)) /\ \A d \in BOOLEAN : Calm(s, Lit(d))
    <3>1. Good(Lit(FALSE))
      BY <1>1, SetFree, FieldNames
    <3> QED BY <1>1, <3>1, FieldNames DEF Calm, Eased, Good, GlobalState, Named
  <2>2. UserMove(s) => Kept(s, s')
    <3> SUFFICES ASSUME UserMove(s) PROVE Kept(s, s')
      OBVIOUS
    <3>1. PICK waited \in BOOLEAN, hw \in Outcomes : s' \in userMoves(Lit(FALSE), memOk, waited, hw)
      BY <1>2 DEF UserMove
    <3> HIDE DEF Lit
    <3>2. Kept(Lit(FALSE), s')
      BY <2>1, <3>1, MovesKept
    <3> QED BY <2>1, <3>2, LoanBefore DEF Kept, Calm
  <2>3. s' = s \/ (\E d \in BOOLEAN : s' = Lit(d)) \/ UserMove(s)
    BY <1>2, <1>10 DEF LoopSerial, LoopTouch
  <2> HIDE DEF Lit
  <2> QED BY <1>1, <2>1, <2>2, <2>3, CalmKept
<1>11. CASE LoopRecovery
  <2>1. \A hw \in Outcomes : Renewed(s, [ensureRtlSdrHost(s, hw) EXCEPT !.phase = "ENUMERATE"])
    BY <1>1, EnsureGood, EnsureRenewed, SetRenewed, UnseenNames, FieldNames DEF Named
  <2> DEFINE powered == [s EXCEPT !.phase = "POWER_OFF"]
             g == [s EXCEPT !.phase = "IDLE", !.owner = IF @ = "UTILITY" THEN "NONE" ELSE @]
             late == [g EXCEPT !.auto = TRUE, !.want = s.app = "air"]
  <2>2. Calm(s, powered) /\ Calm(s, g) /\ DOMAIN g = Fields
    BY <1>1, FieldNames DEF Calm, Good, GlobalState, Named
  <2>3. Calm(s, late)
    <3>1. Calm(g, late)
      <4> HIDE DEF g
      <4> QED BY <2>2, FieldNames DEF Calm, Named
    <3> HIDE DEF g, late
    <3> QED BY <2>2, <3>1, CalmTransitive
  <2>4. \/ s' \in {s, powered, g, late}
        \/ \E hw \in Outcomes : s' = [ensureRtlSdrHost(s, hw) EXCEPT !.phase = "ENUMERATE"]
    BY <1>2, <1>11 DEF LoopRecovery
  <2> HIDE DEF powered, g, late
  <2> QED BY <1>1, <2>1, <2>2, <2>3, <2>4, CalmKept
<1>12. CASE LoopSdrApps
  <2>1. \A hw \in Outcomes : /\ Renewed(s, ensureRtlSdrHost(s, hw))
                             /\ Renewed(s, [ensureRtlSdrHost(s, hw) EXCEPT !.want = FALSE])
    BY <1>1, EnsureGood, EnsureRenewed, SetRenewed, UnseenNames, FieldNames
  <2>2. s' = s \/ \E hw \in Outcomes : s' \in {ensureRtlSdrHost(s, hw),
                                               [ensureRtlSdrHost(s, hw) EXCEPT !.want = FALSE]}
    BY <1>2, <1>12 DEF LoopSdrApps
  <2> QED BY <1>1, <2>1, <2>2, CalmKept
<1>13. CASE LoopRestore
  <2> DEFINE g == updateWifiTransition(s)
  <2>1. Good(g) /\ Calm(s, g) /\ Eased(s, g)
    BY <1>1, TransitionGood, TransitionCalm
  <2>2. \A waited : Kept(s, restoreWifiAfterSdr(g, memOk, waited))
    <3> HIDE DEF g
    <3> QED BY <2>1, RestoreKept, LoanBefore DEF Kept, Calm
  <2>3. s' = g \/ \E waited : s' = restoreWifiAfterSdr(g, memOk, waited)
    BY <1>2, <1>13 DEF LoopRestore
  <2> HIDE DEF g
  <2> QED BY <2>1, <2>2, <2>3, CalmKept
<1>14. CASE LoopWifiService
  <2> DEFINE off == [s EXCEPT !.wifi = FALSE, !.stack = FALSE, !.pend = FALSE, !.crash = TRUE]
  <2>1. Calm(s, off)
    BY <1>1, FieldNames DEF Calm, Good, GlobalState, Named
  <2>2. s' \in {s, off}
    BY <1>14 DEF LoopWifiService
  <2> HIDE DEF off
  <2> QED BY <1>1, <2>1, <2>2, CalmKept
<1> QED BY <1>3, <1>4, <1>5, <1>6, <1>8, <1>9, <1>10, <1>11, <1>12, <1>13, <1>14 DEF LoopStep

\* The two tasks, the radio and time touch neither.
LEMMA OthersCalm ==
  ASSUME IInv, ClientStep \/ HostStep \/ EnvStep
  PROVE  s'.disabled = s.disabled /\ s'.blocking = s.blocking
<1>1. DOMAIN s = Fields
  BY DEF IInv, TypeOK, GlobalState
<1>2. CASE ClientStep
  BY <1>1, <1>2, FieldNames
     DEF ClientStep, ClientRegister, ClientHead, ClientBusyDone, ClientAuto, ClientClaim,
         ClientRequest, ClientClose, Client, requestUsbRecovery, Named
<1>3. CASE HostStep
  BY <1>1, <1>3, FieldNames
     DEF HostStep, HostStop, HostWait, HostUninstall, HostReport, HostExit, Host, Named
<1>4. CASE EnvStep
  BY <1>1, <1>4, FieldNames
     DEF EnvStep, Associate, LinkLost, HeapChanges, HoldExpires, CooldownExpires, Named
<1> QED BY <1>2, <1>3, <1>4

\* wifiDisabledForSdr is dropped only when the radio is scheduled back with the host gone
\* (or blocked after an aborted start), or when ensureRtlSdrHost installs a host anew:
\* whatever the user opens, and however exits, recoveries and failures interleave.
THEOREM LoanRemembered == Spec => LoanIsKept
<1>1. IInv /\ [Next]_vars =>
        [s.disabled /\ ~s'.disabled =>
           \/ (s'.pend \/ s.crash) /\ ~HostHeld(s')
           \/ s.client = "none" /\ s'.owner # "NONE"
           \/ ~Up]_vars
  <2> SUFFICES ASSUME IInv, Next, Up PROVE Loan(s, s')
    BY DEF Loan, Returned, StartedOver
  <2>1. CASE LoopStep
    BY <2>1, LoopStepKept
  <2>2. CASE ClientStep \/ HostStep \/ EnvStep
    BY <2>2, OthersCalm DEF Loan
  <2> QED BY <2>1, <2>2 DEF Next, restartWithBlackScreen
<1> QED BY <1>1, InitInv, NextInv, PTL DEF Spec, LoanIsKept

\* The restore screen of releaseSdrAppResources is left only over a live connection, or for
\* a restart: no other path of loop() clears sdrWifiRestoreBlocking.
THEOREM ModalHolds == Spec => ModalUntilConnected
<1>1. IInv /\ [Next]_vars =>
        [s.blocking /\ ~s'.blocking => (s'.wifi /\ wl = "up") \/ s'.why # "none" \/ ~Up]_vars
  <2> SUFFICES ASSUME IInv, Next, Up, s.blocking, ~s'.blocking
               PROVE  (s'.wifi /\ wl = "up") \/ s'.why # "none"
    OBVIOUS
  <2>1. CASE LoopStep
    BY <2>1, LoopStepKept DEF Closes
  <2>2. CASE ClientStep \/ HostStep \/ EnvStep
    BY <2>2, OthersCalm
  <2> QED BY <2>1, <2>2 DEF Next, restartWithBlackScreen
<1> QED BY <1>1, InitInv, NextInv, PTL DEF Spec, ModalUntilConnected

-----------------------------------------------------------------------------
(***************************************************************************)
(* Nothing installs the USB host again under the restore screen, for every  *)
(* choice of the constants of UsbWifiHandoff.                               *)
(*                                                                          *)
(* The screen is raised by releaseSdrAppResources, which leaves no app, no  *)
(* request and no owner behind (Cleared).  In the rest of that pass only a  *)
(* recovery's lease could bring the host back; the client task may still    *)
(* take one, but then its host is there, or is just being uninstalled       *)
(* (Waiting).                                                               *)
(***************************************************************************)

Cleared(g) == g.app = "menu" /\ ~g.auto /\ g.owner = "NONE"
Waiting(g) == g.owner = "UTILITY" => g.inst \/ g.host = "cleared"

Parked ==
  /\ lpc = "serial" => ~s.blocking
  /\ lpc \in {"tm", "rec", "sdr"} /\ s.blocking => s.app = "menu"
  /\ lpc \in {"tm", "rec"} /\ s.blocking => ~s.auto /\ Waiting(s)

ReclaimInv == IInv /\ Parked

Raised(g, h) == h.blocking => g.blocking \/ Cleared(h)

LEMMA CalmRaised ==
  ASSUME NEW g, NEW h, Calm(g, h) \/ Renewed(g, h)
  PROVE  Raised(g, h)
  BY DEF Calm, Renewed, Raised

-----------------------------------------------------------------------------
(* Who raises the restore screen leaves nothing behind. *)

LEMMA RestoreSame ==
  ASSUME NEW g, Good(g), NEW mem, NEW waited
  PROVE  LET h == restoreWifiAfterSdr(g, mem, waited)
         IN  h.blocking = g.blocking /\ h.owner = g.owner /\ h.auto = g.auto
  BY FieldNames DEF restoreWifiAfterSdr, requestWifiBoot, Restart, Good, GlobalState, Named

LEMMA ReleaseSessionClears ==
  ASSUME NEW g, Good(g), ~g.auto
  PROVE  LET h == releaseUsbSession(g)
         IN  h.owner = "NONE" /\ ~h.auto /\ h.blocking = g.blocking
<1> DEFINE stopped == stopRtlSdrHost(g)
<1>1. Good(stopped) /\ ~stopped.auto /\ stopped.blocking = g.blocking
  BY StopGood, FieldNames DEF stopRtlSdrHost, Good, GlobalState, Named
<1> HIDE DEF stopped
<1> QED BY <1>1, FieldNames DEF releaseUsbSession, stopped, Good, GlobalState, Named

LEMMA ReleaseAppRaises ==
  ASSUME NEW g, Good(g), NEW mem, NEW waited
  PROVE  Raised(g, releaseSdrAppResources(g, mem, waited))
<1> DEFINE idle == [g EXCEPT !.want = FALSE, !.auto = FALSE]
           freed == releaseUsbSession(idle)
           r == restoreWifiAfterSdr(freed, mem, waited)
           shown == [r EXCEPT !.blocking = TRUE, !.app = "menu"]
<1>1. Good(idle) /\ ~idle.auto /\ idle.blocking = g.blocking
  <2>1. Good(idle)
    BY SetFree, FieldNames
  <2> QED BY <2>1, FieldNames DEF Good, GlobalState
<1>2. Good(freed) /\ freed.owner = "NONE" /\ ~freed.auto /\ freed.blocking = g.blocking
  <2> HIDE DEF idle
  <2> QED BY <1>1, ReleaseSessionGood, ReleaseSessionClears
<1>3. Good(r) /\ r.owner = "NONE" /\ ~r.auto /\ r.blocking = g.blocking
  <2> HIDE DEF freed
  <2> QED BY <1>2, RestoreGood, RestoreSame
<1>4. Cleared(shown)
  <2> HIDE DEF r
  <2> QED BY <1>3, FieldNames DEF Cleared, Good, GlobalState, Named
<1>5. releaseSdrAppResources(g, mem, waited) \in {r, shown}
  BY DEF releaseSdrAppResources
<1> HIDE DEF r, shown
<1> QED BY <1>3, <1>4, <1>5 DEF Raised

LEMMA LeaveByNavRaises ==
  ASSUME NEW g, Good(g), NEW nav \in {"menu", "lock"}, NEW mem, NEW waited
  PROVE  Raised(g, leaveByNav(g, nav, mem, waited))
<1> DEFINE r == releaseSdrAppResources(g, mem, waited)
           e == releaseElm(g)
           x == exitExclusive(e)
<1>1. Good(r) /\ Raised(g, r) /\ Good(e) /\ Calm(g, e)
  BY ReleaseAppGood, ReleaseAppRaises, ReleaseElmGood, ReleaseElmCalm
<1>2. Good(x) /\ Calm(g, x)
  <2> HIDE DEF e
  <2> QED BY <1>1, ExitExclusiveGood, ExitExclusiveCalm, CalmTransitive
<1>3. Raised(g, [r EXCEPT !.nav = nav]) /\ (~r.blocking => Raised(g, navigate(r, nav)))
  <2> HIDE DEF r
  <2>1. LET k == [r EXCEPT !.nav = nav]
        IN  k.blocking = r.blocking /\ (Cleared(r) => Cleared(k))
    BY <1>1, FieldNames DEF Cleared, Good, GlobalState, Named
  <2> QED BY <1>1, <2>1, NavigateCalm DEF Raised, Calm
<1>4. Calm(g, navigate(g, nav)) /\ Calm(g, navigate(e, nav)) /\ Calm(g, navigate(x, nav))
  <2> HIDE DEF e, x
  <2> QED BY <1>1, <1>2, NavigateCalm, CalmTransitive
<1>5. \/ leaveByNav(g, nav, mem, waited) \in
           {[r EXCEPT !.nav = nav], x, navigate(x, nav), navigate(e, nav), navigate(g, nav)}
      \/ ~r.blocking /\ leaveByNav(g, nav, mem, waited) = navigate(r, nav)
  BY DEF leaveByNav
<1> HIDE DEF r, e, x
<1> QED BY <1>2, <1>3, <1>4, <1>5, CalmRaised

LEMMA LeaveToMenuRaises ==
  ASSUME NEW g, Good(g), NEW mem, NEW waited
  PROVE  Raised(g, leaveCurrentAppToMenu(g, mem, waited))
<1>1. ASSUME NEW h, Good(h)
      PROVE  LET k == [h EXCEPT !.app = "menu"]
             IN  Calm(h, k) /\ (Cleared(h) => Cleared(k))
  BY <1>1, FieldNames DEF Calm, Cleared, Good, GlobalState, Named
<1>2. Raised(g, exitExclusive(g))
  BY ExitExclusiveCalm, CalmRaised
<1>3. Raised(g, [releaseElm(g) EXCEPT !.app = "menu"])
  BY <1>1, ReleaseElmGood, ReleaseElmCalm, CalmTransitive, CalmRaised
<1>4. Raised(g, [releaseSdrAppResources(g, mem, waited) EXCEPT !.app = "menu"])
  BY <1>1, ReleaseAppGood, ReleaseAppRaises DEF Raised, Calm
<1> QED BY <1>2, <1>3, <1>4 DEF leaveCurrentAppToMenu

LEMMA OpenRaises ==
  ASSUME NEW g, Good(g), NEW a \in UsbApps, NEW hw \in Outcomes
  PROVE  Raised(g, openApp(g, a, hw))
<1> DEFINE opened == [g EXCEPT !.app = a]
           owing == [g EXCEPT !.owed = g.wifi /\ wl = "up"]
<1>1. Calm(g, requestWifiBoot(g, "profile"))
  BY RestartCalm DEF requestWifiBoot
<1>2. Calm(g, Restart(owing, a, "exclusive"))
  BY FieldNames DEF Restart, Calm, Good, GlobalState, Named
<1>3. Good(opened) /\ Calm(g, opened)
  <2>1. Good(opened)
    BY SetApp DEF Screens
  <2> QED BY <2>1, FieldNames DEF Calm, Good, GlobalState, Named
<1>4. ensureRtlSdrHost(opened, hw).blocking = g.blocking
  <2> HIDE DEF opened
  <2> QED BY <1>3, EnsureRenewed DEF Renewed, Calm
<1>5. openApp(g, a, hw) \in {requestWifiBoot(g, "profile"), Restart(owing, a, "exclusive"),
                             opened, ensureRtlSdrHost(opened, hw)}
  BY DEF openApp
<1> HIDE DEF opened, owing
<1> QED BY <1>1, <1>2, <1>3, <1>4, <1>5 DEF Raised, Calm

LEMMA PressRaises ==
  ASSUME NEW g, Good(g), NEW mem, NEW waited, NEW hw \in Outcomes,
         NEW h \in pressButton(g, mem, waited, hw)
  PROVE  Raised(g, h)
<1>1. CASE g.app = "wifi"
  <2>1. \/ h \in {setWifiEnabledFalse(g), [g EXCEPT !.pend = TRUE]}
        \/ \E radio \in RadioOutcomes : h = setWifiEnabledTrue(g, mem, radio)
    BY <1>1 DEF pressButton, SdrApps
  <2> QED BY <2>1, SwitchCalm, EnableCalm, CalmRaised
<1>2. CASE g.app = "usb"
  <2>1. h = requestUsbRecovery(g)
    BY <1>2 DEF pressButton, SdrApps
  <2> QED BY <2>1, RecoveryCalm, CalmRaised
<1>3. CASE g.app \in SdrApps
  <2> DEFINE asking == [g EXCEPT !.want = g.app = "air"]
             idle == [g EXCEPT !.want = FALSE, !.auto = FALSE]
             session == ensureRtlSdrHost(asking, hw)
             started == startRfSdrStream(session, hw)
             halted == stopRtlSdrHost(idle)
             stopped == restoreWifiAfterSdr(halted, mem, waited)
  <2>1. Good(asking) /\ Good(idle)
    BY SetFree, FieldNames
  <2>2. asking.blocking = g.blocking /\ idle.blocking = g.blocking
    BY FieldNames DEF Good, GlobalState
  <2>3. Good(session) /\ session.blocking = g.blocking
    <3> HIDE DEF asking
    <3> QED BY <2>1, <2>2, EnsureGood, EnsureRenewed DEF Renewed
  <2>4. ASSUME NEW r \in started
        PROVE  r.blocking = g.blocking
    <3> HIDE DEF session
    <3> QED BY <2>3, <2>4, StreamRenewed DEF Renewed
  <2>5. stopped.blocking = g.blocking
    <3>1. Good(halted) /\ halted.blocking = g.blocking
      <4> HIDE DEF idle
      <4> QED BY <2>1, <2>2, StopGood, StopCalm DEF Calm
    <3> HIDE DEF halted
    <3> QED BY <3>1, RestoreSame
  <2>6. h \in started \/ h = idle \/ h = stopped
    BY <1>3 DEF pressButton, sdrButtons, SdrApps
  <2> HIDE DEF started, idle, stopped
  <2> QED BY <2>2, <2>4, <2>5, <2>6 DEF Raised
<1>4. g.app \in {"wifi", "usb"} \cup SdrApps
  BY DEF pressButton
<1> QED BY <1>1, <1>2, <1>3, <1>4

LEMMA MovesRaise ==
  ASSUME NEW g, Good(g), NEW mem, NEW waited, NEW hw \in Outcomes,
         NEW h \in userMoves(g, mem, waited, hw)
  PROVE  Raised(g, h)
<1>1. CASE \E nav \in {"menu", "lock"} : h = leaveByNav(g, nav, mem, waited)
  BY <1>1, LeaveByNavRaises
<1>2. CASE h = leaveCurrentAppToMenu(g, mem, waited)
  BY <1>2, LeaveToMenuRaises
<1>3. CASE \E a \in UsbApps : h = openApp(g, a, hw)
  BY <1>3, OpenRaises
<1>4. CASE \E a \in Openable : h = [g EXCEPT !.app = a]
  <2>1. Calm(g, h)
    BY <1>4, FieldNames DEF Calm, Good, GlobalState, Named
  <2> QED BY <2>1, CalmRaised
<1>5. CASE h \in pressButton(g, mem, waited, hw)
  BY <1>5, PressRaises
<1> QED BY <1>1, <1>2, <1>3, <1>4, <1>5 DEF userMoves

-----------------------------------------------------------------------------
(* The rest of the pass that raised it. *)

\* No app is open: only the lease of a recovery could bring the host in, and it is either
\* already there or about to be reported gone.
LEMMA EnsureIdle ==
  ASSUME NEW g, Good(g), g.app = "menu", Waiting(g), NEW hw
  PROVE  /\ ~g.inst => ensureRtlSdrHost(g, hw) = g
         /\ ensureRtlSdrHost(g, hw) = g \/ g.inst
<1>1. requestedUsbOwner(g) = "NONE"
  BY DEF requestedUsbOwner, isWaypointAppVisible
<1>2. g.host = "cleared" => g.stop
  BY DEF Good, HandoffInv
<1> QED BY <1>1, <1>2 DEF ensureRtlSdrHost, Waiting, Tasks

LEMMA EnsureApp ==
  ASSUME NEW g, Good(g), NEW hw \in Outcomes
  PROVE  ensureRtlSdrHost(g, hw).app = g.app
<1> DEFINE asked == requestedUsbOwner(g)
           owner == IF asked = "NONE" /\ g.owner = "UTILITY" THEN "UTILITY" ELSE asked
           owned == [g EXCEPT !.owner = owner]
           silent == suspendWifiForSdr(owned)
           hosted == usbHostInstall(silent, hw)
<1>1. Good(owned) /\ owned.app = g.app
  <2>1. Good(owned)
    BY OwnerType, SetOwner DEF Owners
  <2> HIDE DEF owner
  <2> QED BY <2>1, FieldNames DEF Good, GlobalState, Named
<1>2. Good(silent) /\ silent.app = g.app
  <2> HIDE DEF owned
  <2> QED BY <1>1, SuspendGood, FieldNames DEF suspendWifiForSdr, Good, GlobalState, Named
<1>3. hosted.app = g.app
  <2> HIDE DEF silent
  <2> QED BY <1>2, FieldNames DEF usbHostInstall, Good, GlobalState, Named
<1>4. ensureRtlSdrHost(g, hw) \in {g, owned, hosted}
  <2>1. CASE (g.stop /\ Tasks(g)) \/ owner = "NONE" \/ g.owner \notin {"NONE", owner}
    BY <2>1 DEF ensureRtlSdrHost
  <2>2. CASE ~(g.stop /\ Tasks(g)) /\ owner # "NONE" /\ g.owner \in {"NONE", owner}
    BY <2>2 DEF ensureRtlSdrHost
  <2> QED BY <2>1, <2>2
<1> HIDE DEF owned, hosted
<1> QED BY <1>1, <1>3, <1>4

LEMMA HiddenSame ==
  ASSUME NEW g, Good(g)
  PROVE  LET h == stopHiddenAppWork(g)
         IN  h.app = g.app /\ (~g.auto => ~h.auto)
<1> DEFINE hidden == [g EXCEPT !.want = @ /\ isWaypointAppVisible(g, "air"),
                               !.auto = @ /\ isRtlSdrAppSelected(g)]
           stopped == stopRtlSdrHost(hidden)
<1>1. Good(hidden) /\ hidden.app = g.app /\ (~g.auto => ~hidden.auto)
  <2>1. Good(hidden)
    BY SetFree, FieldNames
  <2> QED BY <2>1, FieldNames DEF Good, GlobalState, Named
<1>2. Good(stopped) /\ stopped.app = g.app /\ (~g.auto => ~stopped.auto)
  <2> HIDE DEF hidden
  <2> QED BY <1>1, StopGood, FieldNames DEF stopRtlSdrHost, Good, GlobalState, Named
<1>3. LET h == releaseUsbSession(hidden)
      IN  h.app = g.app /\ (~g.auto => ~h.auto)
  <2> HIDE DEF stopped
  <2> QED BY <1>2, FieldNames DEF releaseUsbSession, stopped, Good, GlobalState, Named
<1>4. stopHiddenAppWork(g) \in {hidden, releaseUsbSession(hidden)}
  BY DEF stopHiddenAppWork
<1> HIDE DEF hidden
<1> QED BY <1>1, <1>3, <1>4

LEMMA LoopStepParked ==
  ASSUME ReclaimInv, LoopStep
  PROVE  Parked'
<1>1. Good(s)
  BY InvIsGood DEF ReclaimInv
<1>2. \A g, pc : LoopTo(g, pc) => s' = g /\ lpc' = pc
  BY DEF LoopTo
<1>3. CASE LoopEnableDue \/ LoopTop
  <2> DEFINE taken == [s EXCEPT !.pend = FALSE]
  <2>1. Good(taken) /\ taken.blocking = s.blocking
    <3>1. Good(taken)
      BY <1>1, SetFree, FieldNames
    <3> QED BY <1>1, <3>1, FieldNames DEF Good, GlobalState
  <2>2. \A hw \in RadioOutcomes : setWifiEnabledTrue(taken, memOk, hw).blocking = s.blocking
    <3> HIDE DEF taken
    <3> QED BY <2>1, EnableCalm DEF Calm
  <2>3. \/ s' \in {s, taken} /\ lpc' = AfterTop(s)
        \/ \E hw \in RadioOutcomes : s' = setWifiEnabledTrue(taken, memOk, hw) /\ lpc' = AfterTop(s')
    <3>1. CASE LoopTop
      BY <3>1 DEF LoopTop, LoopTo
    <3>2. CASE LoopEnableDue
      <4> HIDE DEF taken
      <4>1. \/ LoopTo(taken, AfterTop(s)) \/ LoopTo(s, AfterTop(s))
            \/ \E hw \in RadioOutcomes : LET g == setWifiEnabledTrue(taken, memOk, hw)
                                        IN  LoopTo(g, AfterTop(g))
        BY <3>2 DEF LoopEnableDue, taken
      <4> QED BY <4>1 DEF LoopTo
    <3> QED BY <1>3, <3>1, <3>2
  <2> HIDE DEF taken
  <2> QED BY <2>1, <2>2, <2>3 DEF Parked, AfterTop
<1>4. CASE LoopTaskManager
  <2> DEFINE hidden == stopHiddenAppWork(s)
  <2>1. CASE lpc = "tm"
    <3>1. s' = hidden /\ lpc' = "rec"
      BY <1>2, <1>4, <2>1 DEF LoopTaskManager
    <3>2. Calm(s, hidden) /\ Drops(s, hidden) /\ hidden.app = s.app /\ (~s.auto => ~hidden.auto)
      BY <1>1, HiddenCalm, HiddenDrops, HiddenSame
    <3> HIDE DEF hidden
    <3> QED BY <2>1, <3>1, <3>2
            DEF ReclaimInv, Parked, Waiting, Calm, Drops, SameStack, SamePort
  <2>2. CASE lpc # "tm"
    BY <1>2, <1>4, <2>2 DEF LoopTaskManager, Parked
  <2> QED BY <2>1, <2>2
<1>5. CASE LoopExclusiveExit \/ LoopExclusiveTimeout \/ LoopRestoreModal \/ LoopRestoreTimeout
           \/ LoopRestore \/ LoopWifiService \/ LoopTouch \/ LoopSdrApps
  <2>1. lpc' \in {"top", "touch", "tm2", "tmDim", "touchDim", "restore"}
    BY <1>2, <1>5 DEF LoopExclusiveExit, LoopExclusiveTimeout, LoopRestoreModal,
       LoopRestoreTimeout, LoopRestore, LoopWifiService, LoopTouch, LoopSdrApps, UserMove
  <2> QED BY <2>1 DEF Parked
<1>6. CASE LoopSerial
  <2> DEFINE lit == [s EXCEPT !.dim = FALSE]
  <2>1. lpc = "serial" /\ ~s.blocking /\ lpc' = "tm"
    BY <1>2, <1>6 DEF LoopSerial, UserMove, ReclaimInv, Parked
  <2>2. Good(lit) /\ ~lit.blocking
    <3>1. Good(lit)
      BY <1>1, SetFree, FieldNames
    <3> QED BY <1>1, <2>1, <3>1, FieldNames DEF Good, GlobalState
  <2>3. UserMove(s) => Raised(lit, s')
    <3> SUFFICES ASSUME UserMove(s) PROVE Raised(lit, s')
      OBVIOUS
    <3>1. PICK waited \in BOOLEAN, hw \in Outcomes : s' \in userMoves(lit, memOk, waited, hw)
      BY <1>2 DEF UserMove
    <3> HIDE DEF lit
    <3> QED BY <2>2, <3>1, MovesRaise
  <2>4. s' = s \/ UserMove(s)
    BY <1>2, <1>6 DEF LoopSerial
  <2> HIDE DEF lit
  <2>5. s'.blocking => Cleared(s')
    BY <2>1, <2>2, <2>3, <2>4 DEF Raised
  <2> QED BY <2>1, <2>5 DEF Parked, Cleared, Waiting
<1>7. CASE LoopRecovery
  <2> DEFINE powered == [s EXCEPT !.phase = "POWER_OFF"]
             g == [s EXCEPT !.phase = "IDLE", !.owner = IF @ = "UTILITY" THEN "NONE" ELSE @]
             late == [g EXCEPT !.auto = TRUE, !.want = s.app = "air"]
             Same(h) == h.blocking = s.blocking /\ h.app = s.app
  <2>1. Same(powered) /\ Same(g) /\ DOMAIN g = Fields
    BY <1>1, FieldNames DEF Good, GlobalState, Named
  <2>2. Same(late)
    <3>1. late.blocking = g.blocking /\ late.app = g.app
      <4> HIDE DEF g
      <4> QED BY <2>1, FieldNames DEF Named
    <3> HIDE DEF g, late
    <3> QED BY <2>1, <3>1
  <2>3. \A hw \in Outcomes : Same([ensureRtlSdrHost(s, hw) EXCEPT !.phase = "ENUMERATE"])
    <3> SUFFICES ASSUME NEW hw \in Outcomes
                 PROVE  Same([ensureRtlSdrHost(s, hw) EXCEPT !.phase = "ENUMERATE"])
      OBVIOUS
    <3> DEFINE e == ensureRtlSdrHost(s, hw)
    <3>1. Good(e) /\ Same(e)
      BY <1>1, EnsureGood, EnsureRenewed, EnsureApp DEF Renewed
    <3> HIDE DEF e
    <3>2. Same([e EXCEPT !.phase = "ENUMERATE"])
      BY <3>1, FieldNames DEF Good, GlobalState, Named
    <3> QED BY <3>2 DEF e
  <2>4. lpc = "rec" /\ lpc' = "sdr"
        /\ \/ s' \in {s, powered, g, late}
           \/ \E hw \in Outcomes : s' = [ensureRtlSdrHost(s, hw) EXCEPT !.phase = "ENUMERATE"]
    BY <1>2, <1>7 DEF LoopRecovery
  <2>5. Same(s')
    <3> HIDE DEF powered, g, late
    <3> QED BY <2>1, <2>2, <2>3, <2>4
  <2> QED BY <2>4, <2>5 DEF ReclaimInv, Parked
<1> QED BY <1>3, <1>4, <1>5, <1>6, <1>7 DEF LoopStep

LEMMA OthersParked ==
  ASSUME ReclaimInv, ClientStep \/ HostStep \/ EnvStep
  PROVE  Parked'
<1>1. Good(s) /\ DOMAIN s = Fields
  BY InvIsGood DEF ReclaimInv, IInv, TypeOK, GlobalState
<1>2. s'.blocking = s.blocking /\ lpc' = lpc
  <2>1. s'.blocking = s.blocking
    BY OthersCalm DEF ReclaimInv
  <2>2. lpc' = lpc
    BY DEF ClientStep, ClientRegister, ClientHead, ClientBusyDone, ClientAuto, ClientClaim,
       ClientRequest, ClientClose, Client, HostStep, HostStop, HostWait, HostUninstall, HostReport,
       HostExit, Host, EnvStep, Associate, LinkLost, HeapChanges, HoldExpires, CooldownExpires
  <2> QED BY <2>1, <2>2
<1>3. SUFFICES /\ s'.app = s.app
               /\ s.app = "menu" /\ ~s.auto /\ Waiting(s) => ~s'.auto /\ Waiting(s')
  BY <1>2 DEF ReclaimInv, Parked
<1>4. CASE ClientStep
  <2>1. s.client # "none" /\ s.inst
    BY <1>1, <1>4 DEF Good, HandoffInv, ClientStep, ClientRegister, ClientHead, ClientBusyDone,
       ClientAuto, ClientClaim, ClientRequest, ClientClose, Client
  <2>2. s'.app = s.app /\ s'.inst = s.inst
    BY <1>1, <1>4, FieldNames
       DEF ClientStep, ClientRegister, ClientHead, ClientBusyDone, ClientAuto, ClientClaim,
           ClientRequest, ClientClose, Client, requestUsbRecovery, Named
  <2>3. s.app = "menu" /\ ~s.auto => ~s'.auto
    BY <1>1, <1>4, FieldNames
       DEF ClientStep, ClientRegister, ClientHead, ClientBusyDone, ClientAuto, ClientClaim,
           ClientRequest, ClientClose, Client, requestUsbRecovery, isRtlSdrAppSelected, SdrApps, Named
  <2> QED BY <2>1, <2>2, <2>3 DEF Waiting
<1>5. CASE HostStep
  <2>1. s'.app = s.app /\ s'.auto = s.auto
    BY <1>1, <1>5, FieldNames
       DEF HostStep, HostStop, HostWait, HostUninstall, HostReport, HostExit, Host, Named
  <2>2. CASE HostStop \/ HostWait \/ HostExit
    <3>1. s'.inst = s.inst /\ s'.owner = s.owner /\ s.host # "cleared"
      BY <1>1, <2>2, FieldNames DEF HostStop, HostWait, HostExit, Host, Named
    <3> QED BY <2>1, <3>1 DEF Waiting
  <2>3. CASE HostUninstall
    <3>1. s.host = "drain" /\ s'.owner = s.owner /\ (s'.host = "cleared" \/ s'.inst = s.inst)
      BY <1>1, <2>3, FieldNames DEF HostUninstall, Host, Named
    <3> QED BY <2>1, <3>1 DEF Waiting
  <2>4. CASE HostReport
    <3>1. s'.owner = "NONE"
      BY <1>1, <2>4, FieldNames DEF HostReport, Host, Named
    <3> QED BY <2>1, <3>1 DEF Waiting
  <2> QED BY <1>5, <2>2, <2>3, <2>4 DEF HostStep
<1>6. CASE EnvStep
  BY <1>1, <1>6, FieldNames
     DEF EnvStep, Associate, LinkLost, HeapChanges, HoldExpires, CooldownExpires, Waiting, Named
<1> QED BY <1>4, <1>5, <1>6

LEMMA ReclaimInit == Init => ReclaimInv
  BY InitInv DEF Init, ReclaimInv, Parked, boot, Blank

LEMMA ReclaimNext == ReclaimInv /\ [Next]_vars => ReclaimInv'
<1> SUFFICES ASSUME ReclaimInv, [Next]_vars PROVE Parked'
  BY NextInv DEF ReclaimInv
<1>1. CASE UNCHANGED vars
  BY <1>1 DEF vars, ReclaimInv, Parked, Waiting
<1>2. CASE restartWithBlackScreen
  BY <1>2 DEF restartWithBlackScreen, Parked
<1> QED BY <1>1, <1>2, LoopStepParked, OthersParked DEF Next

\* Under the restore screen (sdrWifiRestoreBlocking) the host is not installed again, neither
\* in the rest of the pass that raised it nor in a later one, unless by a touch after it.
THEOREM HostStaysDown == Spec => NoReclaim
<1>1. ReclaimInv /\ [Next]_vars => [s.blocking /\ ~s.inst /\ lpc # "touch" => ~s'.inst]_vars
  <2> SUFFICES ASSUME ReclaimInv, Next, s.blocking, ~s.inst, lpc # "touch"
               PROVE  ~s'.inst
    OBVIOUS
  <2>1. Good(s) /\ DOMAIN s = Fields
    BY InvIsGood DEF ReclaimInv, IInv, TypeOK, GlobalState
  <2>2. \A g, pc : LoopTo(g, pc) => s' = g
    BY DEF LoopTo
  <2>3. CASE Giving
    BY <2>3, GivingDrops DEF ReclaimInv, Drops, SameStack, SamePort
  <2>4. CASE LoopSerial
    BY <2>4 DEF LoopSerial, ReclaimInv, Parked
  <2>5. CASE LoopTouch
    BY <2>1, <2>2, <2>5, FieldNames DEF LoopTouch
  <2>6. CASE LoopRecovery
    <3>1. \A hw : ensureRtlSdrHost(s, hw) = s
      BY <2>1, <2>6, EnsureIdle DEF LoopRecovery, ReclaimInv, Parked
    <3> DEFINE powered == [s EXCEPT !.phase = "POWER_OFF"]
               scanned == [s EXCEPT !.phase = "ENUMERATE"]
               g == [s EXCEPT !.phase = "IDLE", !.owner = IF @ = "UTILITY" THEN "NONE" ELSE @]
               late == [g EXCEPT !.auto = TRUE, !.want = s.app = "air"]
    <3>2. s' \in {s, powered, scanned, g, late}
      BY <2>2, <2>6, <3>1 DEF LoopRecovery
    <3>3. powered.inst = s.inst /\ scanned.inst = s.inst /\ g.inst = s.inst /\ DOMAIN g = Fields
      BY <2>1, FieldNames DEF Named
    <3>4. late.inst = s.inst
      <4> HIDE DEF g
      <4> QED BY <3>3, FieldNames DEF Named
    <3> HIDE DEF powered, scanned, g, late
    <3> QED BY <3>2, <3>3, <3>4
  <2>7. CASE LoopSdrApps
    BY <2>2, <2>7 DEF LoopSdrApps, foregroundUsbAccessory, UsbApps, SdrApps, ReclaimInv, Parked
  <2>8. CASE ClientStep
    BY <2>1, <2>8, FieldNames
       DEF ClientStep, ClientRegister, ClientHead, ClientBusyDone, ClientAuto, ClientClaim,
           ClientRequest, ClientClose, Client, requestUsbRecovery, Named
  <2>9. CASE HostStep
    BY <2>1, <2>9, FieldNames
       DEF HostStep, HostStop, HostWait, HostUninstall, HostReport, HostExit, Host, Named
  <2>10. CASE EnvStep
    BY <2>1, <2>10, FieldNames
       DEF EnvStep, Associate, LinkLost, HeapChanges, HoldExpires, CooldownExpires, Named
  <2>11. CASE restartWithBlackScreen
    BY <2>11, BootFields DEF restartWithBlackScreen
  <2> QED BY <2>3, <2>4, <2>5, <2>6, <2>7, <2>8, <2>9, <2>10, <2>11 DEF Next, LoopStep, Giving
<1> QED BY <1>1, ReclaimInit, ReclaimNext, PTL DEF Spec, NoReclaim
=============================================================================
