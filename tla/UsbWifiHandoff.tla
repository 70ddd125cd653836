--------------------------- MODULE UsbWifiHandoff ---------------------------
(***************************************************************************)
(* How the firmware lends the scarce internal/DMA heap from the hosted      *)
(* Wi-Fi stack to the USB host stack and back (src/src/main.cpp).           *)
(*                                                                          *)
(* Three FreeRTOS threads share the globals collected in the record s:      *)
(*   the Arduino loop (pc: lpc) runs the UI, the task manager, the Wi-Fi    *)
(*     enable/restore code and installs the USB host;                       *)
(*   rtlSdrHostTask (pc: s.host) pumps the USB host library and uninstalls  *)
(*     it once rtlSdrHostStopRequested is seen;                             *)
(*   rtlSdrClientTask (pc: s.client) owns the device handles.               *)
(* Each C++ function of the loop is an operator on s; a step of a thread is *)
(* one action.  Times are nondeterministic, except that with Prompt the     *)
(* restore timeouts only fire when nothing else can happen any more.        *)
(***************************************************************************)
EXTENDS Naturals

CONSTANTS
  ClientMayStall,  \* may the client task stay inside a USB transfer for more than 2 s?
  MayFail,         \* may the USB host be refused, its removal included, or a task, or a pin?
  Prompt,          \* are timeouts a last resort?
  Openable         \* the screens the user opens from the menu

SdrApps == {"rf", "air"}             \* RF Scan, Drone | Airplanes, Ghost Box
UsbApps == SdrApps \cup {"car"}      \* ... and the ELM327 car scanner
ExclusiveApps == {"air", "car"}      \* those that boot into the USB profile

Screens == {"menu", "wifi", "usb"} \cup UsbApps
Owners == {"NONE", "ELM327", "RTL_SDR", "ADS_B", "UTILITY"}

ASSUME SwitchesAssumption ==
  /\ ClientMayStall \in BOOLEAN /\ MayFail \in BOOLEAN /\ Prompt \in BOOLEAN
  /\ Openable \subseteq Screens

VARIABLES
  s,         \* the globals and the two USB tasks' program counters
  lpc,       \* what the Arduino loop does next
  claim,     \* the owner rtlSdrClientTask has computed inside ensureRtlSdrHost
  wl,        \* WiFi.status(): idle, trying (WiFi.begin called) or up
  memOk      \* are the heaps above the Wi-Fi enable thresholds?

vars == <<s, lpc, claim, wl, memOk>>

\* The flags, by their names in main.cpp.
Flags ==
  {"dim",       \* screenDimmed
   "want",      \* aircraftAdsbRequested, ghostScanRunning
   "auto",      \* rtlSdrAutoStartStreamRequested
   "wifi", "stack",     \* wifiEnabled, wifiStackReady
   "disabled",  \* wifiDisabledForSdr
   "pend",      \* wifiBootEnablePending
   "crash",     \* wifiCrashSafeMode
   "cool",      \* within kWifiToggleCooldownMs of a toggle
   "inst", "stop",      \* rtlSdrHostInstalled, rtlSdrHostStopRequested
   "rel",       \* usbAccessoryReleaseRequested
   "minst",     \* UsbHostManager hostInstalled_
   "blocking",  \* sdrWifiRestoreBlocking
   "ex",        \* usbExclusiveWifiRestorePending
   "owed"}      \* usbExclusiveRestoreWifiOnExit
Modes == {"wifi", "usb"}                              \* the boot profile
Transitions == {"no", "held", "over"}                 \* wifiTransition and its hold time
Phases == {"IDLE", "RELEASE", "POWER_OFF", "ENUMERATE"}   \* usbRecoveryPhase
HostPcs == {"none", "run", "await", "drain", "cleared", "reported"}
ClientPcs == {"none", "start", "head", "busy", "auto", "claim", "closing"}
Navs == {"none", "menu", "lock"}                      \* sdrWifiRestorePendingNav
Profiles == {"no", "wifi", "air", "car"}              \* what a requested restart boots
Reasons == {"none", "profile", "lowMemory", "timeout", "exit", "exclusive"}

Fields ==
  Flags \cup {"mode", "app", "trans", "owner", "phase", "host", "client", "nav", "boot", "why"}

GlobalState(g) ==
  /\ DOMAIN g = Fields
  /\ \A f \in Flags : g[f] \in BOOLEAN
  /\ g.mode \in Modes /\ g.app \in Screens
  /\ g.trans \in Transitions /\ g.owner \in Owners /\ g.phase \in Phases
  /\ g.host \in HostPcs /\ g.client \in ClientPcs
  /\ g.nav \in Navs /\ g.boot \in Profiles /\ g.why \in Reasons

TypeOK ==
  /\ GlobalState(s)
  /\ lpc \in {"top", "ex", "exTm", "modal", "modalTm", "serial", "tm", "rec", "sdr",
              "touchDim", "tmDim", "restore", "touch", "tm2", "net"}
  /\ claim \in Owners
  /\ wl \in {"idle", "trying", "up"}
  /\ memOk \in BOOLEAN

Up == s.why = "none"          \* no restart has been requested
Tasks(g) == g.inst \/ g.host # "none" \/ g.client # "none"
HostHeld(g) == g.inst \/ g.minst \/ g.owner # "NONE"

-----------------------------------------------------------------------------
(* What is on the screen. *)

isWaypointAppVisible(g, a) == g.app = a /\ ~g.dim
isRtlSdrAppSelected(g) == g.app \in SdrApps /\ ~g.dim
foregroundUsbAccessory(g) == g.app \in UsbApps

isUsbHostForegroundAllowed(g) ==
  \/ g.app = "usb" \/ g.phase # "IDLE"
  \/ isRtlSdrAppSelected(g) \/ isWaypointAppVisible(g, "car")

\* Ghost Box asks for RTL_SDR and Airplanes for ADS_B, both only on request.
requestedUsbOwner(g) ==
  CASE isWaypointAppVisible(g, "car") -> "ELM327"
    [] isWaypointAppVisible(g, "air") /\ (g.want \/ g.auto) -> "ADS_B"
    [] isWaypointAppVisible(g, "rf") -> "RTL_SDR"
    [] OTHER -> "NONE"

-----------------------------------------------------------------------------
(* Operations of the loop on the globals. *)

Restart(g, profile, reason) == [g EXCEPT !.boot = profile, !.why = reason]

requestWifiBoot(g, reason) == Restart(g, "wifi", reason)

\* Variant: the toggle cooldown is obeyed here too.
suspendWifiForSdr_Cooldown(g) ==
  IF (g.wifi \/ g.stack) /\ ~g.cool
  THEN [g EXCEPT !.wifi = FALSE, !.stack = FALSE, !.trans = "no", !.disabled = TRUE]
  ELSE g

suspendWifiForSdr(g) ==
  IF g.wifi \/ g.stack
  THEN [g EXCEPT !.wifi = FALSE, !.stack = FALSE, !.trans = "no", !.cool = FALSE,
                 !.disabled = TRUE]
  ELSE [g EXCEPT !.disabled = FALSE]

\* Variant: only the installed flag is looked at, not what the manager reports.
restoreWifiAfterSdr_Early(g, mem, waited) ==
  IF g.disabled /\ ~g.inst THEN [g EXCEPT !.disabled = FALSE, !.pend = TRUE] ELSE g

\* waited: the low-memory wait has lasted 7 s, which restarts the device.
restoreWifiAfterSdr(g, mem, waited) ==
  LET crashGuard(h) == IF h.crash THEN [h EXCEPT !.pend = FALSE] ELSE h
      scheduled == [g EXCEPT !.disabled = FALSE, !.pend = TRUE]
  IN  CASE ~g.disabled -> crashGuard(g)
        [] g.disabled /\ HostHeld(g) -> g
        [] g.disabled /\ ~HostHeld(g) /\ g.stack -> scheduled
        [] g.disabled /\ ~HostHeld(g) /\ ~g.stack /\ ~mem ->
             IF waited THEN requestWifiBoot([g EXCEPT !.pend = FALSE], "lowMemory") ELSE g
        [] OTHER -> crashGuard(scheduled)

\* stopRtlSdrHost: nothing to do unless something of the host stack is alive.
stopRtlSdrHost(g) ==
  IF Tasks(g)
  THEN [g EXCEPT !.auto = FALSE, !.rel = TRUE, !.stop = TRUE, !.owner = "NONE"]
  ELSE g

\* The request that follows every stop: release the client's session and the owner.
releaseUsbSession(g) == [stopRtlSdrHost(g) EXCEPT !.rel = TRUE, !.owner = "NONE"]

\* Variant: the app stays selected under the restore screen.
releaseSdrAppResources_KeepsApp(g, mem, waited) ==
  LET r == restoreWifiAfterSdr(releaseUsbSession([g EXCEPT !.want = FALSE, !.auto = FALSE]),
                               mem, waited)
  IN  [r EXCEPT !.blocking = g.disabled /\ r.disabled]

releaseSdrAppResources(g, mem, waited) ==
  LET idle == [g EXCEPT !.want = FALSE, !.auto = FALSE]
      r == restoreWifiAfterSdr(releaseUsbSession(idle), mem, waited)
  IN  IF g.disabled /\ r.disabled
      THEN [r EXCEPT !.blocking = TRUE, !.app = "menu"]
      ELSE r

stopHiddenAppWork(g) ==
  LET hidden == [g EXCEPT !.want = @ /\ isWaypointAppVisible(g, "air"),
                          !.auto = @ /\ isRtlSdrAppSelected(g)]
  IN  IF ~isUsbHostForegroundAllowed(g) /\ HostHeld(g) /\ ~g.stop /\ ~g.rel
      THEN releaseUsbSession(hidden)
      ELSE hidden

\* The memory verdict of the resource manager is about the heaps only: the host
\* it has asked to stop may still be installed when the enable goes on.
resourceManagerPrepareForWifi(g) ==
  IF HostHeld(g) /\ ~foregroundUsbAccessory(g) THEN releaseUsbSession(g) ELSE g

prepareSucceeds(g, mem) == mem /\ ~foregroundUsbAccessory(g)

\* hw: how the radio start ends; "lowPost" is the post-mode resource abort.
wifiStart(g, hw) ==
  LET toggled == [g EXCEPT !.cool = TRUE, !.trans = "held"]
  IN  CASE hw = "ok" -> [toggled EXCEPT !.wifi = TRUE, !.stack = TRUE]
        [] hw = "pinsFail" -> toggled
        [] hw = "lowPost" -> [toggled EXCEPT !.stack = FALSE, !.pend = FALSE, !.crash = TRUE]

setWifiEnabledTrue(g, mem, hw) ==
  LET deferred(h) == [h EXCEPT !.pend = TRUE]
      prepared == IF HostHeld(g) \/ (~mem /\ ~g.stack)
                  THEN resourceManagerPrepareForWifi(g) ELSE g
      refused == /\ HostHeld(g) \/ (~mem /\ ~g.stack)
                 /\ ~prepareSucceeds(g, mem)
  IN  CASE g.mode # "wifi" ->
             requestWifiBoot([g EXCEPT !.pend = FALSE, !.trans = "no", !.wifi = FALSE,
                                       !.crash = TRUE], "profile")
        [] g.mode = "wifi" /\ g.wifi -> [g EXCEPT !.pend = FALSE]
        [] g.mode = "wifi" /\ ~g.wifi /\ ~g.blocking /\ foregroundUsbAccessory(g) ->
             deferred(g)
        [] OTHER ->
             CASE refused -> deferred(prepared)
               [] ~refused /\ g.trans = "held" -> prepared
               [] ~refused /\ g.trans # "held" /\ g.cool ->
                    [prepared EXCEPT !.trans = "held"]
               [] OTHER -> wifiStart(prepared, hw)

setWifiEnabledFalse(g) ==
  CASE g.trans = "held" -> g
    [] g.trans # "held" /\ g.cool -> [g EXCEPT !.trans = "held"]
    [] OTHER -> [g EXCEPT !.wifi = FALSE, !.cool = TRUE, !.trans = "held"]

updateWifiTransition(g) == [g EXCEPT !.trans = IF @ = "over" THEN "no" ELSE @]

\* hw: how the installation ends.  "installFail" is also a PHY that cannot be had, and
\* "noHostTask" a root port without power: the host stays installed, without its tasks.
usbHostInstall(g, hw) ==
  LET up == [g EXCEPT !.stop = FALSE, !.inst = TRUE, !.minst = TRUE]
      hosted == [up EXCEPT !.host = IF @ = "none" THEN "run" ELSE @]
  IN  CASE hw = "installFail" -> [g EXCEPT !.stop = FALSE]
        [] hw = "noHostTask" -> up
        [] hw = "noClientTask" -> hosted
        [] OTHER -> [hosted EXCEPT !.client = IF @ = "none" THEN "start" ELSE @]

\* Variant: a host that is being shut down is started again.
ensureRtlSdrHost_Eager(g, hw) ==
  LET owner == requestedUsbOwner(g)
  IN  IF owner = "NONE" \/ g.owner \notin {"NONE", owner} THEN g
      ELSE usbHostInstall(suspendWifiForSdr([g EXCEPT !.owner = owner]), hw)

ensureRtlSdrHost(g, hw) ==
  LET asked == requestedUsbOwner(g)
      owner == IF asked = "NONE" /\ g.owner = "UTILITY" THEN "UTILITY" ELSE asked
      owned == [g EXCEPT !.owner = owner]
      closing == g.stop /\ Tasks(g)                        \* shutting down, retry
      refused == owner = "NONE" \/ g.owner \notin {"NONE", owner}   \* inactive or busy
  IN  CASE closing \/ refused -> g
        [] ~closing /\ ~refused /\ g.inst /\ g.client # "none" -> owned   \* the session goes on
        [] OTHER -> usbHostInstall(suspendWifiForSdr(owned), hw)

\* The power-cycle flag is left open: updateUsbRecovery may do either.
requestUsbRecovery(g) ==
  IF g.phase = "IDLE"
  THEN [g EXCEPT !.owner = "UTILITY", !.rel = TRUE, !.phase = "RELEASE"]
  ELSE g

-----------------------------------------------------------------------------
(* What the user can do (touch screen, keyboard, serial commands). *)

\* The stream starts at once, or as soon as the client has opened the receiver.
startRfSdrStream(g, hw) ==
  LET session == ensureRtlSdrHost(g, hw)
  IN  IF session.inst /\ session.client # "none"
      THEN {[session EXCEPT !.auto = later] : later \in BOOLEAN}
      ELSE {session}

Outcomes == {"ok"} \cup IF MayFail THEN {"installFail", "noHostTask", "noClientTask"} ELSE {}
RadioOutcomes == {"ok"} \cup IF MayFail THEN {"pinsFail", "lowPost"} ELSE {}

navigate(g, nav) ==
  IF nav = "lock" THEN [g EXCEPT !.dim = TRUE] ELSE [g EXCEPT !.app = "menu"]

releaseElm(g) ==
  [g EXCEPT !.rel = TRUE, !.owner = IF @ = "ELM327" THEN "NONE" ELSE @]

exitExclusive(g) == [stopRtlSdrHost(g) EXCEPT !.rel = TRUE, !.app = "menu", !.ex = g.owed]

\* A navigation button: only the car scanner knows about the exclusive profile.
leaveByNav(g, nav, mem, waited) ==
  CASE g.app \in SdrApps ->
         LET r == releaseSdrAppResources(g, mem, waited)
         IN  IF r.blocking THEN [r EXCEPT !.nav = nav] ELSE navigate(r, nav)
    [] g.app = "car" /\ g.mode = "usb" ->
         LET r == exitExclusive(releaseElm(g)) IN IF r.ex THEN r ELSE navigate(r, nav)
    [] g.app = "car" /\ g.mode # "usb" -> navigate(releaseElm(g), nav)
    [] OTHER -> navigate(g, nav)

leaveCurrentAppToMenu(g, mem, waited) ==
  CASE g.mode = "usb" /\ g.app \in ExclusiveApps -> exitExclusive(g)
    [] g.mode # "usb" /\ g.app = "car" -> [releaseElm(g) EXCEPT !.app = "menu"]
    [] OTHER -> [releaseSdrAppResources(g, mem, waited) EXCEPT !.app = "menu"]

openApp(g, a, hw) ==
  CASE g.mode = "usb" /\ a \notin ExclusiveApps -> requestWifiBoot(g, "profile")
    [] g.mode = "wifi" /\ a \in ExclusiveApps /\ (g.wifi \/ g.stack \/ g.pend) ->
         Restart([g EXCEPT !.owed = g.wifi /\ wl = "up"], a, "exclusive")
    [] OTHER -> LET opened == [g EXCEPT !.app = a]
                IN  IF a = "car" THEN ensureRtlSdrHost(opened, hw) ELSE opened

\* The buttons of a radio app: start, stop, and for Airplanes the way back to the internet.
sdrButtons(g, mem, waited, hw) ==
  LET asking == [g EXCEPT !.want = g.app = "air"]
      idle == [g EXCEPT !.want = FALSE, !.auto = FALSE]
  IN  startRfSdrStream(ensureRtlSdrHost(asking, hw), hw) \cup {idle}
      \cup IF g.app = "air" THEN {restoreWifiAfterSdr(stopRtlSdrHost(idle), mem, waited)} ELSE {}

\* The buttons of the Wi-Fi screen (its switch, a scan), the USB screen and the radio apps.
pressButton(g, mem, waited, hw) ==
  CASE g.app = "wifi" ->
         IF g.wifi THEN {setWifiEnabledFalse(g)}
         ELSE {[g EXCEPT !.pend = TRUE]}
              \cup {setWifiEnabledTrue(g, mem, radio) : radio \in RadioOutcomes}
    [] g.app = "usb" -> {requestUsbRecovery(g)}
    [] g.app \in SdrApps -> sdrButtons(g, mem, waited, hw)
    [] OTHER -> {}

userMoves(g, mem, waited, hw) ==
  {leaveByNav(g, nav, mem, waited) : nav \in {"menu", "lock"}}
  \cup (IF g.app \in UsbApps THEN {leaveCurrentAppToMenu(g, mem, waited)} ELSE {})
  \cup (IF g.app = "menu"
        THEN {openApp(g, a, hw) : a \in Openable \cap UsbApps}
             \cup {[g EXCEPT !.app = a] : a \in Openable \ UsbApps}
        ELSE {})
  \cup pressButton(g, mem, waited, hw)

-----------------------------------------------------------------------------
(* The Arduino loop. *)

\* After a reset every flag is down, but for the enable the Wi-Fi profile schedules.
Blank ==
  [f \in Fields |->
     CASE f \in Flags -> FALSE
       [] f = "trans" -> "no" [] f = "owner" -> "NONE" [] f = "phase" -> "IDLE"
       [] f = "boot" -> "no" [] OTHER -> "none"]

boot(profile, owed) ==
  [Blank EXCEPT !.mode = IF profile = "wifi" THEN "wifi" ELSE "usb",
                !.app = IF profile = "wifi" THEN "menu" ELSE profile,
                !.pend = profile = "wifi", !.owed = owed]

Init ==
  /\ \/ s = boot("wifi", FALSE)
     \/ \E a \in ExclusiveApps \cap Openable, owed \in BOOLEAN : s = boot(a, owed)
  /\ lpc = "top" /\ claim = "NONE" /\ wl = "idle" /\ memOk \in BOOLEAN

\* One step of the loop: new globals g, and where the loop goes next.
LoopTo(g, pc) ==
  /\ s' = g /\ lpc' = pc
  /\ wl' = IF g.wifi THEN wl ELSE "idle"
  /\ UNCHANGED <<claim, memOk>>

AfterTop(g) == IF g.ex THEN "exTm" ELSE IF g.blocking THEN "modalTm" ELSE "serial"

LoopEnableDue ==
  /\ Up /\ lpc = "top" /\ s.pend
  /\ \/ s.crash /\ LoopTo([s EXCEPT !.pend = FALSE], AfterTop(s))
     \/ ~s.crash /\ ~s.blocking /\ foregroundUsbAccessory(s) /\ LoopTo(s, AfterTop(s))
     \/ /\ ~s.crash /\ (s.blocking \/ ~foregroundUsbAccessory(s))
        /\ \E hw \in RadioOutcomes :
             LET g == setWifiEnabledTrue([s EXCEPT !.pend = FALSE], memOk, hw)
             IN  LoopTo(g, AfterTop(g))

LoopTop == Up /\ lpc = "top" /\ LoopTo(s, AfterTop(s))

LoopTaskManager ==
  /\ Up
  /\ \/ lpc = "exTm" /\ LoopTo(stopHiddenAppWork(s), "ex")
     \/ lpc = "modalTm" /\ LoopTo(stopHiddenAppWork(s), "modal")
     \/ lpc = "tm" /\ LoopTo(stopHiddenAppWork(s), "rec")
     \/ lpc = "tmDim" /\ LoopTo(updateWifiTransition(stopHiddenAppWork(s)), "top")
     \/ lpc = "tm2" /\ LoopTo(stopHiddenAppWork(s), "net")

usbIdle(g) == ~Tasks(g) /\ ~HostHeld(g) /\ g.phase = "IDLE"

LoopExclusiveExit ==
  /\ Up /\ lpc = "ex"
  /\ IF usbIdle(s) THEN LoopTo(requestWifiBoot([s EXCEPT !.ex = FALSE], "exit"), "top")
                   ELSE LoopTo(s, "top")

\* Variant: an enabled radio is taken for a connection.
wifiBack_RadioOn(g) == ~g.disabled /\ g.wifi

wifiBack(g) == ~g.disabled /\ g.wifi /\ wl = "up"

dismissModal(g) ==
  LET closed == [g EXCEPT !.blocking = FALSE, !.nav = "none"]
  IN  IF g.nav = "none" THEN closed ELSE navigate(closed, g.nav)

LoopRestoreModal ==
  /\ Up /\ lpc = "modal"
  /\ \E waited \in BOOLEAN :
       LET g == updateWifiTransition(restoreWifiAfterSdr(s, memOk, waited))
       IN  LoopTo(IF wifiBack(g) /\ g.why = "none" THEN dismissModal(g) ELSE g, "top")

\* The 12 s of a restore screen are over.
TimedOut(g) ==
  Prompt => /\ g.host = "none" /\ g.client = "none" /\ g.trans = "no" /\ ~g.cool
            /\ ~g.pend /\ wl # "trying" /\ ~(g.disabled /\ memOk /\ ~HostHeld(g))

\* Variants: no deadline.
LoopExclusiveTimeout_Never == FALSE
LoopRestoreTimeout_Never == FALSE

LoopExclusiveTimeout ==
  /\ Up /\ lpc = "ex" /\ ~usbIdle(s) /\ TimedOut(s)
  /\ LoopTo(requestWifiBoot([s EXCEPT !.ex = FALSE], "timeout"), "top")

LoopRestoreTimeout ==
  /\ Up /\ lpc = "modal"
  /\ LET g == updateWifiTransition(restoreWifiAfterSdr(s, memOk, FALSE))
     IN  /\ ~wifiBack(g) /\ TimedOut(g)
         /\ LoopTo(requestWifiBoot([g EXCEPT !.blocking = FALSE, !.nav = "none"], "timeout"),
                   "top")

UserMove(g) ==
  \E waited \in BOOLEAN, hw \in Outcomes :
    \E moved \in userMoves([g EXCEPT !.dim = FALSE], memOk, waited, hw) :
      LoopTo(moved, IF lpc = "serial" THEN "tm" ELSE "tm2")

\* Serial commands wake the display first.
LoopSerial == Up /\ lpc = "serial" /\ (LoopTo(s, "tm") \/ UserMove(s))

\* updateUsbRecovery: the phases wait for time to pass.
LoopRecovery ==
  /\ Up /\ lpc = "rec"
  /\ \/ LoopTo(s, "sdr")
     \/ s.phase = "RELEASE" /\ LoopTo([s EXCEPT !.phase = "POWER_OFF"], "sdr")
     \/ /\ s.phase \in {"RELEASE", "POWER_OFF"}
        /\ \E hw \in Outcomes :
             LoopTo([ensureRtlSdrHost(s, hw) EXCEPT !.phase = "ENUMERATE"], "sdr")
     \/ /\ s.phase = "ENUMERATE"
        /\ LET late == isRtlSdrAppSelected(s)
               g == [s EXCEPT !.phase = "IDLE", !.owner = IF @ = "UTILITY" THEN "NONE" ELSE @]
           IN  \/ LoopTo(g, "sdr")                                 \* a device attached
               \/ late /\ LoopTo([g EXCEPT !.auto = TRUE, !.want = s.app = "air"], "sdr")

\* updateSdrApps: the foreground app (re)claims the USB host.
LoopSdrApps ==
  LET next == IF s.dim THEN "touchDim" ELSE "restore"
  IN  /\ Up /\ lpc = "sdr"
      /\ \/ /\ s.app # "rf" \/ s.dim
            /\ LoopTo(s, next)
         \/ /\ foregroundUsbAccessory(s) /\ ~s.dim
            /\ \E hw \in Outcomes :
                 LET g == ensureRtlSdrHost(s, hw)
                 IN  \/ LoopTo(g, next)
                     \/ ~g.auto /\ LoopTo([g EXCEPT !.want = FALSE], next)

LoopRestore ==
  /\ Up /\ lpc = "restore"
  /\ \E waited \in BOOLEAN :
       LET g == updateWifiTransition(s)
       IN  LoopTo(IF g.disabled /\ ~isRtlSdrAppSelected(g)
                  THEN restoreWifiAfterSdr(g, memOk, waited) ELSE g, "touch")

LoopTouch ==
  /\ Up
  /\ \/ lpc = "touch" /\ (LoopTo(s, "tm2") \/ UserMove(s))
     \/ lpc = "touchDim" /\ \E dim \in BOOLEAN : LoopTo([s EXCEPT !.dim = dim], "tmDim")

\* serviceWifiPanicGuard, then the reconnect the enabled radio is waiting for.
LoopWifiService ==
  /\ Up /\ lpc = "net" /\ lpc' = "top" /\ UNCHANGED <<claim, memOk>>
  /\ \/ /\ s.wifi /\ s.trans = "no" /\ ~memOk
        /\ s' = [s EXCEPT !.wifi = FALSE, !.stack = FALSE, !.pend = FALSE, !.crash = TRUE]
        /\ wl' = "idle"
     \/ /\ s.wifi /\ s.trans = "no" /\ wl = "idle"
        /\ wl' = "trying" /\ UNCHANGED s
     \/ ~(s.wifi /\ s.trans = "no" /\ wl = "idle") /\ UNCHANGED <<s, wl>>

-----------------------------------------------------------------------------
(* rtlSdrClientTask. *)

Client(from, g) == Up /\ s.client = from /\ s' = g /\ UNCHANGED <<lpc, claim, wl, memOk>>

ClientRegister ==
  \/ Client("start", [s EXCEPT !.client = "head"])
  \/ MayFail /\ Client("start", [s EXCEPT !.client = "none"])

\* Variant: the client task never looks at the stop flag.
ClientHead_NoStop ==
  \/ s.rel /\ Client("head", [s EXCEPT !.rel = FALSE, !.auto = FALSE])
  \/ ~s.rel /\ Client("head", [s EXCEPT !.client = "busy"])

\* The head of its loop: the stop flag first, then the release flag.
ClientHead ==
  \/ s.stop /\ Client("head", [s EXCEPT !.client = "closing"])
  \/ ~s.stop /\ s.rel /\ Client("head", [s EXCEPT !.rel = FALSE, !.auto = FALSE])
  \/ ~s.stop /\ ~s.rel /\ Client("head", [s EXCEPT !.client = "busy"])

\* Events, an open, an OBD request: anything that may wait for a USB transfer.
ClientBusyDone ==
  \/ Client("busy", [s EXCEPT !.client = "auto"])
  \/ Client("busy", [s EXCEPT !.client = "head", !.auto = isRtlSdrAppSelected(s)])  \* device gone

ClientAuto ==
  \/ ~s.auto /\ Client("auto", [s EXCEPT !.client = "head"])
  \/ /\ s.auto
     /\ \/ Client("auto", [s EXCEPT !.client = "head"])            \* still waiting
        \/ Client("auto", [s EXCEPT !.client = "head", !.auto = FALSE])
        \/ s.phase = "IDLE"
           /\ Client("auto", [requestUsbRecovery(s) EXCEPT !.client = "head"])

\* startRfSdrStream in the client task: ensureRtlSdrHost reads the foreground app
\* and asks for the owner in two steps, and the loop may stop the host in between.
ClientClaim ==
  /\ Up /\ s.client = "auto" /\ s.auto /\ ~s.stop
  /\ LET asked == requestedUsbOwner(s)
     IN  claim' = IF asked = "NONE" /\ s.owner = "UTILITY" THEN "UTILITY" ELSE asked
  /\ s' = [s EXCEPT !.client = IF claim' = "NONE" THEN "head" ELSE "claim"]
  /\ UNCHANGED <<lpc, wl, memOk>>

ClientRequest ==
  /\ Up /\ s.client = "claim"
  /\ \/ /\ s.owner \in {"NONE", claim}          \* granted; the tuner may still refuse
        /\ s' \in {[s EXCEPT !.owner = claim, !.auto = FALSE, !.client = "head"],
                   [s EXCEPT !.owner = claim, !.client = "head"]}
     \/ s.owner \notin {"NONE", claim} /\ s' = [s EXCEPT !.client = "head"]
  /\ claim' = "NONE" /\ UNCHANGED <<lpc, wl, memOk>>

ClientClose == Client("closing", [s EXCEPT !.client = "none", !.auto = FALSE])

-----------------------------------------------------------------------------
(* rtlSdrHostTask. *)

Host(from, g) == Up /\ s.host = from /\ s' = g /\ UNCHANGED <<lpc, claim, wl, memOk>>

HostStop == s.stop /\ Host("run", [s EXCEPT !.host = "await"])

\* It waits for the client task, but no longer than 2 s.
HostWait ==
  /\ s.client = "none" \/ (ClientMayStall /\ s.client \in {"busy", "auto", "claim", "closing"})
  /\ Host("await", [s EXCEPT !.host = "drain"])

\* Variant: the result of usb_host_uninstall is ignored.
HostUninstall_Unchecked == Host("drain", [s EXCEPT !.inst = FALSE, !.host = "cleared"])

\* usb_host_uninstall refuses while a client is registered, or a device was not freed in 3 s.
HostUninstall ==
  \/ s.client = "none" /\ Host("drain", [s EXCEPT !.inst = FALSE, !.host = "cleared"])
  \/ (s.client # "none" \/ MayFail) /\ Host("drain", [s EXCEPT !.host = "none"])

HostReport == Host("cleared", [s EXCEPT !.minst = FALSE, !.owner = "NONE", !.host = "reported"])
HostExit == Host("reported", [s EXCEPT !.host = "none"])

-----------------------------------------------------------------------------
(* The radio, the heaps and time; a restart. *)

Associate ==
  /\ Up /\ wl = "trying" /\ wl' \in {"up", "idle"} /\ UNCHANGED <<s, lpc, claim, memOk>>
LinkLost == Up /\ wl = "up" /\ wl' = "idle" /\ UNCHANGED <<s, lpc, claim, memOk>>
HeapChanges == Up /\ memOk' = ~memOk /\ UNCHANGED <<s, lpc, claim, wl>>
HoldExpires ==
  /\ Up /\ s.trans = "held" /\ s' = [s EXCEPT !.trans = "over"]
  /\ UNCHANGED <<lpc, claim, wl, memOk>>
CooldownExpires ==
  /\ Up /\ s.cool /\ s' = [s EXCEPT !.cool = FALSE] /\ UNCHANGED <<lpc, claim, wl, memOk>>

restartWithBlackScreen ==
  /\ ~Up
  /\ s' = boot(s.boot, s.owed /\ s.boot # "wifi")
  /\ lpc' = "top" /\ claim' = "NONE" /\ wl' = "idle" /\ memOk' \in BOOLEAN

LoopStep ==
  \/ LoopEnableDue \/ LoopTop \/ LoopTaskManager \/ LoopExclusiveExit
  \/ LoopExclusiveTimeout \/ LoopRestoreModal \/ LoopRestoreTimeout
  \/ LoopSerial \/ LoopRecovery \/ LoopSdrApps \/ LoopRestore \/ LoopTouch \/ LoopWifiService
ClientStep ==
  \/ ClientRegister \/ ClientHead \/ ClientBusyDone \/ ClientAuto
  \/ ClientClaim \/ ClientRequest \/ ClientClose
HostStep == HostStop \/ HostWait \/ HostUninstall \/ HostReport \/ HostExit
EnvStep ==
  \/ Associate \/ LinkLost \/ HeapChanges \/ HoldExpires \/ CooldownExpires

Next == LoopStep \/ ClientStep \/ HostStep \/ EnvStep \/ restartWithBlackScreen

Spec == Init /\ [][Next]_vars

\* Each FreeRTOS task is scheduled, and time passes.
Fairness ==
  /\ WF_vars(LoopStep) /\ WF_vars(ClientStep) /\ WF_vars(HostStep)
  /\ WF_vars(Associate) /\ WF_vars(HoldExpires) /\ WF_vars(CooldownExpires)
  /\ WF_vars(restartWithBlackScreen)
  /\ SF_vars(LoopExclusiveTimeout) /\ SF_vars(LoopRestoreTimeout)
FairSpec == Spec /\ Fairness

-----------------------------------------------------------------------------
(* Properties. *)

\* The client task never outlives the host stack it is registered with: it is only
\* created under an installed host, and a host is only uninstalled when it is gone.
ClientWithinHost == s.client # "none" => s.inst

\* The two stacks that compete for the DMA heap overlap only while the host has
\* already been told to stop (suspendWifiForSdr, resourceManagerPrepareForWifi).
WifiOverHostIsTeardown == s.wifi /\ s.inst => s.stop

\* While Wi-Fi is being restored no app reclaims the USB host (README.md:11): neither
\* the rest of the pass that raised the restore screen nor the passes under it.  A
\* second input of that pass (handleTouch after a serial command) still can.
NoReclaim == [][s.blocking /\ ~s.inst /\ lpc # "touch" => ~s'.inst]_vars

\* A shutdown once requested is never taken back while a piece of it still runs,
\* whatever the user opens meanwhile: the two tasks see the flag in the end.
StopIsKept == [][s.stop /\ Up /\ (s.host # "none" \/ s.client # "none") => s'.stop]_vars

\* The restore screen is left only over a live connection or by a restart
\* (README.md:12, CHANGELOG.md:33).
ModalUntilConnected ==
  [][s.blocking /\ ~s'.blocking => (s'.wifi /\ wl = "up") \/ s'.why # "none" \/ ~Up]_vars

\* Wi-Fi taken for a USB session stays recorded as lent until it is scheduled back
\* with the host gone, a session without a running client starts over, or the device
\* restarts: no interleaving of exits, recoveries and failures drops it under a session.
\* After an aborted start (wifiCrashSafeMode, only cleared by setup) it is not scheduled back, not
\* even if the user has enabled the radio by hand since (3371).
LoanIsKept ==
  [][s.disabled /\ ~s'.disabled =>
       \/ (s'.pend \/ s.crash) /\ ~HostHeld(s')
       \/ s.client = "none" /\ s'.owner # "NONE"
       \/ ~Up]_vars

\* The three threads implement the lease of module UsbLease: one owner at a time, a
\* host installed for it, no client without a host, no change of owner but through
\* none or a recovery, and nothing left behind by an uninstall.
Lease ==
  INSTANCE UsbLease WITH
    Nobody <- "NONE", Rescue <- "UTILITY", owner <- s.owner,
    installed <- s.inst \/ s.minst, client <- s.client # "none", up <- Up
LeaseIsKept == Lease!Spec

\* A shutdown request ends with the host uninstalled (or the device restarted).
StopCompletes == s.stop /\ s.inst ~> ~s.inst

\* Nobody waits on the restore screen for ever (main.cpp:3352).
ModalEnds == s.blocking ~> ~s.blocking

\* The exit of a USB-exclusive boot ends in a restart even if the host cannot be removed.
ExclusiveExitEnds == s.ex ~> ~s.ex

\* Outside the Wi-Fi boot profile the hosted radio is never started, whatever the
\* Wi-Fi screen asks (kHostedWifiRuntimeSafe = false).
RadioOffInUsbProfile == s.mode = "usb" => ~s.wifi /\ ~s.stack

\* Leaving the radio apps with healthy heaps reconnects in place (main.cpp:3352-3356).
HealthyExitReconnects == [][Up /\ s'.why = "timeout" /\ s.blocking => ~memOk]_vars

\* The restoration is only "deferred until USB host shutdown" (main.cpp:3313): lent Wi-Fi
\* comes back after the session, or after the one that follows it.
LentWifiIsReturned ==
  [][s.disabled /\ ~s'.disabled => (s'.pend /\ ~HostHeld(s')) \/ ~Up]_vars

\* Leaving the app a USB-exclusive boot was made for restores the Wi-Fi it was
\* entered with: "WI-FI WILL RESUME ON EXIT" (main.cpp:26224).
ExclusiveExitRestores ==
  [][Up /\ s.mode = "usb" /\ s.owed /\ s.app \in ExclusiveApps /\ s'.app \notin ExclusiveApps
     => s'.ex \/ s'.why # "none"]_vars
=============================================================================
