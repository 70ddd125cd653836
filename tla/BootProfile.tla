----------------------------- MODULE BootProfile -----------------------------
(***************************************************************************)
(* The boot profiles of src/src/main.cpp.  ESP-Hosted can run Wi-Fi or BLE, *)
(* and neither next to the USB host, so the firmware changes radios by      *)
(* writing one-shot flags to NVS and restarting: setup() reads them, clears *)
(* them and runs the profile they name.                                     *)
(*                                                                          *)
(* Each Preferences::put* is one committed write, hence one action; a reset *)
(* may come between any two of them.  pc names the next write or the point  *)
(* setup() has reached; "run" is the Arduino loop.                          *)
(***************************************************************************)
EXTENDS Naturals

CONSTANTS
  UsbTargets,   \* the apps isUsbExclusiveTargetApp accepts
  Menu,         \* kAppMenuIndex
  MaxCrashes    \* bound on the unplanned resets of a behaviour

ASSUME TargetsAssumption == Menu \notin UsbTargets /\ MaxCrashes \in Nat

VARIABLES
  nvs,      \* Preferences "responder"
  rtc,      \* crashRetained, kept over any reset but the loss of power
  reset,    \* esp_reset_reason
  ram,      \* the globals of this boot
  want,     \* the arguments of the restart request being written
  pc,
  crashes

vars == <<nvs, rtc, reset, ram, want, pc, crashes>>

Targets == UsbTargets \cup {Menu}

Nvs ==
  [ble : BOOLEAN, usb : BOOLEAN, wifi : BOOLEAN,    \* radio_ble, radio_usb, radio_wifi
   app : Targets,                                   \* usb_app
   restore : BOOLEAN,                               \* usb_w_restore
   saved : BOOLEAN]                                 \* savedCredCount > 0
Ram ==
  [ble : BOOLEAN, usb : BOOLEAN, wifi : BOOLEAN,    \* bleExclusiveBootMode, ...
   app : Targets,                                   \* usbExclusiveTargetApp
   owed : BOOLEAN,                                  \* usbExclusiveRestoreWifiOnExit
   pend : BOOLEAN,                                  \* wifiBootEnablePending
   up : BOOLEAN,                                    \* WiFi.status() == WL_CONNECTED
   safe : BOOLEAN,                                  \* wifiCrashSafeMode
   crashed : BOOLEAN,                               \* previousCrashPending
   capture : BOOLEAN]                               \* crashCaptureEnabled
Rtc ==
  [armed : BOOLEAN,   \* magic, version and armed are set
   low : BOOLEAN]     \* 0 < freeDma < 4096 at the last snapshot
Want == [app : Targets, restore : BOOLEAN]

BleRequest == {"bleOn", "bleNoWifi"}
UsbRequest == {"usbNoBle", "usbOn", "usbApp", "usbNoWifi", "usbRestore"}
WifiRequest == {"wifiNoBle", "wifiNoUsb", "wifiNoApp", "wifiOn"}
Setup == {"read", "badUsb", "badApp", "clearBle", "clearUsb", "clearApp", "clearWifi",
          "clearRestore", "profile", "report"}
Pcs == BleRequest \cup UsbRequest \cup WifiRequest \cup Setup \cup {"restart", "run"}

TypeOK ==
  /\ nvs \in Nvs /\ rtc \in Rtc /\ reset \in {"power", "software", "crash"}
  /\ ram \in Ram /\ want \in Want /\ pc \in Pcs /\ crashes \in 0..MaxCrashes

-----------------------------------------------------------------------------
(* The writes of a restart request: requestExclusiveBleBoot,                *)
(* requestExclusiveUsbBoot and requestWifiBoot over setExclusiveRadioBoot   *)
(* and setExclusiveUsbBoot.                                                 *)

Put(from, field, v, to) ==
  /\ pc = from /\ pc' = to
  /\ nvs' = [nvs EXCEPT ![field] = v]
  /\ UNCHANGED <<rtc, reset, ram, want, crashes>>

PutBleRequest ==
  \/ Put("bleOn", "ble", TRUE, "bleNoWifi")
  \/ Put("bleNoWifi", "wifi", FALSE, "restart")

\* Variant: usb_w_restore is only written when there is something to restore.
PutUsbRequest_OnlyTrue ==
  \/ Put("usbNoBle", "ble", FALSE, "usbOn")
  \/ Put("usbOn", "usb", TRUE, "usbApp")
  \/ Put("usbApp", "app", want.app, "usbNoWifi")
  \/ Put("usbNoWifi", "wifi", FALSE, IF want.restore THEN "usbRestore" ELSE "restart")
  \/ Put("usbRestore", "restore", TRUE, "restart")

PutUsbRequest ==
  \/ Put("usbNoBle", "ble", FALSE, "usbOn")
  \/ Put("usbOn", "usb", TRUE, "usbApp")
  \/ Put("usbApp", "app", want.app, "usbNoWifi")
  \/ Put("usbNoWifi", "wifi", FALSE, "usbRestore")
  \/ Put("usbRestore", "restore", want.restore, "restart")

PutWifiRequest ==
  \/ Put("wifiNoBle", "ble", FALSE, "wifiNoUsb")
  \/ Put("wifiNoUsb", "usb", FALSE, "wifiNoApp")
  \/ Put("wifiNoApp", "app", Menu, "wifiOn")
  \/ Put("wifiOn", "wifi", TRUE, "restart")

restartWithBlackScreen ==
  /\ pc = "restart" /\ pc' = "read" /\ reset' = "software"
  /\ UNCHANGED <<nvs, rtc, ram, want, crashes>>

-----------------------------------------------------------------------------
(* setup() *)

\* What setup clears next, in this order.
AfterUsb(r) == IF r.wifi THEN "clearWifi" ELSE "profile"
AfterBle(r) == IF r.usb THEN "clearUsb" ELSE AfterUsb(r)
AfterRead(r) == IF r.ble THEN "clearBle" ELSE AfterBle(r)

\* prepareCrashCapture, then the flags; a target that is no USB app is ignored.
ReadFlags ==
  /\ pc = "read"
  /\ \E image \in BOOLEAN :                    \* is a core dump image in flash?
       LET crash == rtc.armed /\ reset = "crash"
           valid == nvs.usb /\ nvs.app \in UsbTargets
           r == [ble |-> nvs.ble, usb |-> valid, wifi |-> nvs.wifi,
                 app |-> IF nvs.usb /\ ~valid THEN Menu ELSE nvs.app,
                 owed |-> nvs.restore, pend |-> FALSE, up |-> FALSE,
                 safe |-> crash /\ rtc.low, crashed |-> crash \/ image, capture |-> FALSE]
       IN  ram' = r /\ pc' = IF nvs.usb /\ ~valid THEN "badUsb" ELSE AfterRead(r)
  /\ UNCHANGED <<nvs, rtc, reset, want, crashes>>

\* Variant: the flag of a USB boot is kept until the app is left.
ClearFlags_KeepUsb ==
  \/ Put("clearBle", "ble", FALSE, AfterBle(ram))
  \/ Put("clearUsb", "app", Menu, AfterUsb(ram))
  \/ Put("clearWifi", "wifi", FALSE, "clearRestore")
  \/ Put("clearRestore", "restore", FALSE, "profile")

ClearFlags ==
  \/ Put("badUsb", "usb", FALSE, "badApp")
  \/ Put("badApp", "app", Menu, AfterRead(ram))
  \/ Put("clearBle", "ble", FALSE, AfterBle(ram))
  \/ Put("clearUsb", "usb", FALSE, "clearApp")
  \/ Put("clearApp", "app", Menu, AfterUsb(ram))
  \/ Put("clearWifi", "wifi", FALSE, "clearRestore")
  \/ Put("clearRestore", "restore", FALSE, "profile")

Exclusive(r) == r.ble \/ r.usb

\* Variant: the profile is requested although it is the one that booted.
ChooseProfile_Again ==
  /\ pc = "profile" /\ UNCHANGED <<nvs, rtc, reset, want, crashes, ram>>
  /\ pc' = IF ~Exclusive(ram) /\ nvs.saved THEN "wifiNoBle" ELSE "report"

\* A saved network is only ever joined in the Wi-Fi profile: setup restarts into it.
\* Otherwise the deferred enable is scheduled, or held back after a low-DMA crash.
ChooseProfile ==
  /\ pc = "profile"
  /\ IF ~Exclusive(ram) /\ ~ram.wifi /\ nvs.saved
     THEN pc' = "wifiNoBle" /\ UNCHANGED ram
     ELSE /\ pc' = "report"
          /\ ram' = [ram EXCEPT !.pend = ~Exclusive(ram) /\ (ram.wifi \/ ~ram.safe),
                                !.safe = @ /\ (Exclusive(ram) \/ ~ram.wifi)]
  /\ UNCHANGED <<nvs, rtc, reset, want, crashes>>

\* persistCrashReport needs the SD card, which an isolated BLE boot does not mount.
\* beginCrashCapture wipes what the previous boot retained.
ReportCrash ==
  /\ pc = "report" /\ pc' = "run"
  /\ \E written \in BOOLEAN :
       IF ram.crashed /\ ~(written /\ ~ram.ble)
       THEN UNCHANGED <<ram, rtc>>
       ELSE /\ ram' = [ram EXCEPT !.crashed = FALSE, !.capture = TRUE]
            /\ rtc' = [armed |-> TRUE, low |-> FALSE]
  /\ UNCHANGED <<nvs, reset, want, crashes>>

-----------------------------------------------------------------------------
(* The loop: what asks for a restart, and what else matters to the next boot. *)

Request(to, r, w) ==
  /\ pc = "run" /\ pc' = to /\ ram' = r /\ want' = w
  /\ UNCHANGED <<nvs, rtc, reset, crashes>>

\* The BLE keyboard is opened (in a USB boot openApp goes to Wi-Fi instead).
requestExclusiveBleBoot == ~Exclusive(ram) /\ Request("bleOn", ram, want)

\* A USB app is opened over a live Wi-Fi, or the serial command "usb boot" is given.
requestExclusiveUsbBoot ==
  \E a \in UsbTargets : Request("usbNoBle", ram, [app |-> a, restore |-> ram.up])

\* Leaving an isolated profile, the scan button, a serial command, low memory.
requestWifiBoot == Request("wifiNoBle", ram, want)

\* The deferred enable of loop(): outside its profile setWifiEnabled restarts into it.
LoopEnableDue ==
  /\ ram.pend
  /\ \/ ram.safe /\ Request("run", [ram EXCEPT !.pend = FALSE], want)
     \/ ~ram.safe /\ ram.wifi
        /\ \E up \in BOOLEAN : Request("run", [ram EXCEPT !.pend = FALSE, !.up = up], want)
     \/ ~ram.safe /\ ~ram.wifi
        /\ Request("wifiNoBle", [ram EXCEPT !.pend = FALSE, !.safe = TRUE], want)

\* saveWifiNetworkAndRebootClean, clearSavedNetworks
SaveNetwork ==
  /\ pc = "run" /\ pc' = "wifiNoBle" /\ nvs' = [nvs EXCEPT !.saved = TRUE]
  /\ UNCHANGED <<rtc, reset, ram, want, crashes>>
ClearNetworks ==
  /\ pc = "run" /\ nvs' = [nvs EXCEPT !.saved = FALSE]
  /\ UNCHANGED <<rtc, reset, ram, want, pc, crashes>>

updateCrashSnapshot ==
  /\ pc = "run" /\ ram.capture
  /\ \E low \in BOOLEAN : rtc' = [rtc EXCEPT !.low = low]
  /\ UNCHANGED <<nvs, reset, ram, want, pc, crashes>>

-----------------------------------------------------------------------------
(* Resets nobody asked for. *)

Crash ==
  /\ crashes < MaxCrashes /\ crashes' = crashes + 1
  /\ pc' = "read" /\ reset' = "crash" /\ UNCHANGED <<nvs, rtc, ram, want>>

PowerLoss ==
  /\ crashes < MaxCrashes /\ crashes' = crashes + 1
  /\ pc' = "read" /\ reset' = "power" /\ rtc' = [armed |-> FALSE, low |-> FALSE]
  /\ UNCHANGED <<nvs, ram, want>>

Init ==
  /\ nvs \in {n \in Nvs : ~n.ble /\ ~n.usb /\ ~n.wifi /\ n.app = Menu /\ ~n.restore}
  /\ rtc = [armed |-> FALSE, low |-> FALSE] /\ reset = "power"
  /\ ram = [ble |-> FALSE, usb |-> FALSE, wifi |-> FALSE, app |-> Menu, owed |-> FALSE,
            pend |-> FALSE, up |-> FALSE, safe |-> FALSE, crashed |-> FALSE, capture |-> FALSE]
  /\ want = [app |-> Menu, restore |-> FALSE]
  /\ pc = "read" /\ crashes = 0

Boot ==
  \/ PutBleRequest \/ PutUsbRequest \/ PutWifiRequest \/ restartWithBlackScreen
  \/ ReadFlags \/ ClearFlags \/ ChooseProfile \/ ReportCrash
Loop ==
  \/ requestExclusiveBleBoot \/ requestExclusiveUsbBoot \/ requestWifiBoot
  \/ LoopEnableDue \/ SaveNetwork \/ ClearNetworks \/ updateCrashSnapshot

Next == Boot \/ Loop \/ Crash \/ PowerLoss

Spec == Init /\ [][Next]_vars

\* The code runs on: nothing a user may or may not do is promised.
FairSpec == Spec /\ WF_vars(Boot)

-----------------------------------------------------------------------------
(* Properties. *)

\* The flags are one-shot (the words of setup's log): once a profile runs, no flag is
\* left, so an unplanned reset does not land in an isolated profile again.
OneShot == pc = "run" => ~nvs.ble /\ ~nvs.usb /\ ~nvs.wifi

\* Whatever was interrupted, at most one of the three profiles is booted.
OneProfile ==
  ~(ram.ble /\ ram.usb) /\ ~(ram.ble /\ ram.wifi) /\ ~(ram.usb /\ ram.wifi)

\* A USB request whose writes were not interrupted boots the app it names and owes the
\* Wi-Fi it was entered with, whatever earlier interrupted requests have left in NVS.
UsbRequestIsHonoured ==
  pc = "run" /\ ram.usb /\ reset = "software" => ram.app = want.app /\ ram.owed = want.restore

\* With a network saved, the loop only runs in the Wi-Fi profile or an isolated one.
SavedNetworkHasProfile == pc = "run" /\ nvs.saved => ram.wifi \/ Exclusive(ram)

\* No sequence of flags makes setup restart for ever: the loop is reached.
SetupEnds == pc # "run" ~> pc = "run"

\* After a crash with exhausted DMA memory "boot auto-enable" is "blocked" and Wi-Fi is
\* left to the user (main.cpp:35503): setup does not go for Wi-Fi by itself.
CrashBlocksAutoEnable == [][pc = "profile" /\ ram.safe /\ ~ram.wifi => pc' # "wifiNoBle"]_vars
=============================================================================
