-------------------------- MODULE BootProfile_proofs --------------------------
(***************************************************************************)
(* Proofs about BootProfile for every set of USB apps and any number of     *)
(* resets.                                                                  *)
(***************************************************************************)
EXTENDS BootProfile, TLAPS

(***************************************************************************)
(* OneShot and OneProfile are not inductive by themselves: that NVS never   *)
(* holds two flags depends on where a write sequence was interrupted, and   *)
(* that setup() leaves none depends on what it has read.  FlagsAt says      *)
(* which flags may be set at each pc, ReadAt what setup() has read there.   *)
(***************************************************************************)
AtMostOne(r) == ~(r.ble /\ r.usb) /\ ~(r.ble /\ r.wifi) /\ ~(r.usb /\ r.wifi)
NoFlag(r) == ~r.ble /\ ~r.usb /\ ~r.wifi

Clean ==
  WifiRequest \cup {"bleOn", "usbNoBle", "usbOn", "badApp", "clearApp", "clearRestore",
                    "profile", "report", "run"}

FlagsAt ==
  /\ AtMostOne(nvs)
  /\ pc \in Clean => NoFlag(nvs)
  /\ pc \in {"bleNoWifi", "clearBle"} => ~nvs.usb /\ ~nvs.wifi
  /\ pc \in {"usbApp", "usbNoWifi", "usbRestore", "badUsb", "clearUsb"} => ~nvs.ble /\ ~nvs.wifi
  /\ pc = "clearWifi" => ~nvs.ble /\ ~nvs.usb

ReadAt ==
  /\ AtMostOne(ram)
  /\ pc \in {"badUsb", "badApp"} => NoFlag(ram)
  /\ pc = "clearBle" => ram.ble
  /\ pc \in {"clearUsb", "clearApp"} => ram.usb
  /\ pc \in {"clearWifi", "clearRestore"} => ram.wifi

ProfileAt == pc \in {"report", "run"} /\ nvs.saved => ram.wifi \/ Exclusive(ram)

\* What a completed USB request has put into NVS, and what setup() has made of it.
WrittenAt ==
  /\ pc \in {"usbNoWifi", "usbRestore"} => nvs.app = want.app
  /\ pc = "restart" \/ (pc = "read" /\ reset = "software") =>
       (nvs.usb => nvs.app = want.app /\ nvs.restore = want.restore)
  /\ pc \in Setup \cup {"run"} /\ pc # "read" /\ reset = "software" /\ ram.usb =>
       ram.app = want.app /\ ram.owed = want.restore

IInv == TypeOK /\ FlagsAt /\ ReadAt /\ ProfileAt /\ WrittenAt

LEMMA InitInv == Init => IInv
  BY TargetsAssumption
     DEF Init, IInv, TypeOK, FlagsAt, ReadAt, ProfileAt, WrittenAt, AtMostOne, NoFlag, Clean, Nvs,
         Ram, Rtc, Want, Targets, Pcs, Setup, BleRequest, UsbRequest, WifiRequest

\* A write keeps the types when its value belongs to the field.
LEMMA PutType ==
  ASSUME TypeOK, NEW from, NEW field \in {"ble", "usb", "wifi", "app", "restore"},
         NEW v, field = "app" => v \in Targets, field # "app" => v \in BOOLEAN,
         NEW to \in Pcs, Put(from, field, v, to)
  PROVE  TypeOK'
<1>1. [nvs EXCEPT ![field] = v] \in Nvs
  BY DEF TypeOK, Nvs
<1> QED BY <1>1 DEF TypeOK, Put

LEMMA RequestWritesInv ==
  ASSUME IInv, PutBleRequest \/ PutUsbRequest \/ PutWifiRequest
  PROVE  IInv'
<1>1. TypeOK
  BY DEF IInv
<1>2. TypeOK'
  BY <1>1, PutType
     DEF PutBleRequest, PutUsbRequest, PutWifiRequest, TypeOK, Want, Targets, Pcs, BleRequest,
         UsbRequest, WifiRequest
<1>3. FlagsAt' /\ ReadAt' /\ ProfileAt' /\ WrittenAt'
  BY DEF IInv, TypeOK, PutBleRequest, PutUsbRequest, PutWifiRequest, Put, FlagsAt, ReadAt,
         ProfileAt, WrittenAt, AtMostOne, NoFlag, Clean, Nvs, Setup, BleRequest, UsbRequest,
         WifiRequest
<1> QED BY <1>2, <1>3 DEF IInv

LEMMA ClearFlagsInv ==
  ASSUME IInv, ClearFlags
  PROVE  IInv'
<1>1. TypeOK
  BY DEF IInv
<1>2. /\ AfterRead(ram) \in Pcs /\ AfterBle(ram) \in Pcs /\ AfterUsb(ram) \in Pcs
  BY DEF AfterRead, AfterBle, AfterUsb, Pcs, Setup
<1>3. TypeOK'
  BY <1>1, <1>2, PutType DEF ClearFlags, Targets, Pcs, Setup
<1>4. /\ pc = "badApp" => AfterRead(ram) = "profile"
      /\ pc = "clearBle" => AfterBle(ram) = "profile"
      /\ pc = "clearApp" => AfterUsb(ram) = "profile"
  BY DEF IInv, TypeOK, Ram, ReadAt, AtMostOne, NoFlag, AfterRead, AfterBle, AfterUsb
<1>5. FlagsAt' /\ ReadAt' /\ ProfileAt' /\ WrittenAt'
  BY <1>4 DEF IInv, TypeOK, ClearFlags, Put, FlagsAt, ReadAt, ProfileAt, WrittenAt, AtMostOne,
              NoFlag, Clean, Nvs, Setup, BleRequest, UsbRequest, WifiRequest
<1> QED BY <1>3, <1>5 DEF IInv

LEMMA ReadFlagsInv ==
  ASSUME IInv, ReadFlags
  PROVE  IInv'
<1>1. PICK image \in BOOLEAN :
        LET crash == rtc.armed /\ reset = "crash"
            valid == nvs.usb /\ nvs.app \in UsbTargets
            r == [ble |-> nvs.ble, usb |-> valid, wifi |-> nvs.wifi,
                  app |-> IF nvs.usb /\ ~valid THEN Menu ELSE nvs.app,
                  owed |-> nvs.restore, pend |-> FALSE, up |-> FALSE,
                  safe |-> crash /\ rtc.low, crashed |-> crash \/ image, capture |-> FALSE]
        IN  ram' = r /\ pc' = IF nvs.usb /\ ~valid THEN "badUsb" ELSE AfterRead(r)
  BY DEF ReadFlags
<1>2. /\ nvs \in Nvs /\ rtc \in Rtc /\ AtMostOne(nvs)
      /\ UNCHANGED <<nvs, rtc, reset, want, crashes>> /\ pc = "read"
  BY DEF IInv, TypeOK, FlagsAt, ReadFlags
<1>3. ram' \in Ram
  BY <1>1, <1>2 DEF Nvs, Rtc, Ram, Targets
<1>4. /\ ram'.ble = nvs.ble /\ ram'.wifi = nvs.wifi /\ ram'.owed = nvs.restore
      /\ ram'.usb = (nvs.usb /\ nvs.app \in UsbTargets)
      /\ ram'.usb => ram'.app = nvs.app
      /\ pc' = IF nvs.usb /\ ~ram'.usb THEN "badUsb" ELSE AfterRead(ram')
  BY <1>1, <1>2 DEF Nvs
<1>5. pc' \in Pcs
  BY <1>4 DEF AfterRead, AfterBle, AfterUsb, Pcs, Setup
<1>6. TypeOK'
  BY <1>2, <1>3, <1>5 DEF IInv, TypeOK
<1>7. FlagsAt' /\ ReadAt' /\ ProfileAt' /\ WrittenAt'
  BY <1>2, <1>4 DEF IInv, FlagsAt, ReadAt, ProfileAt, WrittenAt, AtMostOne, NoFlag, Clean, Nvs,
              AfterRead, AfterBle, AfterUsb, Setup, WifiRequest
<1> QED BY <1>6, <1>7 DEF IInv

LEMMA ChooseProfileInv ==
  ASSUME IInv, ChooseProfile
  PROVE  IInv'
<1>1. ram' \in Ram /\ pc' \in {"wifiNoBle", "report"}
      /\ ram'.ble = ram.ble /\ ram'.usb = ram.usb /\ ram'.wifi = ram.wifi
      /\ ram'.app = ram.app /\ ram'.owed = ram.owed
  BY DEF IInv, TypeOK, ChooseProfile, Ram, Exclusive
<1>2. pc' = "report" /\ nvs.saved => ram.wifi \/ Exclusive(ram)
  BY DEF ChooseProfile
<1> QED BY <1>1, <1>2 DEF IInv, TypeOK, ChooseProfile, FlagsAt, ReadAt, ProfileAt, WrittenAt, AtMostOne,
            NoFlag, Clean, Exclusive, Pcs, Setup, WifiRequest

LEMMA ReportCrashInv ==
  ASSUME IInv, ReportCrash
  PROVE  IInv'
<1>1. ram' \in Ram /\ rtc' \in Rtc /\ ram'.ble = ram.ble /\ ram'.usb = ram.usb /\ ram'.wifi = ram.wifi
      /\ ram'.app = ram.app /\ ram'.owed = ram.owed
  <2>1. PICK written \in BOOLEAN :
          IF ram.crashed /\ ~(written /\ ~ram.ble)
          THEN UNCHANGED <<ram, rtc>>
          ELSE /\ ram' = [ram EXCEPT !.crashed = FALSE, !.capture = TRUE]
               /\ rtc' = [armed |-> TRUE, low |-> FALSE]
    BY DEF ReportCrash
  <2>2. ram \in Ram /\ rtc \in Rtc
    BY DEF IInv, TypeOK
  <2>3. CASE UNCHANGED <<ram, rtc>>
    BY <2>2, <2>3
  <2>4. CASE /\ ram' = [ram EXCEPT !.crashed = FALSE, !.capture = TRUE]
             /\ rtc' = [armed |-> TRUE, low |-> FALSE]
    BY <2>2, <2>4 DEF Ram, Rtc
  <2> QED BY <2>1, <2>3, <2>4
<1> QED BY <1>1 DEF IInv, TypeOK, ReportCrash, FlagsAt, ReadAt, ProfileAt, WrittenAt, AtMostOne,
            NoFlag, Clean, Exclusive, Pcs, Setup, WifiRequest

LEMMA LoopInv ==
  ASSUME IInv, Loop
  PROVE  IInv'
<1> USE DEF FlagsAt, ReadAt, ProfileAt, WrittenAt, AtMostOne, NoFlag, Clean, Exclusive, Setup,
        BleRequest, UsbRequest, WifiRequest
\* Where a request starts, no flag is set.
<1>1. ASSUME NEW to \in {"bleOn", "usbNoBle", "wifiNoBle", "run"}, NEW r \in Ram, NEW w \in Want,
             r.ble = ram.ble, r.usb = ram.usb, r.wifi = ram.wifi, r.app = ram.app,
             r.owed = ram.owed, to = "run" => w = want, Request(to, r, w)
      PROVE  IInv'
  BY <1>1 DEF IInv, TypeOK, Request, Pcs
<1>2. CASE requestExclusiveBleBoot \/ requestWifiBoot
  BY <1>1, <1>2 DEF requestExclusiveBleBoot, requestWifiBoot, IInv, TypeOK
<1>3. CASE requestExclusiveUsbBoot
  <2>1. PICK a \in UsbTargets : Request("usbNoBle", ram, [app |-> a, restore |-> ram.up])
    BY <1>3 DEF requestExclusiveUsbBoot
  <2>2. ram \in Ram /\ [app |-> a, restore |-> ram.up] \in Want
    BY DEF IInv, TypeOK, Ram, Want, Targets
  <2> QED BY <1>1, <2>1, <2>2
<1>4. CASE LoopEnableDue
  <2>1. PICK r \in Ram : /\ r.ble = ram.ble /\ r.usb = ram.usb /\ r.wifi = ram.wifi
                         /\ r.app = ram.app /\ r.owed = ram.owed
                         /\ Request("run", r, want) \/ Request("wifiNoBle", r, want)
    BY <1>4 DEF LoopEnableDue, IInv, TypeOK, Ram
  <2> QED BY <1>1, <2>1 DEF IInv, TypeOK
<1>5. CASE SaveNetwork
  BY <1>5 DEF SaveNetwork, IInv, TypeOK, Nvs, Pcs
<1>6. CASE ClearNetworks
  BY <1>6 DEF ClearNetworks, IInv, TypeOK, Nvs, Pcs
<1>7. CASE updateCrashSnapshot
  BY <1>7 DEF updateCrashSnapshot, IInv, TypeOK, Rtc
<1> QED BY <1>2, <1>3, <1>4, <1>5, <1>6, <1>7 DEF Loop

LEMMA ResetInv ==
  ASSUME IInv, restartWithBlackScreen \/ Crash \/ PowerLoss
  PROVE  IInv'
<1>1. TypeOK'
  <2>1. TypeOK /\ MaxCrashes \in Nat /\ "read" \in Pcs
    BY TargetsAssumption DEF IInv, Pcs, Setup
  <2>2. CASE restartWithBlackScreen
    BY <2>1, <2>2 DEF TypeOK, restartWithBlackScreen
  <2>3. CASE Crash
    BY <2>1, <2>3 DEF TypeOK, Crash
  <2>4. CASE PowerLoss
    BY <2>1, <2>4 DEF TypeOK, PowerLoss, Rtc
  <2> QED BY <2>2, <2>3, <2>4
<1>2. FlagsAt' /\ ReadAt' /\ ProfileAt' /\ WrittenAt'
  BY DEF IInv, restartWithBlackScreen, Crash, PowerLoss, FlagsAt, ReadAt, ProfileAt, WrittenAt,
         Clean, WifiRequest
<1> QED BY <1>1, <1>2 DEF IInv

LEMMA NextInv == IInv /\ [Next]_vars => IInv'
<1> SUFFICES ASSUME IInv, [Next]_vars PROVE IInv'
  OBVIOUS
<1>1. CASE UNCHANGED vars
  BY <1>1 DEF vars, IInv, TypeOK, FlagsAt, ReadAt, ProfileAt, WrittenAt, AtMostOne, NoFlag, Exclusive
<1> QED BY <1>1, RequestWritesInv, ClearFlagsInv, ReadFlagsInv, ChooseProfileInv, ReportCrashInv,
           LoopInv, ResetInv DEF Next, Boot

\* The inductive invariant holds in every reachable state, whatever boots (setup), resets and
\* restart requests the device has been through.
THEOREM Invariance == Spec => []IInv
  BY InitInv, NextInv, PTL DEF Spec

\* Every reachable state of NVS, of the retained memory and of the globals is a legal one.
THEOREM TypeCorrect == Spec => []TypeOK
<1>1. IInv => TypeOK
  BY DEF IInv
<1> QED BY <1>1, Invariance, PTL

\* The profile flags are one-shot across any number of interrupted requests and boots.
THEOREM FlagsAreOneShot == Spec => []OneShot
<1>1. IInv => OneShot
  BY DEF IInv, FlagsAt, Clean, NoFlag, OneShot
<1> QED BY <1>1, Invariance, PTL

\* Two radio profiles are never booted together.
THEOREM ProfilesExclude == Spec => []OneProfile
<1>1. IInv => OneProfile
  BY DEF IInv, ReadAt, AtMostOne, OneProfile
<1> QED BY <1>1, Invariance, PTL

\* A completed requestExclusiveUsbBoot is what the next boot runs.
THEOREM UsbRequestArrives == Spec => []UsbRequestIsHonoured
<1>1. IInv => UsbRequestIsHonoured
  BY DEF IInv, WrittenAt, UsbRequestIsHonoured
<1> QED BY <1>1, Invariance, PTL

\* A saved network is only met by the loop of the Wi-Fi profile or of an isolated one.
THEOREM SavedNetworkProfile == Spec => []SavedNetworkHasProfile
<1>1. IInv => SavedNetworkHasProfile
  BY DEF IInv, ProfileAt, SavedNetworkHasProfile
<1> QED BY <1>1, Invariance, PTL
=============================================================================
