# Responder NAV firmware: verification project

TLA+ models of the parts of the firmware in which several threads, restarts, messages or
lists with moving indexes meet: the heap handoff between Wi-Fi and USB, the boot profiles,
the LoRa link with the MeshCore node on top of it, the Wi-Fi station, the download of map
tiles, and the recorder and player tasks. TLC checks small instances; the `_proofs` modules
prove every invariant and every safety property of a step that the runs check, for every
value of the constants.

## The system

The firmware runs on an ESP32-P4 (M5Stack Tab5) with an ESP32-C6 as hosted Wi-Fi/BLE radio
and a RAK3172 LoRa module on a UART. The Arduino loop runs the user interface and most
services; a few FreeRTOS tasks run beside it. Nearly all of it is `src/src/main.cpp`.

| Component | State | Operations | Meets |
|---|---|---|---|
| USB/Wi-Fi handoff | `wifiEnabled`, `wifiStackReady`, `wifiDisabledForSdr`, `wifiBootEnablePending`, `rtlSdrHostInstalled`, `rtlSdrHostStopRequested`, restore screens | start and stop of a USB session, suspend and restore of Wi-Fi, recovery, panic guard | loop, `rtlSdrHostTask`, `rtlSdrClientTask`, the station's association |
| UsbHostManager | `owner_`, `hostInstalled_` | `request`, `release`, `setInstalled` | every user of the USB port |
| Boot profiles | NVS flags `radio_ble`, `radio_usb`, `radio_wifi`, `usb_app`, `usb_w_restore`; retained crash snapshot | requests that write flags and restart, `setup()` | resets at any instant, saved networks |
| LoRa link | `loraConfigStep`, `loraConfigRetries`, `loraCommandPending`, `loraProbePending`, `loraP2pConfigured` | configuration, probe, reset, network selection | the module, the mesh node |
| MeshCore dispatcher | packet pool, queues, `outbound`, `txPending`, the ring of received packets, `meshPacketCount` | `Dispatcher::loop`, texts, requests, adverts, received lines, transmission reports | LoRa link |
| MeshCore contacts | `meshContacts`, `meshDiscovered`, the node's `contacts[]`, the indexes into them, the telemetry tag | add, import, delete, purge, chat, request and answer telemetry | flash, peers, the node |
| Wi-Fi station | saved networks and their copy in flash, scan, reconnect sequence | save, forget, scan, enable, disable, one attempt after the other | radio events, resets, the handoff |
| Map tiles | `mapDownload`, the queued or open tile, the files on the card | start, stop, step, begin, chunk, finish, draw | SD lock, server, Wi-Fi, driving |
| Audio | globals and buffers of the player and of the recorder | start, stop, close, report, free | two tasks, the loop, heap requests of others |
| Other workers | aircraft fetch, camera, RF Watch, Deploy Cam client | start, stop, task bodies | SD lock, Wi-Fi, USB session |
| File transfer | server, token, open file | HTTP requests | SD lock |
| Apps, drawing, games, notes | screen state | touch and key handlers | everything above, through their calls |

What makes it hard:

- Wi-Fi and the USB host cannot both have the DMA heap. The handoff is a protocol over
  globals that three threads read and write without a lock.
- Changing radios needs a restart; the request travels through several NVS writes.
- The LoRa module answers `OK` or `ERROR` and never says to what, and reports the end of a
  transmission without saying of which.
- Contacts and networks are array slots; other state remembers their indexes.
- The loop waits for tasks with a timeout, and then goes on as if they were gone.
- Almost everything has a timeout that can race the thing it waits for.

## Modules

| Module | Models | Checked by |
|---|---|---|
| `UsbLease` | what the sharing of the USB host promises | implemented by `UsbWifiHandoff` (`LeaseIsKept`) |
| `UsbWifiHandoff` | the handoff | `Handoff*.cfg` |
| `BootProfile` | requests, `setup()`, resets | `BootProfile.cfg`, `BootAfterCrash.cfg` |
| `LoraLink` | the AT dialogue | `LoraLink.cfg`, `LoraReady.cfg` |
| `MeshDispatcher` | the packet pool, the dispatcher and its radio object | `MeshDispatch.cfg` |
| `MeshContacts` | contacts, indexes, telemetry | `MeshContacts.cfg` |
| `WifiStation` | saved networks, scan, reconnection | `WifiStation.cfg` |
| `MapDownload` | the region download and the tiles on the card | `MapDownload.cfg` |
| `AudioTasks` | recorder task, playback task, and the loop | `AudioTasks.cfg` |
| `*_proofs` | the theorems of the module they are named after; those of `UsbWifiHandoff` include the refinement of `UsbLease` | tlapm |

`PROJECT.json` maps every definition to its lines. An operator whose name carries a suffix
(`Finished_NotTold`) is a faulty variant of the operator it is named after; it is not
used by the specification, and shows that a property would notice such a fault.

### UsbWifiHandoff and UsbLease

The globals are one record `s`, and each C++ function of the loop is an operator from
records to records, so the long call chains keep their order and early returns. The loop
is cut into the steps between which other threads matter (`lpc`: the top of `loop()`,
serial commands, task manager, recovery, the radio apps, restoration, touch, Wi-Fi
service). Statements of one such step are not interleaved with the two tasks, except
`ensureRtlSdrHost` in the client, which computes and claims an owner in two steps
(`ClientClaim`, `ClientRequest`). `HostStop` to `HostExit` are the phases of the host
task's shutdown. `HostWait` may give up on a client if `ClientMayStall`. `wl` is
`WiFi.status()`: only `WiFi.begin` starts an association, which may come up and drop again.
`memOk` is whether the heaps are above the thresholds, and changes freely. `MayFail` covers a
host that cannot be started (heap, PHY, root power, task) and an uninstall that fails with
the client gone, because a device was not freed in 3 s.

`Openable` lists the screens the user opens: `rf` stands for RF Scan and Drone, `air` for
Airplanes and Ghost Box, `car` for the ELM327 scanner, `usb` and `wifi` for the two
utility screens.

`UsbLease` is the abstract specification of the port: one owner at a time, who only comes in
when there is none (a recovery excepted), a host that is only installed for an owner, a
client that only lives under a host, and an uninstall that leaves neither owner nor client.
`UsbWifiHandoff` implements it with `owner <- s.owner`, `client <- s.client # "none"` and
`installed <- s.inst \/ s.minst`: the host is there as long as either the flag of the tasks
or that of the manager says so, because the host task clears them one after the other.

### BootProfile

Every `Preferences::put*` is a committed write and a step of its own. `Crash` (the reset
reasons `isCrashResetReason` accepts; retained memory survives) and `PowerLoss` may hit
between any two of them. `want` remembers the arguments of the last request that was begun.

### LoraLink

`asked` is the queue of the commands the module has not answered. The module acts on a
command when its answer is read; `LoseLine` loses the command or its answer.
`Refuses` answers `AT_BUSY_ERROR`, always while a transmission is on the air. `MayStall`
lets the 7 s deadline fire with an answer waiting, because `pollLoraPortA` checks it before
it reads the port. `undisturbed` is a history variable: it is true as long as the last
configuration was begun on a quiet link and no probe, changed selection or overtaken
answer has come between. `Room` bounds the wire.

### MeshDispatcher

Everything runs in the loop, so an action is one line of the module, one pass of
`tab5MeshCoreLoop`, or one thing the user sends. The node is one record `g`; the functions
of `Dispatcher`, of the pool and of the radio object are operators on it, and those in which
the time or the signal decides return the set of outcomes (a weak flood packet waits in the
inbound queue or not, the airtime budget is left or not). A message is what tells two
handlings apart: heard on the public channel, to this node, a request that the node answers by
itself with a path (`Asking`), an advert that it only records (`Adverts`), or none of these; or
one of the five kinds the node sends. `owed` counts the transmissions the module has not reported, `stray`
remembers that one of them had been given up or was sent past the dispatcher (the raw `PSEND`
of an empty pool), `odd` collects the messages that were heard again, came to a full
history, or were not handled in the call that brought them. The link of `LoraLink` is
one of three values that change freely.

### MeshContacts

Contacts are identities, lists are sequences, and a reference is an index together with the
contact it was set for (`who`), which a deletion behind its back sets to `None`: so the
model sees what the code cannot, whether an index still means what was chosen. `node` is
the table of the MeshCore library, which `sendDirect` adds to without looking. Every key
stands for an identity exchanged by advert; `Manual` contacts have none. `Reset` loads the
flash, `ResetDuringDelete` a half-written one.

### WifiStation

A password is represented by the network it is for, so that a slot torn by a reset can hold
one network's name with another's password. Every key of `storeNetwork` and
`clearSavedNetworks` may be the last one written. The driver may announce the end of a
scan that was stopped (`late`). `cut` and `skipped` are history variables: an attempt was
ended by a scan, a disconnection or a forgotten network before its 8 s had passed.

### MapDownload

A region is an interval of tile numbers; the order of the loops over zoom, x and y is the
order of the numbers. A tile on the card is missing, good or broken (a body cut short but
taken for whole, as it is if its length was not announced). Each attempt to lock the card
may fail: one before a transfer is asked for leaves `sure` false, as the card was not looked
at. `own` tells a transfer of the present job from one the last job has left behind, and
`foreign` counts those of the latter that the present job has counted. `hold` is what keeps
downloads waiting beside Wi-Fi and the server: audio or recent input, USB storage, driving.
`server = "none"` stands for a missing address or card.

### AudioTasks

Three threads: the loop, the player and the recorder. The loop is cut where it waits for the
player (`wait`): `PlayerStopped` if the task is gone in time, `StopGivenUp` if it is not; what
the caller then does (`GoOn`) is a step of its own, because the player may leave in between
(`late`). Between the creation of the task and the flag that says it plays (`TaskStarted`)
the task may run too. A lock of the card that is not obtained in 50 ms leaves a chunk unread.
A pass is an input, `updateTaskManager` and `updateSdrApps`; the tasks run between any two
of these, and their last assignments (file, report, request, handle) are a step each.

## Runs

| Run | Question | Bounds |
|---|---|---|
| `handoff_safety` | do exits, recoveries, failing installations and a stalled client keep the host, its client and Wi-Fi consistent, and the lease? | RF Scan, Car Scanner, USB screen; every call may fail |
| `handoff_live` | does a shutdown complete, the restore screen end, the exit of a USB-exclusive boot restart? | RF Scan, Car Scanner; no failure, client answers within 2 s |
| `handoff_lent` | *violated*: does lent Wi-Fi come back? | RF Scan, USB screen; timeouts as a last resort |
| `boot_profile` | do interrupted requests and boots keep the flags one-shot, and does `setup()` end? | two apps, two resets |
| `boot_after_crash` | *violated*: is the automatic enable blocked after a low-DMA crash? | one app, one reset |
| `lora_link` | are anonymous answers given to the right step, and does a configuration end? | 4 steps, 2 of them settings, 2 networks, 3 unanswered commands |
| `lora_ready` | *violated*: is a radio declared ready on the network it names? | the real 10 steps, nothing lost, refused or late |
| `mesh_dispatch` | is no packet lost or given back twice, and every direct message shown? | pool of 2, ring of 1, history of 2, one send, two receptions |
| `mesh_contacts` | does an index mean the contact it was set for, and are answers filed under the sender? | 2 keys, 1 typed contact, lists of 2, 1 and 2, two requests, 6 inputs |
| `wifi_station` | does every saved network get its turn, and is one in range joined? | 3 networks, 2 slots, 4 inputs, 2 torn writes |
| `map_download` | do the counters count the region's tiles, what can lose a good tile, does a download end? | two tiles, four regions of them |
| `audio_tasks` | is no cache or file taken from under the player, and does no task go on in a hidden app? | two files, one chunk, one recording |

The bounds. In the handoff nothing is counted: state is finite, and only the number of
screens is limited. Three screens give every owner that can meet RF Scan's; the liveness run
uses one screen for each of the two ways out. The handoff's client and host task are
single instances in the code too. Two resets let a reset hit a boot that is itself the
recovery from an interrupted request; a third meets the same half-written flags again. In
`lora_link` two settings are enough for a mix, a first step without a setting and a last
one without keep the ends of the dialogue distinct from its middle, and three unanswered
commands are a step's, the answer it overtakes and one more. In `mesh_dispatch` a
pool of two has room for a packet on the air and one more, so that a third finds it empty,
and a ring of one and a history of two are filled by the messages of the run. In
`mesh_contacts` a list of two is the smallest in which a deletion moves an index, and the
list of discovered contacts is shorter than the saved one, as it can be. In `wifi_station`
a third network overwrites the first slot; two torn writes are what the exception of
`ForgottenIsGone` needs to be reached. Two tiles are the least with an order; one region is
then a proper part of another. In `audio_tasks` a second file tells the open one from the
selected one, and a recording of any length has the same phases. Where the proofs apply
they remove these bounds for the invariants.

### Fairness

- Handoff: weak fairness of the loop, of the two tasks, of an association that has begun
  (it comes up or gives up), of a restart, and of the passing of time (the transition hold
  and the toggle cooldown). FreeRTOS runs the loop and the tasks for ever and both tasks
  block with timeouts only. The timeouts of the exclusive exit and of the restore screen are
  strongly fair: `loop()` returns to both checks on every pass, and the clock only advances.
  Nothing the user does is fair, and no association is promised to succeed.
- Boot: weak fairness of the code that writes flags and of `setup()`. Resets are not fair.
- LoRa: the loop polls the port (weak fairness of reading an answer or losing it), a
  transmission ends, and strong fairness of the deadline: time passes, and only the bound
  on the wire ever disables an expired deadline.
- Mesh: weak fairness of the node's pass and of time (scheduled packets, airtime,
  budget). The module owes no report, and the link no return. In `mesh_contacts` the pass of
  `tab5MeshCoreLoop` is fair; no peer has to answer.
- Wi-Fi: weak fairness of the parts of the loop and of the association of a network in range
  with the right password. That the network stays in range is a premise of the property.
- Maps: weak fairness of the job step, of opening and of reading. Their guards are those of
  the code, so what the code waits for without end stays open: Wi-Fi, the card, the
  server, audio, the user's input, USB storage and driving. `Waits` names them, and
  `DownloadEnds` claims an end only while none of them comes. The cooldown and the interval of
  the background steps pass by themselves.
- Audio: weak fairness of the loop and of each task: FreeRTOS schedules all three.

### Properties worth a word

- `LeaseIsKept`: the refinement. Its hardest step is the uninstall: the host task gives the
  client up after 2 s, a client that is still registered makes `usb_host_uninstall` fail, and
  the loop may install again at any point of the shutdown; still no client is left without a
  host, nor an owner after an uninstall.
- `StopIsKept`: no interleaving of openings, exits and recoveries takes a shutdown request
  back while one of the two tasks still has to see it.
- `NoReclaim`: under the restore screen no app installs the host again, neither in the
  rest of the pass that raised it nor later. It excepts a second input in the same pass
  (a serial command, then a touch): `openApp` does not look at the screen, and the Car
  Scanner installs the host from it.
- `LoanIsKept`: the record that Wi-Fi is to be given back is only dropped by giving it
  back, by a session that starts over, or after an aborted radio start. The second case is a
  defect (`handoff_lent`): the new session does not take the record over. The third is the
  ninth disagreement below.
- `ModalUntilConnected`: whatever path of `loop()` closes the restore screen, it goes only with
  `WL_CONNECTED` or for a restart, never because an enable was merely accepted.
- `UsbRequestIsHonoured`: a request whose writes all happened is what boots, whatever
  earlier requests were torn.
- `AnswersMatch`, `RadioHoldsNetwork`: with any losses and refusals, the only thing an
  undisturbed configuration can be answered is its own step, and when it declares the radio
  ready the module holds every setting of the selected network.
- `ConfigurationEnds`: a configuration whose command is out ends. The exception `~pending`
  is real: a transmission event clears the flag, and then a lost answer stops the deadline.
- `OutboundIsOnAir`: dispatcher and radio object each have a notion of "a packet is on the
  air", kept by different code with different timeouts. They agree in every state.
- `ReportIsOurs`: reports carry no name. Until a transmission has been given up after its
  timeout, or sent past the dispatcher, a report can only be about the packet outbound;
  afterwards it may end the wrong one, and pool and radio still agree.
- `ShownOnce`: the two decoders, the node's and the fallback of the line handler, share
  nothing but a counter. The exceptions (`odd`) are the cases in which that fails.
- `IndexMeansContact`, `FiledUnderSender`: what an index denotes when lists move, and that
  an answer of a saved contact is never recorded under another one.
- `AnswerCanBeRead`: as long as the node's table has not overwritten it, a contact that was
  asked is in that table, so its answer can be decrypted.
- `SequenceTriesAll`: the sequence after enabling Wi-Fi gives every saved network its 8 s,
  whichever slot it starts with, unless a scan or the user cut one off (`skipped`).
- `ForgottenIsGone`: one reset in the middle of any write never brings a forgotten network
  back; two can (a count written by a torn save over names left by a torn clear).
- `CountIsHandled`, `VerifiedIsOnCard`: the numbers on the screen are those of distinct tiles
  of the region, and what they call verified is there, whatever locks fail, up to one tile: the
  one an earlier job had in flight is counted in the new one, and no second one can be.
- `GoodTilesStay`: a good tile is lost in two ways, and the code has both. The map view removes
  a tile it could not draw, while no download runs; and an existence check that does not
  get the lock of the card asks for a tile that is there, whose file goes when the transfer
  fails. Nothing else loses one.
- `SourceHeld`: callers of `closeAudioPlayback` go on after 500 ms with the player still
  inside a chunk, and still no cache or file it reads from is taken away. The play
  buffer, which it reads into, is (the tenth disagreement below).
- `SelectedIsPlayed`: what plays is what is selected, unless a stop was given up or a late
  recording made the list be read again (`disturbed`).

## Disagreements found

With a run that shows them:

1. `handoff_lent`: `suspendWifiForSdr` clears `wifiDisabledForSdr` first and sets it only if
   Wi-Fi is on. A session started before the deferred restoration loses it.
2. `boot_after_crash`: with a saved network, `setup()` restarts into the Wi-Fi profile before
   it reaches the branch that blocks the automatic enable after a low-DMA crash.
3. `lora_ready`: moving the network selection during a configuration mixes two networks in
   the module, and "RADIO READY" names the second.

Stated in the modules, not met by the code, and not part of the runs (the constants that
show it in brackets):

4. `HealthyExitReconnects` of `UsbWifiHandoff` (`Openable = {"rf"}`, `Prompt = TRUE`, the other
   switches `FALSE`): `main.cpp:3354` says healthy exits of RF Scan reconnect in place. Under
   the restore screen `loop()` returns (35734) before the code that starts an association,
   so every exit waits 12 s and restarts.
5. `ExclusiveExitRestores` of `UsbWifiHandoff` (`Openable = {"air", "car"}`, all switches
   `FALSE`): the screen says "WI-FI WILL RESUME ON EXIT" (26224), but the navigation bar sets
   `usbExclusiveWifiRestorePending` only for the Car Scanner (32662-32684). Leaving Airplanes
   or Ghost Box with it does not restore Wi-Fi.
6. `EchoIsNotShown` of `MeshDispatcher` (one public message, ring of 4, history of 16): own
   messages are marked as sent "in case it is rebroadcast back to us" (`Mesh.cpp:636`). The
   node ignores the echo, `meshPacketCount` stays, and the line handler (15966, 16416) takes
   that for "not decoded" and shows the user's own text as received.
7. `SelectionIsUsers` of `MeshContacts` (the constants of `MeshContacts.cfg`): the contact
   highlighted is the one ENTER and DELETE act on (footer, 24615). An advert heard in the
   background clamps the cursor to the length of the other list (14677-14679).
8. `SavedIsPlayable` of `AudioTasks` (the constants of `AudioTasks.cfg`): a recording is
   announced as "SAVED" (33643) although the lock for its header was not obtained (22202),
   and its length is zero.
9. `LoanIsKept` of `UsbWifiHandoff` without its exception `s.crash` (`Openable` with `"wifi"`,
   `MayFail = TRUE`): the log says "auto restore blocked after low-DMA hosted crash; enable
   manually" (3376). Only `setup()` clears `wifiCrashSafeMode` (3371), so Wi-Fi the user has enabled
   by hand since is not given back either after the next USB session.
10. `PlayBufferHeld` of `AudioTasks` (the constants of `AudioTasks.cfg`): `closeAudioPlayback`
   gives up after 500 ms with the status "STOPPING" (22374-22377). Its callers
   `resourceManagerPrepareForWifi` (4250-4256, which logs "stopped audio recorder/player" and
   "released audio play buffer") and `prepareForDeployCamApp` (12270-12275) go on and free
   `audioPlayBuf`, which `queueAudioPlaybackChunk` (22557-22584) then still reads into and
   plays from, through a pointer of its own: freed memory is used.

## Proofs

`tlapm` checks eight modules. Each defines an inductive invariant, shows that the initial
states have it and that every step keeps it (one lemma per action, or per group of actions
that touch the same state, with a step for each part of the invariant the action can
disturb), and derives the properties from it. The only assumptions are the named `ASSUME`s of
the modules on their constants, which TLC evaluates in every run: the results hold for every
set of apps, files, networks and identities, every pool, ring, history and list size, any
number of settings, tiles and resets, and with every switch of the environment on or off.

- `UsbWifiHandoff_proofs` has four parts.
  - The invariant: `TypeOK`, `ClientWithinHost`, `WifiOverHostIsTeardown`,
    `RadioOffInUsbProfile`. None of them is inductive: the second needs to know that the host
    task only reaches `drain` with the stop flag up and clears the installed flag before it
    reports; the third that a host is installed only after the radio has been suspended, and
    that an enable that finds one has released it. `IInv` adds exactly what each phase of the
    host task says about `inst`, `minst`, `stop` and `client`. The loop's operators are shown
    to keep the invariant's part about the record (`Good`) one by one, so that an action that
    calls three of them needs only their lemmas.
  - The refinement `LeaseIsKept`, and `StopIsKept`. Of a step of the loop only three things
    matter to the lease: it leaves the host alone and at most gives the owner up (`Drops`), it
    brings an owner in through `ensureRtlSdrHost` (`Takes`), or a recovery takes over (`Over`).
    Each operator of the loop is shown to be of one of these kinds, the kinds are closed under
    composition, and each maps to a step of `UsbLease`. What `IInv` says of the host task's
    phases turns its uninstall and its report into `Uninstall` and a stutter; the invariant is
    strengthened by "the manager's flag is set while that of the tasks is".
  - `LoanIsKept` and `ModalUntilConnected`. Nearly all operators leave both the record and the
    screen alone (`Calm`). The record is dropped in the middle of a step of the loop, by
    `restoreWifiAfterSdr` or `ensureRtlSdrHost`; what the step does before (`Eased`) and after
    (`Quiet`) cannot turn a permitted drop into a forbidden one.
  - `NoReclaim`. The screen goes up over a menu with no request and no owner (`Cleared`), and
    the rest of the pass keeps that (`Parked`), with one exception: the client task may still
    claim the port for a recovery, but then the host is installed or its uninstall is under
    way (`Waiting`), so the recovery code has nothing to install.
- `BootProfile_proofs`: `TypeOK`, `OneShot`, `OneProfile`, `UsbRequestIsHonoured`,
  `SavedNetworkHasProfile`. The invariant says, for each point between two writes to the
  store, which of the flags may be set and what they say; resets may come between any two
  writes, any number of times.
- `LoraLink_proofs`: `TypeOK`, `ConfiguringIsNotReady`, `AnswersMatch`,
  `RadioHoldsNetwork`. In an undisturbed configuration the settings of the steps passed are
  in the module, and the two wires together hold at most the command of the current step or
  its answer; that no answer is credited to another step and that a ready radio holds the
  network follow.
- `MeshDispatcher_proofs`: `TypeOK`, `PoolConserved`, `OutboundIsOnAir`, `ReportIsOurs`,
  `ShownOnce`. The pool argument is about sets of packets that are pairwise apart (free,
  queued, outbound, under construction); the next two relate the dispatcher's outbound packet,
  the wrapper's transmit flag and the reports still in the wire. `ShownOnce` has an invariant
  of its own, `HInv`: what waits in the ring or the inbound queue is already `odd`. So a later
  pass of the node only shows messages the property excepts, and the call that brings a
  message shows it once: if the node did, its record makes the counter grow (`Once`), and the
  line handler, which shows what the counter does not account for, stays silent.
- `MeshContacts_proofs`: `TypeOK`, `IndexMeansContact`, `FiledUnderSender`, `AnswerCanBeRead`,
  `ContactsAreUnique`. The invariant says that every remembered index with a contact still
  behind it points at that contact. Lists only grow at their end, and a deletion moves the
  ones behind what it removes: lemmas about `RemoveAt` and `Without` say where each entry goes
  (by the number of kept entries up to it) and that those in front of the first removed one
  stay. That a contact is not in the list twice is what lets a lookup by key find the contact
  an answer came from. `Without` is a definition of the model's own because the library's
  `SelectSeq`, which it equals, cannot be opened by the prover.
- `WifiStation_proofs`: `TypeOK`, `AttemptIsOwn`, `ForgottenIsGone`, `SequenceTriesAll`. For
  `ForgottenIsGone`, which speaks of at most one torn write, the list is always what its copy in
  flash says (`Flashed`), and until a write was torn no key of that copy, used or left over,
  names a forgotten network (`Clean`).
  For `SequenceTriesAll`, the slots that have had their turn are the last ones before the next,
  in circular order, and they are no fewer than the attempts made (`Circled`); after as many
  attempts as there are slots that is all of them.
  The search for the next slot is by the least distance that qualifies, which exists by the
  well-foundedness of the naturals.
- `MapDownload_proofs`: `TypeOK`, `CountIsHandled`, `VerifiedIsOnCard`, `GoodTilesStay`. The
  counters are the cardinality of the set of handled tiles, all of which the job has passed,
  plus the transfers of an earlier job (`Sums`). A transfer of the present job is of
  a tile passed and not yet handled, and one left behind by an earlier job is there only while
  none was counted (`Owned`), so that each end of a transfer adds exactly one tile or makes
  `foreign` one; a job that has one to count is not complete (`Unfinished`). A good tile is only replaced by a transfer,
  and a transfer that was asked for after a look at the card (`sure`) is of a tile that is not
  there (`Missing`).
- `AudioTasks_proofs`: `TypeOK`, `SourceHeld`, `SelectedIsPlayed`, `OneAtATime`. For every
  point of either task the invariant says which handle, file and flags go with it
  (`PlayerFits`, `RecorderFits`). As long as the loop is inside a call that waits for the
  player, the request to stop stands or the player is past all it uses (`Asked`), and the
  call was made from a state that allows it (`CalledFrom`). After a
  wait was given up the callers touch neither cache nor file, unless they find the player gone
  when they look again. Nothing is proved of the play buffer.

Proved and not run, because no deeper question of the runs rests on them: `TypeOK`,
`ClientWithinHost` and `RadioOffInUsbProfile` of the handoff, `TypeOK`, `OneProfile` and
`SavedNetworkHasProfile` of the boot, `TypeOK` and `ConfiguringIsNotReady` of the link, `TypeOK`
of the dispatcher, and `ContactsAreUnique`.

The theorems reach further than the runs: `handoff_safety` has three of the six screens (1.1
million states), and the proofs also cover the Wi-Fi screen, `air`, and all of them together.

Model-checked only: the liveness properties (`StopCompletes`, `ModalEnds`,
`ExclusiveExitEnds`, `SetupEnds`, `ConfigurationEnds`, `DirectIsShown`, `ReciprocalEnds`,
`ReachableIsJoined`, `DownloadEnds`, `HiddenTasksEnd`). Liveness under fairness and `ENABLED`
are out of the prover's reach, and so is induction over data (what a recursive definition
computes for every input); no model contains a recursive operator.

## Not modelled

The components PROJECT.json lists as `not_modelled`, with the reasons there: drawing, layout
and the small apps (sequential code over globals that nothing else writes), the app registry,
the file transfer server (a blocking loop with no state that outlives a request), the Deploy
Cam firmware (another device), link-time wrappers, and vendored drivers. These last and the
drawing code are most of the 70 000 lines of the repository; the share of lines that the
models stand for is small for that reason.

Inside the parts that are modelled:

- the contents of packets, settings, reports, tiles and recordings, except for the one bit
  or name that a decision depends on; samples, volume, seeking and the waveform cache;
- the receiver's bulk transfers and the ELM327 dialogue (the client task is "busy" while
  they run), and the Deploy Cam branch of the panic guard;
- in the handoff: the owner forced by the debug console (`usbDebugForcedOwner`, 3239-3244),
  which allows the host outside its screens, and the flags that ask for a stream again
  after a dropped cable (`rtlSdr*ResumeAfterUsbDrop`, 8350-8365);
- in the dispatcher: a packet that cannot be parsed, and acknowledgements sent directly; a
  reciprocal request and an automatic advert in one pass are allowed, which the code does not do;
- in the contacts: a contact is written at once, not key by key, and the map's focus and
  navigation target, two more indexes, which a deletion resets if they are of the deleted
  contact or out of range and leaves alone otherwise (15164-15169), are left out;
- in the station: taking the radio away also clears the transition flag on the paths that leave
  it to `updateWifiTransition`;
- per-chat histories and location sharing on top of the mesh; the map's tile cache in
  memory;
- real time. A timeout may fire whenever the code would look at it, except where the constant
  `Prompt` makes it the last thing to happen. Bounds of the kind "within 7 s" are not claims
  of this project.

The models do not share variables. Where components meet, the one is reduced to what the
other sees of it: the initial states of `UsbWifiHandoff` are the ways `BootProfile` can end;
`MeshDispatcher` sees the link as ready, busy or lost; the handoff sees an association as
idle, trying or up, and `WifiStation` the radio as on or off.

## What could follow

In the order in which they would add most:

1. The aircraft worker with `mergeAircraftRecords`, whose mutex is created on first use, and
   the camera and Deploy Cam clients: tasks with a request flag, a result under a lock, and a
   radio that may leave during a request.
2. The state `UsbHostManager` shows to the user (`validTransition`, error counters).
3. A model of `WifiStation` and the handoff together: the reconnect sequence of the one runs
   under the restore screen of the other, which both reduce to a single variable now.
4. Proofs of the safety half of the liveness arguments: that each step of a shutdown, a
   configuration or a download brings it nearer its end.
