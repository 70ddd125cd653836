----------------------------- MODULE MapDownload -----------------------------
(***************************************************************************)
(* The map tiles on the SD card: the download of a region, the single tile    *)
(* transfer it shares with the map view, and what removes a tile              *)
(* (nextMapDownloadTile, queueTileDownload, beginTileDownload,                *)
(* processTileDownloadChunk, finishTileDownload of src/main.cpp).             *)
(*                                                                          *)
(* All of it runs in the Arduino loop (kUseTileDownloadTask is false), and an  *)
(* action is one call in it.  Camera, recorder and file server hold the lock   *)
(* of the card too: every attempt to take it may fail.                         *)
(***************************************************************************)
EXTENDS Naturals, FiniteSets

CONSTANT LastTile
ASSUME TilesAssumption == LastTile \in Nat \ {0}

\* The tiles in the order a download goes through them; a region is an interval of it.
Tiles == 1..LastTile

VARIABLES
  card,       \* what the card holds of each tile
  job,        \* mapDownload
  transfer,   \* the queued (tileDownloadQueued) or open (tileDownloadActive) tile
  suppressed, \* tileFailureHistory: failed less than 15 s ago
  wifi,       \* wifiEnabled, and WL_CONNECTED
  server,     \* the tile server (tileServerBase) and what comes from it
  hold,       \* what keeps downloads waiting: audio or input, USB storage, driving
  handled,    \* tiles the present download has counted
  foreign     \* transfers of an earlier download it has counted

environment == <<wifi, server, hold>>
vars == <<card, job, transfer, suppressed, wifi, server, hold, handled, foreign>>

Job == [active : BOOLEAN, first : Tiles, last : Tiles, next : Nat,
        done : Nat, verified : Nat, failed : Nat]
Transfer == [state : {"idle", "queued", "open"}, tile : Tiles,
             forJob : BOOLEAN,    \* queuedFromMapDownload
             own : BOOLEAN,       \* ... and of the present download
             sure : BOOLEAN]      \* was the card seen without the tile?

Total(j) == j.last + 1 - j.first
Region(j) == j.first..j.last

TypeOK ==
  /\ card \in [Tiles -> {"none", "good", "broken"}]
  /\ job \in Job /\ job.done <= Total(job) /\ job.next <= job.last + 1
  /\ transfer \in Transfer
  /\ suppressed \subseteq Tiles /\ handled \subseteq Tiles
  /\ wifi \in {"off", "trying", "connected"}
  /\ server \in {"none", "silent", "answers"}      \* none: no address, or no card
  /\ hold \in {"none", "focus", "usb", "driving"}
  /\ foreign \in Nat

-----------------------------------------------------------------------------
(* finishTileDownload: what becomes of the file, and of the counters. *)

\* The old file is removed, the new one renamed and looked at again; if any of it fails,
\* and after every failed transfer, both go, as far as the card can be locked.
Stored(t, ok, opened, content) ==
  LET kept == IF ok THEN {content, card[t], "none"} ELSE IF opened THEN {"none", card[t]} ELSE {card[t]}
  IN  [file : kept, success : {FALSE}] \cup (IF ok THEN {[file |-> content, success |-> TRUE]} ELSE {})

\* The counter is kept within the total; a download that reaches it has ended.
Counted(j, success) ==
  LET done == IF j.done < Total(j) THEN j.done + 1 ELSE j.done
  IN  [j EXCEPT !.done = done,
                !.verified = IF success THEN @ + 1 ELSE @,
                !.failed = IF success THEN @ ELSE @ + 1,
                !.active = @ /\ done < Total(j)]

\* The end of the transfer, with its files named (opened) or not yet; who gives way ends
\* the download too (stop).
Finish(ok, opened, content, stop) ==
  LET t == transfer.tile
  IN  \E s \in Stored(t, ok, opened, content) :
        /\ card' = [card EXCEPT ![t] = s.file]
        /\ suppressed' = IF s.success THEN suppressed ELSE suppressed \cup {t}
        /\ job' = [(IF transfer.forJob THEN Counted(job, s.success) ELSE job)
                     EXCEPT !.active = @ /\ ~stop]
        /\ handled' = IF transfer.own THEN handled \cup {t} ELSE handled
        /\ foreign' = IF transfer.forJob /\ ~transfer.own THEN foreign + 1 ELSE foreign
        /\ transfer' = [transfer EXCEPT !.state = "idle", !.forJob = FALSE, !.own = FALSE]

\* abortTileDownload.  A transfer that is only queued has named no file yet.
Abort(stop) == Finish(FALSE, transfer.state = "open", "none", stop)

-----------------------------------------------------------------------------
(* The download of a region. *)

Reachable == wifi = "connected" /\ server # "none"

\* queueTileDownload; not of a tile that may not be asked for, nor while another one is.
Queue(t, forJob, sure) ==
  IF t \in suppressed \/ transfer.state # "idle" \/ ~Reachable THEN transfer
  ELSE [state |-> "queued", tile |-> t, forJob |-> forJob, own |-> forJob, sure |-> sure]

\* Variant: a transfer of the last download counts for the new one.
startMapDownload_Adopts(first, last) ==
  /\ ~job.active /\ Reachable /\ first <= last
  /\ job' = [active |-> TRUE, first |-> first, last |-> last, next |-> first,
             done |-> 0, verified |-> 0, failed |-> 0]
  /\ UNCHANGED <<transfer, handled, card, suppressed, foreign>>
  /\ UNCHANGED environment

\* The user starts a download; a transfer of the last one may still run.
startMapDownload(first, last) ==
  /\ ~job.active /\ Reachable /\ first <= last
  /\ job' = [active |-> TRUE, first |-> first, last |-> last, next |-> first,
             done |-> 0, verified |-> 0, failed |-> 0]
  /\ transfer' = [transfer EXCEPT !.own = FALSE]
  /\ handled' = {} /\ foreign' = 0
  /\ UNCHANGED <<card, suppressed>> /\ UNCHANGED environment

stopMapDownload ==
  /\ job.active /\ job' = [job EXCEPT !.active = FALSE]
  /\ UNCHANGED <<card, transfer, suppressed, handled, foreign>> /\ UNCHANGED environment

\* Variant: the file is not looked for.
Present_Never(t) == {[file |-> FALSE, sure |-> TRUE]}

\* Is the file of the tile there?  With the card locked for 5 ms, and "no" if it cannot be.
Present(t) == {[file |-> card[t] # "none", sure |-> TRUE], [file |-> FALSE, sure |-> FALSE]}

\* Variant: the region ends one tile late.
Exhausted_Late(j) == j.next > j.last + 1

\* advanceMapDownloadZoom finds no zoom left.
Exhausted(j) == j.next > j.last

\* The guards of processMapDownload and of its call.
JobRuns == job.active /\ transfer.state = "idle" /\ Reachable /\ hold = "none"

\* Variant: a tile that may not be asked for yet keeps its turn.
JobStep_Waits ==
  /\ JobRuns /\ job.next <= job.last /\ Queue(job.next, TRUE, TRUE) # transfer
  /\ transfer' = Queue(job.next, TRUE, TRUE) /\ job' = [job EXCEPT !.next = @ + 1]
  /\ UNCHANGED <<card, suppressed, handled, foreign>> /\ UNCHANGED environment

\* processMapDownload, nextMapDownloadTile with the smallest scan budget, one tile.  A tile
\* that is there is counted; one that is not is queued, and passed over in any case.
JobStep ==
  /\ JobRuns
  /\ \/ /\ Exhausted(job) /\ job' = [job EXCEPT !.active = FALSE]
        /\ UNCHANGED <<transfer, handled>>
     \/ /\ ~Exhausted(job)
        /\ LET t == job.next
               passed == [job EXCEPT !.next = @ + 1]
           IN  \E present \in Present(t) :
                 IF present.file
                 THEN /\ job' = Counted(passed, TRUE) /\ handled' = handled \cup {t}
                      /\ UNCHANGED transfer
                 ELSE /\ job' = passed /\ transfer' = Queue(t, TRUE, present.sure)
                      /\ UNCHANGED handled
  /\ UNCHANGED <<card, suppressed, foreign>> /\ UNCHANGED environment

-----------------------------------------------------------------------------
(* The transfer of a tile. *)

\* processTileDownload, beginTileDownload; audio and the user's input come first.
beginTileDownload ==
  /\ transfer.state = "queued" /\ wifi # "off" /\ hold = "none"
  /\ \/ Finish(FALSE, FALSE, "none", FALSE)      \* no connection, no server, ensureDir
     \/ /\ Reachable
        /\ \/ Finish(FALSE, TRUE, "none", FALSE)  \* no answer, or not 200, or no file
           \/ /\ transfer' = [transfer EXCEPT !.state = "open"]
              /\ UNCHANGED <<card, job, suppressed, handled, foreign>>
  /\ UNCHANGED environment

\* processTileDownload, processTileDownloadChunk, the last one.  When the connection closes
\* and the length was not announced, what has come is taken for the whole tile.
processTileDownloadChunk ==
  /\ transfer.state = "open" /\ wifi # "off" /\ hold \notin {"usb", "driving"}
  /\ wifi = "connected" => server # "silent"
  /\ \/ wifi = "connected" /\ \E content \in {"good", "broken"} : Finish(TRUE, TRUE, content, FALSE)
     \/ Finish(FALSE, TRUE, "none", FALSE)
  /\ UNCHANGED environment

-----------------------------------------------------------------------------
(* The map view and the rest of the device. *)

\* Variant: the file is removed although a download runs.
Redrawable_Always == TRUE

Redrawable == ~job.active

\* A tile of the view cannot be drawn, be it missing, broken, or the memory short: its
\* file is removed first, and then asked for if that is possible.
DrawFails(t) ==
  /\ Redrawable
  /\ card' = [card EXCEPT ![t] = "none"] /\ transfer' = Queue(t, FALSE, TRUE)
  /\ UNCHANGED <<job, suppressed, handled, foreign>> /\ UNCHANGED environment

\* updateTaskManager while the vehicle moves.
DrivingAborts ==
  hold = "driving" /\ transfer.state # "idle" /\ Abort(FALSE) /\ UNCHANGED environment

\* Camera, games, the start of USB storage and Wi-Fi off end the transfer, and then the
\* download.
GiveWay ==
  /\ \/ transfer.state # "idle" /\ Abort(TRUE)
     \/ /\ transfer.state = "idle" /\ job.active /\ job' = [job EXCEPT !.active = FALSE]
        /\ UNCHANGED <<card, suppressed, handled, foreign, transfer>>
  /\ UNCHANGED environment

Changes ==
  /\ wifi' \in {"off", "trying", "connected"}
  /\ server' \in {"none", "silent", "answers"}
  /\ hold' \in {"none", "focus", "usb", "driving"}
  /\ UNCHANGED <<card, job, transfer, suppressed, handled, foreign>>

Expire(t) ==
  /\ t \in suppressed /\ suppressed' = suppressed \ {t}
  /\ UNCHANGED <<card, job, transfer, handled, foreign>> /\ UNCHANGED environment

Init ==
  /\ card \in [Tiles -> {"none", "good", "broken"}]
  /\ job = [active |-> FALSE, first |-> 1, last |-> 1, next |-> 1,
            done |-> 0, verified |-> 0, failed |-> 0]
  /\ transfer = [state |-> "idle", tile |-> 1, forJob |-> FALSE, own |-> FALSE, sure |-> FALSE]
  /\ suppressed = {} /\ wifi = "off" /\ server = "answers" /\ hold = "none"
  /\ handled = {} /\ foreign = 0

Next ==
  \/ \E first, last \in Tiles : startMapDownload(first, last)
  \/ stopMapDownload \/ JobStep
  \/ beginTileDownload \/ processTileDownloadChunk
  \/ \E t \in Tiles : DrawFails(t) \/ Expire(t)
  \/ DrivingAborts \/ GiveWay \/ Changes

Spec == Init /\ [][Next]_vars

\* The loop runs for ever.
FairSpec ==
  Spec /\ WF_vars(JobStep) /\ WF_vars(beginTileDownload) /\ WF_vars(processTileDownloadChunk)

-----------------------------------------------------------------------------
(* Properties. *)

\* A good tile is lost in two ways only: to a drawing that fails while no download runs,
\* and to a transfer of this very tile, asked for without a look at the card.
GoodTilesStay ==
  [][\A t \in Tiles : card[t] = "good" /\ card'[t] # "good" =>
       \/ ~job.active /\ DrawFails(t)
       \/ transfer.state # "idle" /\ transfer.tile = t /\ ~transfer.sure]_vars

\* The counters of a download add up.  They count tiles of its region, each once, and none
\* that was not seen or asked for; and at most one more, which the download before it had
\* in flight.
CountIsHandled ==
  /\ job.verified + job.failed = job.done
  /\ handled \subseteq Region(job) /\ foreign <= 1
  /\ job.done = Cardinality(handled) + foreign

\* While a download runs, the tiles it has verified are on the card, but for the one of the
\* download before it: neither a lock that fails nor the map view takes one away.
VerifiedIsOnCard ==
  job.active => job.verified <= Cardinality({t \in handled : card[t] # "none"}) + foreign

\* What downloads wait for.
Waits == wifi # "connected" \/ server # "answers" \/ hold # "none"

\* A download ends, unless there comes something for which the code waits: Wi-Fi, the card
\* or the tile server, audio, the user's input, USB storage, or the end of driving.
DownloadEnds == job.active ~> (~job.active \/ Waits)
=============================================================================
