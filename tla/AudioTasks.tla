------------------------------ MODULE AudioTasks ------------------------------
(***************************************************************************)
(* The sound recorder and the WAV player: audioRecorderTask and               *)
(* audioPlaybackTask, two FreeRTOS tasks, with the Arduino loop that starts   *)
(* and stops them and frees what they use (src/main.cpp).                     *)
(*                                                                          *)
(* The loop waits at most kAudioPlaybackStopWaitMs for the player and then    *)
(* goes on; it never waits for the recorder.  Each half of a pass of the     *)
(* loop is an input (keyboard and serial first, then touch) and               *)
(* updateTaskManager; updateSdrApps is in one half only.  Samples, volume     *)
(* and seeking are left out.                                                  *)
(***************************************************************************)
EXTENDS Naturals

CONSTANTS
  Files,       \* the recordings on the card
  None,        \* no file
  MaxChunks,   \* bound: chunks of a recording that is played
  MaxRecordings \* bound: recordings in a behaviour

ASSUME AudioAssumption == None \notin Files /\ MaxChunks \in Nat \ {0} /\ MaxRecordings \in Nat

VARIABLES
  at,          \* the part of the pass the loop is in
  wait,        \* what the loop does after the player it waits for, or "none", or "started"
  late,        \* has it given up that wait?
  visible,     \* the app in the foreground
  selected,    \* audioSelectedPath
  play,        \* the globals of the player, and its task
  rec,         \* the globals of the recorder, and its task
  disturbed,   \* was a stop given up, or the list read again, since the last close?
  recordings   \* counter of the bound

ui == <<visible, selected>>
vars == <<at, wait, late, visible, selected, play, rec, disturbed, recordings>>

Parts == {"input", "hide", "sdr"}
Apps == {"audio", "recorder", "other"}
Calls == {"leave", "select", "open", "record", "delete", "make room", "free", "hide", "finish"}

Player == [
  handle : BOOLEAN,             \* audioPlaybackTaskHandle
  stop : BOOLEAN,               \* audioPlaybackStopRequested
  playing : BOOLEAN,            \* audioPreviewPlaying
  pending : BOOLEAN,            \* audioPlaybackFinishedPending
  wav : Files \cup {None},      \* audioWavOpen, and what was opened
  file : BOOLEAN,               \* audioPlayFile
  cache : BOOLEAN,              \* audioCacheData
  buffer : BOOLEAN,             \* audioPlayBuf
  left : 0..MaxChunks,          \* audioWavDataLen - audioWavDataPos, in chunks
  from : {"cache", "file"},     \* where the present chunk comes from
  pc : {"gone", "top", "chunk", "closing", "report", "clear", "exit"}]

Recorder == [
  handle : BOOLEAN,             \* recorderTaskHandle
  running : BOOLEAN,            \* recorderRunning
  stop : BOOLEAN,               \* recorderStopRequested
  pending : BOOLEAN,            \* recorderFinishedPending
  error : BOOLEAN,              \* recorderErrorCode, while the task runs
  saved : BOOLEAN,              \* recorderSaved
  bytes : BOOLEAN,              \* has the task written anything?
  length : {"none", "zero", "true"},   \* the length in the header, until it is reported
  pc : {"gone", "start", "open", "run", "finish", "flags", "exit"}]

TypeOK ==
  /\ at \in Parts /\ wait \in Calls \cup {"none", "started"} /\ late \in BOOLEAN
  /\ visible \in Apps /\ selected \in Files \cup {None}
  /\ play \in Player /\ rec \in Recorder
  /\ disturbed \in BOOLEAN /\ recordings \in 0..MaxRecordings

-----------------------------------------------------------------------------
(* What the loop does to the player. *)

Following(part) == CASE part = "input" -> "hide" [] part = "hide" -> "sdr" [] part = "sdr" -> "input"

\* The second half of closeAudioPlayback: no player is left.
Closed(p) == [p EXCEPT !.playing = FALSE, !.stop = FALSE, !.pending = FALSE, !.wav = None,
                       !.file = FALSE, !.cache = FALSE, !.left = 0]

\* startAudioPlaybackTask, with or without memory for the task.  The task is there before
\* the loop says that it plays.
Start(p) ==
  LET fresh == [p EXCEPT !.stop = FALSE, !.pending = FALSE]
  IN  \/ play' = [fresh EXCEPT !.handle = TRUE, !.pc = "top"] /\ wait' = "started" /\ at' = at
      \/ play' = fresh /\ wait' = "none" /\ at' = Following(at)

\* The rest of openSelectedWav.  The cache takes the whole file, or the file stays open.
Loaded(p, n, cached) ==
  [p EXCEPT !.wav = selected, !.left = n, !.cache = cached, !.file = ~cached]

\* With the start of the task, unless a player is left or the file cannot be used.
Open(p) ==
  \/ play' = p /\ wait' = "none" /\ at' = Following(at)
  \/ ~p.handle /\ selected # None /\ \E n \in 0..MaxChunks, c \in BOOLEAN : Start(Loaded(p, n, c))

\* The list is read again, and its first file selected.
refreshAudioFileList == selected' \in IF Files = {} THEN {None} ELSE Files

\* The rest of startAudioRecorder, with or without memory for the task.
RecorderStarted(r) ==
  LET fresh == [r EXCEPT !.running = FALSE, !.stop = FALSE, !.pending = FALSE, !.saved = FALSE,
                         !.length = "none"]
  IN  {fresh, [fresh EXCEPT !.handle = TRUE, !.running = TRUE, !.pc = "start"]}

\* stopAudioRecorder.
Stopped(r) == IF r.running \/ r.handle THEN [r EXCEPT !.stop = TRUE, !.running = FALSE] ELSE r

\* Variant: a recorder that was left goes on.
HiddenStopped_Not(r) == r

\* The recorder, in stopHiddenAppWork.
HiddenStopped(r) == IF visible # "recorder" THEN Stopped(r) ELSE r

\* The play buffer goes to the heap.
Freed(p) == [p EXCEPT !.buffer = FALSE]

\* What follows closeAudioPlayback, which has left the player as p and the recorder as r.
\* resourceManagerPrepareForWifi calls it again if there is a buffer to free.
Then(call, p, r) ==
  /\ CASE call = "open" -> Open(p)
       [] call = "make room" /\ p.buffer /\ p.handle ->
            play' = [p EXCEPT !.stop = TRUE, !.playing = FALSE] /\ wait' = "free" /\ at' = at
       [] OTHER ->
            /\ play' = IF call = "free" THEN Freed(p)
                       ELSE IF call = "make room" /\ p.buffer THEN Freed(Closed(p)) ELSE p
            /\ wait' = "none" /\ at' = IF call = "finish" THEN at ELSE Following(at)
  /\ visible' = IF call = "leave" THEN "other" ELSE visible
  /\ rec' \in CASE call = "record" -> RecorderStarted(r)
                [] call = "hide" -> {HiddenStopped(r)}
                [] OTHER -> {r}
  /\ recordings' = IF call = "record" THEN recordings + 1 ELSE recordings
  /\ CASE call = "select" -> selected' \in Files
       [] call = "delete" -> refreshAudioFileList \/ selected' = selected
       [] OTHER -> selected' = selected
  /\ late' = FALSE

\* Variant: nobody waits for the player.
Close_NoWait(call, p, r) == disturbed' = FALSE /\ Then(call, Closed(p), r)

\* closeAudioPlayback, up to its wait for the player if there is one.
Close(call, p, r) ==
  IF p.handle
  THEN /\ play' = [p EXCEPT !.stop = TRUE, !.playing = FALSE] /\ rec' = r /\ wait' = call
       /\ UNCHANGED <<at, late, ui, disturbed, recordings>>
  ELSE disturbed' = FALSE /\ Then(call, Closed(p), r)

Waiting == wait \in Calls /\ ~late

\* The player has gone: the loop sees it.
PlayerStopped == Waiting /\ ~play.handle /\ disturbed' = FALSE /\ Then(wait, Closed(play), rec)

\* The wait is over with the player still there, which may yet leave.
StopGivenUp ==
  /\ Waiting /\ play.handle /\ late' = TRUE /\ disturbed' = TRUE
  /\ UNCHANGED <<at, wait, ui, play, rec, recordings>>

\* And the caller goes on.
GoOn == late /\ Then(wait, play, rec) /\ UNCHANGED disturbed

\* The end of startAudioPlaybackTask.
TaskStarted ==
  /\ wait = "started" /\ wait' = "none" /\ at' = Following(at)
  /\ play' = [play EXCEPT !.playing = TRUE]
  /\ UNCHANGED <<late, ui, rec, disturbed, recordings>>

-----------------------------------------------------------------------------
(* The parts of a pass. *)

Part(part) == wait = "none" /\ at = part
Input == Part("input")
Pass == at' = Following(at) /\ wait' = wait /\ late' = late

\* stopHiddenAppWork, in updateTaskManager.
StopHiddenWork ==
  /\ Part("hide")
  /\ IF visible # "audio" /\ play.wav # None THEN Close("hide", play, rec)
     ELSE Pass /\ rec' = HiddenStopped(rec) /\ UNCHANGED <<ui, play, disturbed, recordings>>

ReportsVisible == visible \in {"audio", "recorder"}

\* updateSdrApps: a player that has ended by itself is closed.
PlaybackFinished ==
  /\ Part("sdr") /\ ReportsVisible /\ play.pending
  /\ Close("finish", [play EXCEPT !.pending = FALSE], rec)

\* updateSdrApps: a recording that was saved is listed.
RecordingFinished ==
  /\ Part("sdr") /\ ReportsVisible /\ ~play.pending /\ rec.pending
  /\ rec' = [rec EXCEPT !.pending = FALSE, !.length = "none"] /\ Pass
  /\ IF rec.saved
     THEN refreshAudioFileList /\ disturbed' = (disturbed \/ play.wav # None)
     ELSE UNCHANGED <<selected, disturbed>>
  /\ UNCHANGED <<visible, play, recordings>>

\* Nothing pressed, or the half of the pass without updateSdrApps.
Nothing ==
  /\ Input \/ Part("sdr")
  /\ Pass /\ UNCHANGED <<ui, play, rec, disturbed, recordings>>

\* openApp.  Only the debug console goes from one app to another.
OpenApp(app) ==
  /\ Input /\ visible # app /\ visible # "audio" /\ visible' = app
  /\ IF app = "audio" THEN refreshAudioFileList /\ play' = [play EXCEPT !.playing = FALSE]
     ELSE UNCHANGED <<selected, play>>
  /\ Pass /\ UNCHANGED <<rec, disturbed, recordings>>

\* leaveCurrentAppToMenu; the navigation bar does not close the player.
LeaveApp ==
  /\ Input /\ visible # "other"
  /\ \/ visible = "audio" /\ Close("leave", play, rec)
     \/ visible' = "other" /\ Pass /\ UNCHANGED <<selected, play, rec, disturbed, recordings>>

\* Variant: the new file is selected while the old one plays on.
SelectFile_Only ==
  /\ Input /\ visible = "audio" /\ Files # {} /\ selected' \in Files
  /\ Pass /\ UNCHANGED <<visible, play, rec, disturbed, recordings>>

\* A line of the list.
SelectFile == Input /\ visible = "audio" /\ Files # {} /\ Close("select", play, rec)

\* PLAY, with no file open.
PressPlay ==
  Input /\ visible = "audio" /\ selected # None /\ play.wav = None /\ Close("open", play, rec)

\* PLAY and PAUSE, with one open.
PressPause ==
  /\ Input /\ visible = "audio" /\ selected # None /\ play.wav # None
  /\ LET p == [play EXCEPT !.playing = ~play.playing]
     IN  IF p.playing /\ ~p.handle THEN Start(p) /\ late' = late ELSE play' = p /\ Pass
  /\ UNCHANGED <<ui, rec, disturbed, recordings>>

PressDelete == Input /\ visible = "audio" /\ selected # None /\ Close("delete", play, rec)

\* The button of the recorder: it starts if neither flag nor task is there.
PressRecord ==
  /\ Input /\ visible = "recorder"
  /\ IF rec.running \/ rec.handle
     THEN rec' = Stopped(rec) /\ Pass /\ UNCHANGED <<ui, play, disturbed, recordings>>
     ELSE recordings < MaxRecordings /\ Close("record", play, rec)

\* resourceManagerPrepareForWifi: the same player may be closed twice.
MakeRoom ==
  /\ Input
  /\ \/ rec.running \/ play.playing
     \/ play.buffer
  /\ IF rec.running \/ play.playing THEN Close("make room", play, Stopped(rec))
     ELSE Close("free", play, rec)

\* prepareForDeployCamApp, on the way to that app.
OpenDeployCam == Input /\ visible = "other" /\ Close("free", play, Stopped(rec))

-----------------------------------------------------------------------------
(* audioPlaybackTask. *)

Plays(pc) == play.handle /\ play.pc = pc

\* Variant: the top of the loop only looks at the request to stop while it plays.
PlayerTop_Paused ==
  /\ Plays("top") /\ play.playing /\ play' = [play EXCEPT !.pc = "closing"]
  /\ UNCHANGED <<at, wait, late, ui, rec, disturbed, recordings>>

\* Variant: the end of the data is not looked for.
PlayerTop_NoEnd ==
  /\ Plays("top") /\ play.playing
  /\ play' = [play EXCEPT !.pc = "chunk", !.buffer = TRUE]
  /\ UNCHANGED <<at, wait, late, ui, rec, disturbed, recordings>>

\* The top of its loop.  A paused player stays there.
PlayerTop ==
  /\ Plays("top") /\ (play.stop \/ play.wav = None \/ play.playing)
  /\ LET over == [play EXCEPT !.pc = "closing"]
     IN  play' \in
       IF play.stop \/ play.wav = None \/ play.left = 0 \/ (~play.cache /\ ~play.file) THEN {over}
       ELSE {over,       \* no memory for the buffer
             [play EXCEPT !.pc = "chunk", !.buffer = TRUE,
                          !.from = IF play.cache THEN "cache" ELSE "file"]}
  /\ UNCHANGED <<at, wait, late, ui, rec, disturbed, recordings>>

\* A chunk is read and given to the speaker, which may refuse it.  A file is left for the
\* next time if the card cannot be locked within 50 ms.
PlayerChunk ==
  /\ Plays("chunk")
  /\ \/ play' = [play EXCEPT !.pc = "closing", !.from = "file"]
     \/ play' = [play EXCEPT !.pc = "top", !.from = "file", !.left = @ - 1]
     \/ play.from = "file" /\ play' = [play EXCEPT !.pc = "top"]
  /\ UNCHANGED <<at, wait, late, ui, rec, disturbed, recordings>>

\* Its end: the file, the report, the request to stop, the handle.
PlayerEnds ==
  /\ play.handle
  /\ play' \in CASE play.pc = "closing" -> {[play EXCEPT !.file = FALSE, !.playing = FALSE, !.pc = "report"]}
                 [] play.pc = "report" -> {[play EXCEPT !.pending = play.pending \/ ~play.stop, !.pc = "clear"]}
                 [] play.pc = "clear" -> {[play EXCEPT !.stop = FALSE, !.pc = "exit"]}
                 [] play.pc = "exit" -> {[play EXCEPT !.handle = FALSE, !.pc = "gone"]}
                 [] OTHER -> {}
  /\ UNCHANGED <<at, wait, late, ui, rec, disturbed, recordings>>

-----------------------------------------------------------------------------
(* audioRecorderTask. *)

Records(pc) == rec.handle /\ rec.pc = pc
Failed(r) == [r EXCEPT !.error = TRUE, !.running = FALSE]
UnchangedButRecorder == UNCHANGED <<at, wait, late, ui, play, disturbed, recordings>>

\* Memory and microphone, or the end without a file.
RecorderStarts ==
  /\ Records("start")
  /\ rec' \in {[rec EXCEPT !.pc = "open"], [Failed(rec) EXCEPT !.pending = TRUE, !.pc = "exit"]}
  /\ UnchangedButRecorder

\* The file, with a header of length zero, and the first two buffers.
RecorderOpens ==
  /\ Records("open")
  /\ \E n \in {"none", "zero"} :
       rec' \in {[Failed(rec) EXCEPT !.length = n, !.pc = "run"]} \cup
                (IF n = "zero" THEN {[rec EXCEPT !.length = n, !.pc = "run"]} ELSE {})
  /\ UnchangedButRecorder

\* One buffer, while neither flag says stop; microphone, lock or card may fail.
RecorderRuns ==
  /\ Records("run")
  /\ rec' \in IF rec.running /\ ~rec.stop
              THEN {[rec EXCEPT !.bytes = TRUE], [rec EXCEPT !.error = TRUE, !.pc = "finish"]}
              ELSE {[rec EXCEPT !.pc = "finish"]}
  /\ UnchangedButRecorder

\* The header gets its length if the SD card can be had within 500 ms.
RecorderCloses ==
  /\ Records("finish")
  /\ rec' \in {[rec EXCEPT !.pc = "flags"],
               [rec EXCEPT !.pc = "flags", !.length = IF @ = "none" THEN @ ELSE "true"]}
  /\ UnchangedButRecorder

\* Its last assignments before the handle.
RecorderReports ==
  /\ Records("flags")
  /\ rec' = [rec EXCEPT !.running = FALSE, !.stop = FALSE, !.pending = TRUE,
                        !.saved = rec.bytes /\ ~rec.error, !.pc = "exit"]
  /\ UnchangedButRecorder

RecorderExits ==
  /\ Records("exit")
  /\ rec' = [rec EXCEPT !.handle = FALSE, !.error = FALSE, !.bytes = FALSE, !.pc = "gone"]
  /\ UnchangedButRecorder

-----------------------------------------------------------------------------
Init ==
  /\ at = "input" /\ wait = "none" /\ late = FALSE /\ visible = "other" /\ selected = None
  /\ \E b \in BOOLEAN :
       play = [handle |-> FALSE, stop |-> FALSE, playing |-> FALSE, pending |-> FALSE, wav |-> None,
               file |-> FALSE, cache |-> FALSE, buffer |-> b, left |-> 0, from |-> "file",
               pc |-> "gone"]
  /\ rec = [handle |-> FALSE, running |-> FALSE, stop |-> FALSE, pending |-> FALSE, error |-> FALSE,
            saved |-> FALSE, bytes |-> FALSE, length |-> "none", pc |-> "gone"]
  /\ disturbed = FALSE /\ recordings = 0

Wait == PlayerStopped \/ StopGivenUp \/ GoOn \/ TaskStarted
Work == StopHiddenWork \/ PlaybackFinished \/ RecordingFinished \/ Nothing
Inputs ==
  \/ \E app \in {"audio", "recorder"} : OpenApp(app)
  \/ LeaveApp \/ SelectFile \/ PressPlay \/ PressPause \/ PressDelete \/ PressRecord
  \/ MakeRoom \/ OpenDeployCam
PlayerStep == PlayerTop \/ PlayerChunk \/ PlayerEnds
RecorderStep ==
  RecorderStarts \/ RecorderOpens \/ RecorderRuns \/ RecorderCloses \/ RecorderReports \/ RecorderExits

Next == Wait \/ Work \/ Inputs \/ PlayerStep \/ RecorderStep
Spec == Init /\ [][Next]_vars

\* The loop and both tasks are scheduled again and again.
FairSpec == Spec /\ WF_vars(Wait \/ Work) /\ WF_vars(PlayerStep) /\ WF_vars(RecorderStep)

-----------------------------------------------------------------------------
\* The player never reads a chunk from a cache that has been freed or a file that has been
\* closed: a call that goes on without it touches neither.
SourceHeld ==
  play.handle /\ play.pc = "chunk" => IF play.from = "cache" THEN play.cache ELSE play.file

\* The buffer it reads the chunk into is there as well.  (It is not: see the README.)
PlayBufferHeld == play.handle /\ play.pc = "chunk" => play.buffer

\* What is open for playing is what is selected, unless a stop was given up or a
\* recording that ended late made the list be read again.
SelectedIsPlayed == play.wav # None => play.wav = selected \/ disturbed

\* A player that nobody has asked to stop is never there together with a
\* recorder that nobody has asked to stop.
OneAtATime == ~(play.handle /\ ~play.stop /\ play.pc \in {"top", "chunk"}
                /\ rec.handle /\ rec.running)

\* Once neither app is in the foreground, both tasks end, unless one is opened.
HiddenTasksEnd == visible = "other" ~> (visible # "other" \/ (~play.handle /\ ~rec.handle))

\* A recording that is announced as SAVED has its length in the header.
SavedIsPlayable == rec.pending /\ rec.saved => rec.length = "true"
=============================================================================
