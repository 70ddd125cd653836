-------------------------- MODULE AudioTasks_proofs --------------------------
(***************************************************************************)
(* The recorder and the player against the loop that frees what they use,  *)
(* for any files, any length of a recording and any number of recordings.  *)
(*                                                                         *)
(* The loop waits for the player by asking it to stop, and what goes on     *)
(* after a wait that was given up leaves cache and file alone.  (Not the     *)
(* play buffer: no theorem here speaks of it.)  Only stopHiddenAppWork,     *)
(* which every pass of the loop comes through, keeps recorder and player    *)
(* to their own app.                                                        *)
(***************************************************************************)
EXTENDS AudioTasks, TLAPS

\* A player has its handle as long as it runs, and in a chunk what the chunk needs.
PlayerFits(p) ==
  /\ p.handle <=> p.pc # "gone"
  /\ p.pc = "chunk" => /\ p.left # 0
                       /\ p.from = "cache" => p.cache
                       /\ p.from = "file" => p.file

RecorderFits(r) == r.handle <=> r.pc # "gone"

\* Whoever is there has been asked to stop, or has nothing left to do but to leave.
Asked(p) == p.handle => p.stop \/ p.pc = "exit"

\* Where in a pass the loop closes the player, and for what.
CalledFrom(call) ==
  /\ at = CASE call = "hide" -> "hide" [] call = "finish" -> "sdr" [] OTHER -> "input"
  /\ call = "open" => visible = "audio"
  /\ call = "record" => recordings < MaxRecordings

\* A recorder outside its app is stopped in this pass, and so is a player.
RecorderAtHome(r) == r.running => visible = "recorder" \/ at = "hide"
PlayerAtHome == visible = "audio" \/ at = "hide" \/ play.wav = None \/ disturbed

IInv ==
  /\ TypeOK /\ PlayerFits(play) /\ RecorderFits(rec)
  /\ wait \in Calls => Asked(play) /\ CalledFrom(wait)
  /\ wait = "started" => at = "input" /\ visible = "audio"
  /\ late => wait \in Calls /\ disturbed
  /\ RecorderAtHome(rec) /\ PlayerAtHome
  /\ SelectedIsPlayed /\ OneAtATime

-----------------------------------------------------------------------------
(* What the calls of the loop make of the player and of the recorder. *)

LEMMA ClosedPlayer ==
  ASSUME NEW p \in Player
  PROVE  LET q == Closed(p)
         IN  /\ q \in Player
             /\ q.handle = p.handle /\ q.pc = p.pc /\ q.wav = None /\ ~q.stop
             /\ q.buffer = p.buffer
<1> DEFINE q == Closed(p)
<1>1. q = [p EXCEPT !.playing = FALSE, !.stop = FALSE, !.pending = FALSE, !.wav = None,
                    !.file = FALSE, !.cache = FALSE, !.left = 0]
  BY DEF Closed
<1>2. 0 \in 0..MaxChunks /\ None \in Files \cup {None}
  BY AudioAssumption
<1>3. q = Closed(p)
  OBVIOUS
<1> HIDE DEF q
<1>4. q \in Player
  BY <1>1, <1>2 DEF Player
<1>5. q.handle = p.handle /\ q.pc = p.pc /\ q.buffer = p.buffer
  BY <1>1 DEF Player
<1>6. q.wav = None /\ q.stop = FALSE
  BY <1>1 DEF Player
<1> QED BY <1>3, <1>4, <1>5, <1>6

LEMMA StartedPlayer ==
  ASSUME NEW p \in Player, ~p.handle, PlayerFits(p), Start(p)
  PROVE  /\ play' \in Player /\ PlayerFits(play') /\ play'.wav = p.wav
         /\ play'.handle => play'.pc = "top" /\ ~play'.stop
         /\ (wait' = "started" /\ at' = at) \/ (wait' = "none" /\ at' = Following(at))
<1>1. (wait' = "started" /\ at' = at) \/ (wait' = "none" /\ at' = Following(at))
  BY DEF Start
<1>2. CASE play' = [p EXCEPT !.stop = FALSE, !.pending = FALSE]
  BY <1>1, <1>2 DEF Player, PlayerFits
<1>3. CASE play' = [p EXCEPT !.stop = FALSE, !.pending = FALSE, !.handle = TRUE, !.pc = "top"]
  BY <1>1, <1>3 DEF Player, PlayerFits
<1>4. \/ play' = [p EXCEPT !.stop = FALSE, !.pending = FALSE]
      \/ play' = [p EXCEPT !.stop = FALSE, !.pending = FALSE, !.handle = TRUE, !.pc = "top"]
  BY DEF Start
<1> QED BY <1>1, <1>2, <1>3, <1>4

LEMMA OpenedPlayer ==
  ASSUME NEW p \in Player, PlayerFits(p), selected \in Files \cup {None}, Open(p)
  PROVE  /\ play' \in Player /\ PlayerFits(play')
         /\ play' = p \/ (~p.handle /\ play'.wav = selected)
         /\ (wait' = "started" /\ at' = at) \/ (wait' = "none" /\ at' = Following(at))
<1>1. CASE play' = p /\ wait' = "none" /\ at' = Following(at)
  BY <1>1
<1>2. CASE ~p.handle /\ \E n \in 0..MaxChunks, c \in BOOLEAN : Start(Loaded(p, n, c))
  <2>1. ~p.handle
    BY <1>2
  <2>2. PICK n \in 0..MaxChunks, c \in BOOLEAN : Start(Loaded(p, n, c))
    BY <1>2
  <2> DEFINE uncached == ~c
             o == Loaded(p, n, c)
  <2>3. uncached \in BOOLEAN
    OBVIOUS
  <2>4. o = [p EXCEPT !.wav = selected, !.left = n, !.cache = c, !.file = uncached]
    BY DEF Loaded
  <2>7. Start(o)
    BY <2>2
  <2> HIDE DEF uncached, o
  <2>5. o \in Player /\ o.handle = p.handle /\ o.pc = p.pc /\ o.wav = selected
    BY <2>3, <2>4 DEF Player
  <2>6. PlayerFits(o) /\ ~o.handle
    BY <2>1, <2>5 DEF PlayerFits
  <2> QED BY <2>1, <2>5, <2>6, <2>7, StartedPlayer
<1> QED BY <1>1, <1>2 DEF Open

LEMMA FreedPlayer ==
  ASSUME NEW p \in Player, PlayerFits(p)
  PROVE  LET q == Freed(p)
         IN  /\ q \in Player /\ PlayerFits(q) /\ q.wav = p.wav
             /\ q.handle = p.handle /\ q.pc = p.pc /\ q.stop = p.stop
  BY DEF Freed, Player, PlayerFits

LEMMA StoppedRecorder ==
  ASSUME NEW r \in Recorder, RecorderFits(r)
  PROVE  LET s == Stopped(r)
         IN  /\ s \in Recorder /\ RecorderFits(s) /\ ~s.running /\ s.handle = r.handle
<1>1. CASE r.running \/ r.handle
  BY <1>1 DEF Stopped, Recorder, RecorderFits
<1>2. CASE ~(r.running \/ r.handle)
  BY <1>2 DEF Stopped
<1> QED BY <1>1, <1>2

LEMMA StartedRecorder ==
  ASSUME NEW r \in Recorder, RecorderFits(r), NEW s \in RecorderStarted(r)
  PROVE  s \in Recorder /\ RecorderFits(s)
<1> DEFINE fresh == [r EXCEPT !.running = FALSE, !.stop = FALSE, !.pending = FALSE,
                              !.saved = FALSE, !.length = "none"]
<1>1. fresh \in Recorder /\ RecorderFits(fresh)
  BY DEF Recorder, RecorderFits
<1>2. s = fresh \/ s = [fresh EXCEPT !.handle = TRUE, !.running = TRUE, !.pc = "start"]
  BY DEF RecorderStarted
<1> HIDE DEF fresh
<1> QED BY <1>1, <1>2 DEF Recorder, RecorderFits

-----------------------------------------------------------------------------
(* What the loop does once it is through with the player. *)

LEMMA ThenPlayer ==
  ASSUME TypeOK, NEW call \in Calls, NEW p \in Player, PlayerFits(p), Asked(p), NEW r,
         Then(call, p, r)
  PROVE  /\ play' \in Player /\ PlayerFits(play')
         /\ \/ call = "open" /\ ~p.handle /\ play'.wav = selected
            \/ /\ play'.wav \in {p.wav, None} /\ play'.handle = p.handle
               /\ play'.pc = p.pc /\ Asked(play')
         /\ \/ wait' = "none" /\ (call # "finish" => at' = Following(at)) /\ (call = "finish" => at' = at)
            \/ wait' = "started" /\ call = "open" /\ at' = at
            \/ wait' = "free" /\ call = "make room" /\ at' = at /\ Asked(play')
<1>1. CASE call = "open"
  <2>1. Open(p)
    BY <1>1 DEF Then
  <2> QED BY <1>1, <2>1, OpenedPlayer DEF TypeOK
<1>2. CASE call = "make room" /\ p.buffer /\ p.handle
  <2>1. play' = [p EXCEPT !.stop = TRUE, !.playing = FALSE] /\ wait' = "free" /\ at' = at
    BY <1>2 DEF Then
  <2>2. /\ play' \in Player /\ PlayerFits(play') /\ play'.wav = p.wav
        /\ play'.handle = p.handle /\ play'.pc = p.pc /\ play'.stop
    BY <2>1 DEF Player, PlayerFits
  <2> QED BY <1>2, <2>1, <2>2 DEF Asked
<1>3. CASE call # "open" /\ ~(call = "make room" /\ p.buffer /\ p.handle)
  <2>1. wait' = "none" /\ at' = IF call = "finish" THEN at ELSE Following(at)
    BY <1>3 DEF Then
  <2>2. play' = IF call = "free" THEN Freed(p)
                ELSE IF call = "make room" /\ p.buffer THEN Freed(Closed(p)) ELSE p
    BY <1>3 DEF Then
  <2>3. CASE call = "free"
    BY <2>1, <2>2, <2>3, FreedPlayer DEF Asked
  <2>4. CASE call = "make room" /\ p.buffer
    <3> DEFINE q == Closed(p)
    <3>1. q \in Player /\ q.handle = p.handle /\ q.pc = p.pc /\ q.wav = None /\ ~p.handle
      BY <1>3, <2>4, ClosedPlayer
    <3>2. play' = Freed(q)
      BY <2>2, <2>4
    <3> HIDE DEF q
    <3>3. PlayerFits(q)
      BY <3>1 DEF PlayerFits
    <3> QED BY <2>1, <2>4, <3>1, <3>2, <3>3, FreedPlayer DEF Asked
  <2>5. CASE call # "free" /\ ~(call = "make room" /\ p.buffer)
    BY <2>1, <2>2, <2>5
  <2> QED BY <2>3, <2>4, <2>5
<1> QED BY <1>1, <1>2, <1>3

LEMMA ThenRecorder ==
  ASSUME NEW call \in Calls, NEW p, NEW r \in Recorder, RecorderFits(r), Then(call, p, r)
  PROVE  /\ rec' \in Recorder /\ RecorderFits(rec')
         /\ \/ call = "record"
            \/ call = "hide" /\ (rec'.running => visible = "recorder")
            \/ call # "record" /\ call # "hide" /\ rec' = r
<1>1. CASE call = "record"
  <2>1. rec' \in RecorderStarted(r)
    BY <1>1 DEF Then
  <2> QED BY <1>1, <2>1, StartedRecorder
<1>2. CASE call = "hide"
  <2>1. rec' = HiddenStopped(r)
    BY <1>2 DEF Then
  <2> QED BY <1>2, <2>1, StoppedRecorder DEF HiddenStopped
<1>3. CASE call # "record" /\ call # "hide"
  <2>1. rec' = r
    BY <1>3 DEF Then
  <2> QED BY <1>3, <2>1
<1> QED BY <1>1, <1>2, <1>3

LEMMA ThenLoop ==
  ASSUME TypeOK, NEW call \in Calls, CalledFrom(call), NEW p, NEW r, Then(call, p, r)
  PROVE  /\ visible' \in Apps /\ selected' \in Files \cup {None}
         /\ recordings' \in 0..MaxRecordings /\ late' = FALSE
         /\ call # "leave" => visible' = visible
         /\ call = "open" => selected' = selected /\ visible = "audio"
         /\ call = "hide" => at = "hide"
         /\ call = "finish" => at = "sdr"
         /\ call \notin {"hide", "finish"} => at = "input"
<1>1. /\ at = "input" \/ call \in {"hide", "finish"}
      /\ call = "hide" => at = "hide"
      /\ call = "finish" => at = "sdr"
      /\ call = "open" => visible = "audio"
      /\ call = "record" => recordings < MaxRecordings
  BY DEF CalledFrom
<1>3. /\ visible' = IF call = "leave" THEN "other" ELSE visible
      /\ recordings' = IF call = "record" THEN recordings + 1 ELSE recordings
      /\ late' = FALSE
  BY DEF Then
<1>5. \/ call # "select" /\ call # "delete" /\ selected' = selected
      \/ call = "select" /\ selected' \in Files
      \/ call = "delete" /\ (refreshAudioFileList \/ selected' = selected)
  BY DEF Then
<1>6. selected' \in Files \cup {None}
  BY <1>5 DEF TypeOK, refreshAudioFileList
<1>7. recordings' \in 0..MaxRecordings
  BY <1>1, <1>3, AudioAssumption DEF TypeOK
<1>8. /\ visible' \in Apps
      /\ call # "leave" => visible' = visible
  BY <1>3 DEF TypeOK, Apps
<1> QED BY <1>1, <1>3, <1>5, <1>6, <1>7, <1>8

LEMMA ThenKeeps ==
  ASSUME TypeOK, NEW call \in Calls, CalledFrom(call),
         NEW p \in Player, PlayerFits(p), Asked(p),
         NEW r \in Recorder, RecorderFits(r), RecorderAtHome(r),
         disturbed' \in BOOLEAN, p.wav = None \/ disturbed', Then(call, p, r)
  PROVE  IInv'
<1>1. /\ play' \in Player /\ PlayerFits(play')
      /\ \/ call = "open" /\ ~p.handle /\ play'.wav = selected
         \/ /\ play'.wav \in {p.wav, None} /\ play'.handle = p.handle
            /\ play'.pc = p.pc /\ Asked(play')
      /\ \/ wait' = "none" /\ (call # "finish" => at' = Following(at)) /\ (call = "finish" => at' = at)
         \/ wait' = "started" /\ call = "open" /\ at' = at
         \/ wait' = "free" /\ call = "make room" /\ at' = at /\ Asked(play')
  BY ThenPlayer
<1>2. /\ rec' \in Recorder /\ RecorderFits(rec')
      /\ \/ call = "record"
         \/ call = "hide" /\ (rec'.running => visible = "recorder")
         \/ call # "record" /\ call # "hide" /\ rec' = r
  BY ThenRecorder
<1>3. /\ visible' \in Apps /\ selected' \in Files \cup {None}
      /\ recordings' \in 0..MaxRecordings /\ late' = FALSE
      /\ call # "leave" => visible' = visible
      /\ call = "open" => selected' = selected /\ visible = "audio"
      /\ call = "hide" => at = "hide"
      /\ call = "finish" => at = "sdr"
      /\ call \notin {"hide", "finish"} => at = "input"
  BY ThenLoop
<1>10. /\ at' = IF call = "hide" \/ call = "finish" THEN "sdr"
               ELSE IF wait' = "none" THEN "hide" ELSE "input"
       /\ wait' \in {"none", "started", "free"}
  BY <1>1, <1>3 DEF Following
<1>4. TypeOK'
  <2>1. at' \in Parts /\ wait' \in Calls \cup {"none", "started"}
    BY <1>10 DEF Parts, Calls
  <2> QED BY <1>1, <1>2, <1>3, <2>1 DEF TypeOK
<1>5. (wait \in Calls => Asked(play) /\ CalledFrom(wait))'
  <2> SUFFICES ASSUME wait' \in Calls PROVE Asked(play)' /\ CalledFrom(wait)'
    OBVIOUS
  <2>1. wait' = "free" /\ at' = "input" /\ Asked(play')
    BY <1>1, <1>10 DEF Calls
  <2>2. CalledFrom(wait)'
    BY <2>1 DEF CalledFrom
  <2> QED BY <2>1, <2>2 DEF Asked
<1>11. (wait = "started" => at = "input" /\ visible = "audio")'
  BY <1>1, <1>3, <1>10
<1>6. RecorderAtHome(rec)'
  BY <1>1, <1>2, <1>3, <1>10 DEF RecorderAtHome
<1>7. PlayerAtHome' /\ SelectedIsPlayed'
  BY <1>1, <1>3 DEF PlayerAtHome, SelectedIsPlayed
<1>8. OneAtATime'
  <2>1. CASE call = "open" /\ ~p.handle /\ play'.wav = selected
    BY <1>2, <1>3, <2>1 DEF OneAtATime, RecorderAtHome
  <2>2. CASE Asked(play')
    BY <2>2 DEF OneAtATime, Asked
  <2> QED BY <1>1, <2>1, <2>2
<1>9. PlayerFits(play)' /\ RecorderFits(rec)'
  BY <1>1, <1>2 DEF PlayerFits, RecorderFits
<1> QED BY <1>3, <1>4, <1>5, <1>6, <1>7, <1>8, <1>9, <1>11 DEF IInv

LEMMA ClosedFits ==
  ASSUME NEW p \in Player, PlayerFits(p), ~p.handle
  PROVE  Closed(p) \in Player /\ PlayerFits(Closed(p)) /\ Asked(Closed(p)) /\ Closed(p).wav = None
  BY ClosedPlayer DEF PlayerFits, Asked

\* p is the player, and r the recorder or what stopAudioRecorder has made of it.
LEMMA CloseKeeps ==
  ASSUME IInv, wait = "none", NEW call \in Calls, CalledFrom(call),
         NEW p \in Player, PlayerFits(p), p.wav = play.wav,
         NEW r \in Recorder, RecorderFits(r), RecorderAtHome(r), Close(call, p, r)
  PROVE  IInv'
<1>1. CASE p.handle
  <2> DEFINE q == [p EXCEPT !.stop = TRUE, !.playing = FALSE]
  <2>1. /\ q \in Player /\ PlayerFits(q) /\ q.wav = p.wav /\ q.stop /\ q.handle = p.handle
    BY DEF Player, PlayerFits
  <2>2. /\ play' = q /\ rec' = r /\ wait' = call /\ at' = at /\ visible' = visible
        /\ late' = late
        /\ selected' = selected /\ disturbed' = disturbed /\ recordings' = recordings
    BY <1>1 DEF Close, ui
  <2> HIDE DEF q
  <2>3. TypeOK'
    BY <2>1, <2>2 DEF IInv, TypeOK
  <2>4. Asked(play)' /\ CalledFrom(wait)'
    BY <2>1, <2>2 DEF Asked, CalledFrom
  <2>5. RecorderAtHome(rec)' /\ PlayerAtHome'
    BY <2>1, <2>2 DEF IInv, RecorderAtHome, PlayerAtHome
  <2>6. SelectedIsPlayed' /\ OneAtATime'
    BY <2>1, <2>2 DEF IInv, SelectedIsPlayed, OneAtATime
  <2>7. PlayerFits(play)' /\ RecorderFits(rec)'
    BY <2>1, <2>2 DEF PlayerFits, RecorderFits
  <2>8. ~late' /\ wait' # "started"
    BY <2>2 DEF IInv, Calls
  <2> QED BY <2>3, <2>4, <2>5, <2>6, <2>7, <2>8 DEF IInv
<1>2. CASE ~p.handle
  <2>1. disturbed' = FALSE /\ Then(call, Closed(p), r)
    BY <1>2 DEF Close
  <2>2. TypeOK
    BY DEF IInv
  <2> QED BY <1>2, <2>1, <2>2, ClosedFits, ThenKeeps
<1> QED BY <1>1, <1>2

\* The end of the wait, one way or the other.
LEMMA WaitKeeps ==
  ASSUME IInv, Wait
  PROVE  IInv'
<1>1. /\ play \in Player /\ PlayerFits(play) /\ TypeOK
      /\ rec \in Recorder /\ RecorderFits(rec) /\ RecorderAtHome(rec)
      /\ wait \in Calls => CalledFrom(wait) /\ Asked(play)
  BY DEF IInv, TypeOK
<1>2. CASE PlayerStopped
  <2>1. wait \in Calls /\ ~play.handle /\ disturbed' = FALSE /\ Then(wait, Closed(play), rec)
    BY <1>2 DEF PlayerStopped, Waiting
  <2> QED BY <1>1, <2>1, ClosedFits, ThenKeeps
<1>3. CASE StopGivenUp
  <2>1. /\ wait \in Calls /\ late' = TRUE /\ disturbed' = TRUE /\ at' = at /\ wait' = wait
        /\ visible' = visible /\ selected' = selected /\ play' = play /\ rec' = rec
        /\ recordings' = recordings
    BY <1>3 DEF StopGivenUp, Waiting, ui
  <2> QED BY <2>1 DEF IInv, TypeOK, PlayerFits, RecorderFits, Asked, CalledFrom, RecorderAtHome,
                      PlayerAtHome, SelectedIsPlayed, OneAtATime
<1>4. CASE GoOn
  <2>1. wait \in Calls /\ disturbed' = disturbed /\ disturbed /\ Then(wait, play, rec)
    BY <1>4 DEF GoOn, IInv
  <2>2. disturbed' \in BOOLEAN
    BY <1>1, <2>1 DEF TypeOK
  <2> QED BY <1>1, <2>1, <2>2, ThenKeeps
<1>5. CASE TaskStarted
  <2>1. /\ wait = "started" /\ wait' = "none" /\ at' = Following(at)
        /\ play' = [play EXCEPT !.playing = TRUE] /\ late' = late
        /\ visible' = visible /\ selected' = selected /\ rec' = rec
        /\ disturbed' = disturbed /\ recordings' = recordings
    BY <1>5 DEF TaskStarted, ui
  <2>2. /\ play' \in Player /\ play'.handle = play.handle /\ play'.pc = play.pc
        /\ play'.stop = play.stop /\ play'.wav = play.wav /\ PlayerFits(play')
    BY <1>1, <2>1 DEF Player, PlayerFits
  <2>3. at = "input" /\ at' = "hide" /\ visible = "audio" /\ ~late
    BY <2>1 DEF IInv, Following, Calls
  <2>4. TypeOK'
    BY <1>1, <2>1, <2>2, <2>3 DEF TypeOK, Parts
  <2>5. RecorderAtHome(rec)' /\ RecorderFits(rec)' /\ PlayerAtHome'
    BY <1>1, <2>1, <2>3 DEF RecorderAtHome, RecorderFits, PlayerAtHome
  <2>6. SelectedIsPlayed' /\ OneAtATime'
    BY <2>1, <2>2 DEF IInv, SelectedIsPlayed, OneAtATime
  <2>7. PlayerFits(play)' /\ wait' \notin Calls
    BY <2>1, <2>2 DEF PlayerFits, Calls
  <2> QED BY <2>1, <2>3, <2>4, <2>5, <2>6, <2>7 DEF IInv
<1> QED BY <1>2, <1>3, <1>4, <1>5 DEF Wait

-----------------------------------------------------------------------------
(* The parts of a pass. *)

\* The loop goes on to the next part, and the player and the selection stay as they are.
LEMMA WorkKeeps ==
  ASSUME IInv, Work
  PROVE  IInv'
<1>1. /\ wait = "none" /\ ~late /\ TypeOK /\ play \in Player /\ PlayerFits(play)
      /\ rec \in Recorder /\ RecorderFits(rec) /\ RecorderAtHome(rec)
  BY DEF Work, StopHiddenWork, PlaybackFinished, RecordingFinished, Nothing, Part, Input, IInv,
         TypeOK, Calls
<1>2. CASE StopHiddenWork
  <2>1. at = "hide"
    BY <1>2 DEF StopHiddenWork, Part
  <2>2. CASE visible # "audio" /\ play.wav # None
    <3>1. CalledFrom("hide") /\ "hide" \in Calls /\ Close("hide", play, rec)
      BY <1>2, <2>1, <2>2 DEF StopHiddenWork, CalledFrom, Calls
    <3> QED BY <1>1, <3>1, CloseKeeps
  <2>3. CASE ~(visible # "audio" /\ play.wav # None)
    <3>1. /\ at' = "sdr" /\ wait' = "none" /\ late' = late /\ rec' = HiddenStopped(rec) /\ play' = play
          /\ visible' = visible /\ selected' = selected /\ disturbed' = disturbed
          /\ recordings' = recordings
      BY <1>1, <1>2, <2>1, <2>3 DEF StopHiddenWork, Pass, Following, ui
    <3>2. /\ rec' \in Recorder /\ RecorderFits(rec)' /\ RecorderAtHome(rec)'
          /\ rec'.running => rec' = rec
      BY <1>1, <3>1, StoppedRecorder DEF HiddenStopped, RecorderAtHome, RecorderFits
    <3>3. TypeOK' /\ PlayerAtHome'
      BY <1>1, <2>3, <3>1, <3>2 DEF TypeOK, PlayerAtHome, Parts
    <3>4. PlayerFits(play)' /\ SelectedIsPlayed' /\ OneAtATime'
      BY <3>1, <3>2 DEF IInv, PlayerFits, SelectedIsPlayed, OneAtATime
    <3> QED BY <1>1, <3>1, <3>2, <3>3, <3>4 DEF IInv, Calls
  <2> QED BY <2>2, <2>3
<1>3. CASE PlaybackFinished
  <2> DEFINE p == [play EXCEPT !.pending = FALSE]
  <2>1. CalledFrom("finish") /\ "finish" \in Calls /\ Close("finish", p, rec)
    BY <1>3 DEF PlaybackFinished, CalledFrom, Calls, Part
  <2>2. p \in Player /\ PlayerFits(p) /\ p.wav = play.wav
    BY <1>1 DEF Player, PlayerFits
  <2> HIDE DEF p
  <2> QED BY <1>1, <2>1, <2>2, CloseKeeps
<1>4. CASE RecordingFinished
  <2> DEFINE r == [rec EXCEPT !.pending = FALSE, !.length = "none"]
  <2>1. r \in Recorder /\ r.handle = rec.handle /\ r.running = rec.running /\ r.pc = rec.pc
    BY <1>1 DEF Recorder
  <2>2. /\ at' = "input" /\ wait' = "none" /\ late' = late /\ rec' = r /\ play' = play /\ visible' = visible
        /\ recordings' = recordings /\ at = "sdr"
        /\ \/ selected' = selected /\ disturbed' = disturbed
           \/ refreshAudioFileList /\ disturbed' = (disturbed \/ play.wav # None)
    BY <1>1, <1>4 DEF RecordingFinished, Pass, Following, Part
  <2> HIDE DEF r
  <2>3. selected' \in Files \cup {None} /\ disturbed' \in BOOLEAN
    BY <1>1, <2>2 DEF TypeOK, refreshAudioFileList
  <2>4. TypeOK'
    BY <1>1, <2>1, <2>2, <2>3 DEF TypeOK, Parts
  <2>5. RecorderFits(rec)' /\ RecorderAtHome(rec)' /\ OneAtATime'
    BY <2>1, <2>2 DEF IInv, RecorderFits, RecorderAtHome, OneAtATime
  <2>6. PlayerFits(play)' /\ PlayerAtHome' /\ SelectedIsPlayed'
    BY <2>2 DEF IInv, PlayerFits, PlayerAtHome, SelectedIsPlayed
  <2> QED BY <1>1, <2>2, <2>4, <2>5, <2>6 DEF IInv, Calls
<1>5. CASE Nothing
  <2>1. /\ at' \in Parts /\ (at' = "hide" \/ (at = "sdr" /\ at' = "input")) /\ wait' = "none"
        /\ UNCHANGED <<late, visible, selected, play, rec, disturbed, recordings>>
    BY <1>1, <1>5 DEF Nothing, Input, Part, Pass, Following, ui, Parts
  <2> QED BY <1>1, <2>1 DEF IInv, TypeOK, PlayerFits, RecorderFits, RecorderAtHome, PlayerAtHome,
                           SelectedIsPlayed, OneAtATime, Calls
<1> QED BY <1>2, <1>3, <1>4, <1>5 DEF Work

\* A key or a touch that leaves the player and the recorder alone, but for their flags.
LEMMA OpenAppKeeps ==
  ASSUME IInv, NEW app \in {"audio", "recorder"}, OpenApp(app)
  PROVE  IInv'
<1>1. /\ wait = "none" /\ at = "input" /\ at' = "hide" /\ wait' = "none" /\ visible # "audio"
      /\ late' = late
      /\ visible' = app /\ rec' = rec /\ disturbed' = disturbed /\ recordings' = recordings
      /\ \/ app = "audio" /\ refreshAudioFileList /\ play' = [play EXCEPT !.playing = FALSE]
         \/ app # "audio" /\ selected' = selected /\ play' = play
  BY DEF OpenApp, Input, Part, Pass, Following
<1>2. /\ play' \in Player /\ play'.handle = play.handle /\ play'.pc = play.pc
      /\ play'.stop = play.stop /\ play'.wav = play.wav /\ PlayerFits(play)'
  BY <1>1 DEF IInv, TypeOK, Player, PlayerFits
<1>3. selected' \in Files \cup {None}
  BY <1>1 DEF IInv, TypeOK, refreshAudioFileList
<1>4. TypeOK'
  BY <1>1, <1>2, <1>3 DEF IInv, TypeOK, Parts, Apps
<1>5. PlayerAtHome' /\ SelectedIsPlayed'
  BY <1>1, <1>2 DEF IInv, PlayerAtHome, SelectedIsPlayed
<1>6. RecorderAtHome(rec)' /\ RecorderFits(rec)' /\ OneAtATime'
  BY <1>1, <1>2 DEF IInv, RecorderAtHome, RecorderFits, OneAtATime
<1> QED BY <1>1, <1>2, <1>4, <1>5, <1>6 DEF IInv, Calls

LEMMA PauseKeeps ==
  ASSUME IInv, PressPause
  PROVE  IInv'
<1>1. /\ wait = "none" /\ at = "input" /\ visible = "audio"
      /\ visible' = visible /\ selected' = selected /\ rec' = rec /\ disturbed' = disturbed
      /\ recordings' = recordings
  BY DEF PressPause, Input, Part, ui
<1> DEFINE toggled == ~play.playing
           p == [play EXCEPT !.playing = toggled]
<1>2. /\ late' = late
      /\ \/ Start(p) /\ ~p.handle
         \/ play' = p /\ at' = Following(at) /\ wait' = "none"
  BY <1>1 DEF PressPause, Pass
<1>3. toggled \in BOOLEAN
  OBVIOUS
<1>4. /\ p \in Player /\ p.handle = play.handle /\ p.pc = play.pc /\ p.stop = play.stop
      /\ p.wav = play.wav /\ PlayerFits(p)
  <2> HIDE DEF toggled
  <2> QED BY <1>3 DEF IInv, TypeOK, Player, PlayerFits
<1> HIDE DEF p
<1>5. /\ play' \in Player /\ PlayerFits(play') /\ play'.wav = play.wav
      /\ \/ ~play.handle
         \/ play'.handle = play.handle /\ play'.pc = play.pc /\ play'.stop = play.stop
      /\ \/ wait' = "started" /\ at' = "input"
         \/ wait' = "none" /\ at' = "hide"
  BY <1>1, <1>2, <1>4, StartedPlayer DEF Following
<1>6. ~rec.running /\ RecorderFits(rec)' /\ RecorderAtHome(rec)'
  BY <1>1 DEF IInv, RecorderAtHome, RecorderFits
<1>7. TypeOK'
  BY <1>1, <1>2, <1>5 DEF IInv, TypeOK, Parts
<1>8. OneAtATime' /\ PlayerAtHome' /\ SelectedIsPlayed'
  BY <1>1, <1>5, <1>6 DEF IInv, OneAtATime, PlayerAtHome, SelectedIsPlayed
<1>9. ~late' /\ wait' \notin Calls
  BY <1>1, <1>2, <1>5 DEF IInv, Calls
<1> QED BY <1>1, <1>5, <1>6, <1>7, <1>8, <1>9 DEF IInv, PlayerFits

LEMMA InputsKeep ==
  ASSUME IInv, Inputs
  PROVE  IInv'
<1>1. /\ wait = "none" /\ ~late /\ at = "input" /\ TypeOK
      /\ play \in Player /\ PlayerFits(play)
      /\ rec \in Recorder /\ RecorderFits(rec) /\ RecorderAtHome(rec)
  BY DEF Inputs, OpenApp, LeaveApp, SelectFile, PressPlay, PressPause, PressDelete, PressRecord,
         MakeRoom, OpenDeployCam, Input, Part, IInv, TypeOK, Calls
<1> DEFINE s == Stopped(rec)
<1>2. s \in Recorder /\ RecorderFits(s) /\ RecorderAtHome(s)
  BY <1>1, StoppedRecorder DEF RecorderAtHome
<1>3. /\ \A call \in {"leave", "select", "delete", "make room", "free"} :
            call \in Calls /\ CalledFrom(call)
      /\ visible = "audio" => CalledFrom("open")
      /\ recordings < MaxRecordings => CalledFrom("record")
      /\ "open" \in Calls /\ "record" \in Calls
  BY <1>1 DEF CalledFrom, Calls
<1>4. ASSUME NEW call \in Calls, CalledFrom(call),
             Close(call, play, rec) \/ Close(call, play, Stopped(rec))
      PROVE  IInv'
  BY <1>1, <1>2, <1>4, CloseKeeps
<1>5. CASE \E app \in {"audio", "recorder"} : OpenApp(app)
  BY <1>5, OpenAppKeeps
<1>6. CASE LeaveApp
  <2>1. CASE Close("leave", play, rec)
    BY <1>3, <1>4, <2>1
  <2>2. CASE visible' = "other" /\ Pass /\ UNCHANGED <<selected, play, rec, disturbed, recordings>>
    <3>1. at' = "hide" /\ wait' = "none" /\ late' = late /\ visible' \in Apps /\ at' \in Parts
      BY <1>1, <2>2 DEF Pass, Following, Apps, Parts
    <3> QED BY <1>1, <2>2, <3>1 DEF IInv, TypeOK, PlayerFits, RecorderFits, RecorderAtHome,
                                    PlayerAtHome, SelectedIsPlayed, OneAtATime, Calls
  <2> QED BY <1>6, <2>1, <2>2 DEF LeaveApp
<1>7. CASE SelectFile \/ PressPlay \/ PressDelete \/ OpenDeployCam
  BY <1>3, <1>4, <1>7 DEF SelectFile, PressPlay, PressDelete, OpenDeployCam
<1>8. CASE MakeRoom
  BY <1>3, <1>4, <1>8 DEF MakeRoom
<1>9. CASE PressRecord
  <2>1. CASE rec' = Stopped(rec) /\ Pass /\ UNCHANGED <<ui, play, disturbed, recordings>>
    <3>1. /\ at' = "hide" /\ wait' = "none" /\ late' = late /\ at' \in Parts /\ visible' = visible
          /\ selected' = selected /\ play' = play /\ disturbed' = disturbed
          /\ recordings' = recordings /\ rec' = s
      BY <1>1, <2>1 DEF Pass, Following, Parts, ui
    <3>2. ~s.running
      BY <1>1, StoppedRecorder
    <3> HIDE DEF s
    <3> QED BY <1>1, <1>2, <3>1, <3>2 DEF IInv, TypeOK, PlayerFits, RecorderFits, RecorderAtHome,
                                         PlayerAtHome, SelectedIsPlayed, OneAtATime, Calls
  <2>2. CASE recordings < MaxRecordings /\ Close("record", play, rec)
    BY <1>3, <1>4, <2>2
  <2> QED BY <1>9, <2>1, <2>2 DEF PressRecord
<1>10. CASE PressPause
  BY <1>10, PauseKeeps
<1> QED BY <1>5, <1>6, <1>7, <1>8, <1>9, <1>10 DEF Inputs

-----------------------------------------------------------------------------
(* The two tasks. *)

\* A step of the player that keeps what the loop has put into it.
LEMMA PlayerSteps ==
  ASSUME IInv, PlayerFits(play'), play' \in Player, play.handle, play'.wav = play.wav,
         play'.pc \in {"top", "chunk"} => play.pc \in {"top", "chunk"} /\ play'.stop = play.stop,
         Asked(play) => Asked(play'),
         UNCHANGED <<at, wait, late, ui, rec, disturbed, recordings>>
  PROVE  IInv'
<1>1. /\ at' = at /\ wait' = wait /\ late' = late /\ visible' = visible /\ selected' = selected
      /\ rec' = rec /\ disturbed' = disturbed /\ recordings' = recordings
  BY DEF ui
<1>2. TypeOK' /\ RecorderFits(rec)' /\ PlayerFits(play)'
  BY <1>1 DEF IInv, TypeOK, RecorderFits, PlayerFits
<1>3. /\ (wait \in Calls => Asked(play) /\ CalledFrom(wait))'
      /\ (wait = "started" => at = "input" /\ visible = "audio")'
      /\ (late => wait \in Calls /\ disturbed)'
  BY <1>1 DEF IInv, CalledFrom, Asked
<1>4. RecorderAtHome(rec)' /\ PlayerAtHome' /\ SelectedIsPlayed' /\ OneAtATime'
  BY <1>1 DEF IInv, RecorderAtHome, PlayerAtHome, SelectedIsPlayed, OneAtATime
<1> QED BY <1>2, <1>3, <1>4 DEF IInv

LEMMA PlayerKeeps ==
  ASSUME IInv, PlayerStep
  PROVE  IInv'
<1>1. play \in Player /\ PlayerFits(play)
  BY DEF IInv, TypeOK
<1>2. CASE PlayerTop
  <2>1. play.handle /\ play.pc = "top" /\ UNCHANGED <<at, wait, late, ui, rec, disturbed, recordings>>
    BY <1>2 DEF PlayerTop, Plays
  <2>2. CASE play' = [play EXCEPT !.pc = "closing"]
    <3>1. /\ play' \in Player /\ PlayerFits(play') /\ play'.wav = play.wav /\ play'.stop = play.stop
          /\ play'.pc = "closing" /\ play'.handle
      BY <1>1, <2>1, <2>2 DEF Player, PlayerFits
    <3> QED BY <2>1, <3>1, PlayerSteps DEF Asked
  <2>3. CASE /\ ~(play.stop \/ play.wav = None \/ play.left = 0 \/ (~play.cache /\ ~play.file))
             /\ play' = [play EXCEPT !.pc = "chunk", !.buffer = TRUE,
                                     !.from = IF play.cache THEN "cache" ELSE "file"]
    <3> DEFINE source == IF play.cache THEN "cache" ELSE "file"
    <3>1. /\ source \in {"cache", "file"}
          /\ source = "cache" => play.cache
          /\ source = "file" => play.file
      BY <2>3
    <3>2. play' = [play EXCEPT !.pc = "chunk", !.buffer = TRUE, !.from = source]
      BY <2>3
    <3> HIDE DEF source
    <3>3. /\ play' \in Player /\ play'.wav = play.wav /\ play'.stop = play.stop
          /\ play'.pc = "chunk" /\ play'.handle /\ play'.left = play.left /\ play'.buffer
          /\ play'.from = source /\ play'.cache = play.cache /\ play'.file = play.file
      BY <1>1, <2>1, <3>1, <3>2 DEF Player
    <3>4. PlayerFits(play')
      BY <2>3, <3>1, <3>3 DEF PlayerFits
    <3> QED BY <2>1, <3>3, <3>4, PlayerSteps DEF Asked
  <2> QED BY <1>2, <2>2, <2>3 DEF PlayerTop
<1>3. CASE PlayerChunk
  <2>1. /\ play.handle /\ play.pc = "chunk" /\ play.left \in 1..MaxChunks
        /\ UNCHANGED <<at, wait, late, ui, rec, disturbed, recordings>>
    BY <1>1, <1>3, AudioAssumption DEF PlayerChunk, Plays, PlayerFits, Player
  <2> DEFINE fewer == play.left - 1
  <2>2. fewer \in 0..MaxChunks
    BY <2>1, AudioAssumption
  <2>3. \/ play' = [play EXCEPT !.pc = "closing", !.from = "file"]
        \/ play' = [play EXCEPT !.pc = "top", !.from = "file", !.left = fewer]
        \/ play' = [play EXCEPT !.pc = "top"]
    BY <1>3 DEF PlayerChunk
  <2> HIDE DEF fewer
  <2>4. /\ play' \in Player /\ play'.wav = play.wav /\ play'.stop = play.stop
        /\ play'.pc \in {"closing", "top"} /\ play'.handle
    BY <1>1, <2>1, <2>2, <2>3 DEF Player
  <2>5. PlayerFits(play')
    BY <2>4 DEF PlayerFits
  <2> QED BY <2>1, <2>4, <2>5, PlayerSteps DEF Asked
<1>4. CASE PlayerEnds
  <2>1. play.handle /\ UNCHANGED <<at, wait, late, ui, rec, disturbed, recordings>>
    BY <1>4 DEF PlayerEnds
  <2> DEFINE reported == play.pending \/ ~play.stop
  <2>2. reported \in BOOLEAN
    OBVIOUS
  <2>3. \/ play' = [play EXCEPT !.file = FALSE, !.playing = FALSE, !.pc = "report"]
        \/ play' = [play EXCEPT !.pending = reported, !.pc = "clear"]
        \/ play' = [play EXCEPT !.stop = FALSE, !.pc = "exit"]
        \/ play' = [play EXCEPT !.handle = FALSE, !.pc = "gone"]
    BY <1>4 DEF PlayerEnds
  <2> HIDE DEF reported
  <2>4. /\ play' \in Player /\ play'.wav = play.wav
        /\ play'.handle <=> play'.pc # "gone"
        /\ play'.pc \in {"report", "clear", "exit", "gone"}
    <3>1. CASE play' = [play EXCEPT !.file = FALSE, !.playing = FALSE, !.pc = "report"]
      BY <1>1, <2>1, <3>1 DEF Player
    <3>2. CASE play' = [play EXCEPT !.pending = reported, !.pc = "clear"]
      BY <1>1, <2>1, <2>2, <3>2 DEF Player
    <3>3. CASE play' = [play EXCEPT !.stop = FALSE, !.pc = "exit"]
      BY <1>1, <2>1, <3>3 DEF Player
    <3>4. CASE play' = [play EXCEPT !.handle = FALSE, !.pc = "gone"]
      BY <1>1, <2>1, <3>4 DEF Player
    <3> QED BY <2>3, <3>1, <3>2, <3>3, <3>4
  <2>5. Asked(play) => Asked(play')
    BY <1>1, <1>4 DEF PlayerEnds, Player, Asked
  <2>6. PlayerFits(play')
    BY <2>4 DEF PlayerFits
  <2> QED BY <2>1, <2>4, <2>5, <2>6, PlayerSteps
<1> QED BY <1>2, <1>3, <1>4 DEF PlayerStep

\* The recorder never takes itself for running again.
LEMMA RecorderKeeps ==
  ASSUME IInv, RecorderStep
  PROVE  IInv'
<1>1. /\ at' = at /\ wait' = wait /\ late' = late /\ visible' = visible /\ selected' = selected
      /\ play' = play /\ disturbed' = disturbed /\ recordings' = recordings
  BY DEF RecorderStep, RecorderStarts, RecorderOpens, RecorderRuns, RecorderCloses, RecorderReports,
         RecorderExits, UnchangedButRecorder, ui
<1>2. rec \in Recorder /\ RecorderFits(rec)
  BY DEF IInv, TypeOK
<1>3. rec' \in Recorder /\ RecorderFits(rec') /\ rec.handle /\ (rec'.running => rec.running)
  <2>1. CASE RecorderStarts
    <3>1. rec.handle /\ (\/ rec' = [rec EXCEPT !.pc = "open"]
                         \/ rec' = [rec EXCEPT !.error = TRUE, !.running = FALSE,
                                               !.pending = TRUE, !.pc = "exit"])
      BY <2>1 DEF RecorderStarts, Records, Failed
    <3> QED BY <1>2, <3>1 DEF Recorder, RecorderFits
  <2>2. CASE RecorderOpens
    <3>1. rec.handle /\ \E n \in {"none", "zero"} :
            \/ rec' = [rec EXCEPT !.error = TRUE, !.running = FALSE, !.length = n, !.pc = "run"]
            \/ rec' = [rec EXCEPT !.length = n, !.pc = "run"]
      BY <2>2 DEF RecorderOpens, Records, Failed
    <3> QED BY <1>2, <3>1 DEF Recorder, RecorderFits
  <2>3. CASE RecorderRuns
    <3>1. rec.handle /\ rec.pc = "run"
      BY <2>3 DEF RecorderRuns, Records
    <3>5. \/ rec' = [rec EXCEPT !.bytes = TRUE]
          \/ rec' = [rec EXCEPT !.error = TRUE, !.pc = "finish"]
          \/ rec' = [rec EXCEPT !.pc = "finish"]
      BY <2>3 DEF RecorderRuns
    <3>2. CASE rec' = [rec EXCEPT !.bytes = TRUE]
      BY <1>2, <3>1, <3>2 DEF Recorder, RecorderFits
    <3>3. CASE rec' = [rec EXCEPT !.error = TRUE, !.pc = "finish"]
      BY <1>2, <3>1, <3>3 DEF Recorder, RecorderFits
    <3>4. CASE rec' = [rec EXCEPT !.pc = "finish"]
      BY <1>2, <3>1, <3>4 DEF Recorder, RecorderFits
    <3> QED BY <3>2, <3>3, <3>4, <3>5
  <2>4. CASE RecorderCloses
    <3>1. rec.handle /\ \E n \in {"none", "zero", "true"} :
            rec' = [rec EXCEPT !.pc = "flags"] \/ rec' = [rec EXCEPT !.pc = "flags", !.length = n]
      BY <2>4 DEF RecorderCloses, Records
    <3> QED BY <1>2, <3>1 DEF Recorder, RecorderFits
  <2>5. CASE RecorderReports
    <3> DEFINE good == rec.bytes /\ ~rec.error
    <3>1. good \in BOOLEAN
      OBVIOUS
    <3>2. rec.handle /\ rec' = [rec EXCEPT !.running = FALSE, !.stop = FALSE, !.pending = TRUE,
                                           !.saved = good, !.pc = "exit"]
      BY <2>5 DEF RecorderReports, Records
    <3> HIDE DEF good
    <3> QED BY <1>2, <3>1, <3>2 DEF Recorder, RecorderFits
  <2>6. CASE RecorderExits
    BY <1>2, <2>6 DEF RecorderExits, Records, Recorder, RecorderFits
  <2> QED BY <2>1, <2>2, <2>3, <2>4, <2>5, <2>6 DEF RecorderStep
<1>4. TypeOK' /\ RecorderFits(rec)' /\ PlayerFits(play)'
  BY <1>1, <1>3 DEF IInv, TypeOK, RecorderFits, PlayerFits
<1>5. /\ (wait \in Calls => Asked(play) /\ CalledFrom(wait))'
      /\ (wait = "started" => at = "input" /\ visible = "audio")'
      /\ (late => wait \in Calls /\ disturbed)'
  BY <1>1 DEF IInv, CalledFrom, Asked
<1>6. RecorderAtHome(rec)' /\ PlayerAtHome' /\ SelectedIsPlayed' /\ OneAtATime'
  BY <1>1, <1>3 DEF IInv, RecorderAtHome, PlayerAtHome, SelectedIsPlayed, OneAtATime
<1> QED BY <1>4, <1>5, <1>6 DEF IInv

LEMMA InitHolds == Init => IInv
<1> SUFFICES ASSUME Init PROVE IInv
  OBVIOUS
<1>1. /\ at = "input" /\ wait = "none" /\ ~late /\ visible = "other" /\ selected = None
      /\ disturbed = FALSE /\ recordings = 0
  BY DEF Init
<1>2. play \in Player /\ PlayerFits(play) /\ ~play.handle /\ play.wav = None
  <2>1. PICK b \in BOOLEAN :
          play = [handle |-> FALSE, stop |-> FALSE, playing |-> FALSE, pending |-> FALSE,
                  wav |-> None, file |-> FALSE, cache |-> FALSE, buffer |-> b, left |-> 0,
                  from |-> "file", pc |-> "gone"]
    BY DEF Init
  <2> QED BY <2>1, AudioAssumption DEF Player, PlayerFits
<1>3. rec \in Recorder /\ RecorderFits(rec) /\ ~rec.running
  <2>1. rec = [handle |-> FALSE, running |-> FALSE, stop |-> FALSE, pending |-> FALSE,
               error |-> FALSE, saved |-> FALSE, bytes |-> FALSE, length |-> "none", pc |-> "gone"]
    BY DEF Init
  <2> QED BY <2>1 DEF Recorder, RecorderFits
<1>5. at \in Parts /\ visible \in Apps /\ recordings \in 0..MaxRecordings
  BY <1>1, AudioAssumption DEF Parts, Apps
<1>6. disturbed \in BOOLEAN /\ late \in BOOLEAN
  BY DEF Init
<1>4. TypeOK
  BY <1>1, <1>2, <1>3, <1>5, <1>6 DEF TypeOK
<1> QED BY <1>1, <1>2, <1>3, <1>4
        DEF IInv, RecorderAtHome, PlayerAtHome, SelectedIsPlayed, OneAtATime, Calls

LEMMA NextKeeps == IInv /\ [Next]_vars => IInv'
<1> SUFFICES ASSUME IInv, [Next]_vars PROVE IInv'
  OBVIOUS
<1>1. CASE Next
  BY <1>1, WaitKeeps, WorkKeeps, InputsKeep, PlayerKeeps, RecorderKeeps DEF Next
<1>2. CASE UNCHANGED vars
  BY <1>2 DEF vars, ui, IInv, TypeOK, PlayerFits, RecorderFits, Asked, CalledFrom,
              RecorderAtHome, PlayerAtHome, SelectedIsPlayed, OneAtATime
<1> QED BY <1>1, <1>2

-----------------------------------------------------------------------------
(* The properties. *)

LEMMA Invariance == Spec => []IInv
  BY InitHolds, NextKeeps, PTL DEF Spec

\* The globals of player and recorder keep their types, whatever order the loop and the
\* two tasks run in.
THEOREM TypeCorrect == Spec => []TypeOK
  BY Invariance, PTL DEF IInv

\* queueAudioPlaybackChunk never reads from a cache or a file that the loop has given back,
\* even if the loop has given up waiting for the player.
THEOREM SourceIsHeld == Spec => []SourceHeld
<1>1. IInv => SourceHeld
  BY DEF IInv, TypeOK, Player, PlayerFits, SourceHeld
<1> QED BY <1>1, Invariance, PTL

\* What openSelectedWav has opened stays the selected file, as long as no stop was given up
\* and no late recording has had the list read again.
THEOREM PlayedIsSelected == Spec => []SelectedIsPlayed
  BY Invariance, PTL DEF IInv

\* The recorder and the player share the codec: they are never both there without one of
\* them having been asked to stop.
THEOREM CodecIsShared == Spec => []OneAtATime
  BY Invariance, PTL DEF IInv
=============================================================================
