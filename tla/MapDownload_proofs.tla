------------------------- MODULE MapDownload_proofs -------------------------
(***************************************************************************)
(* The counters of a region download, and the tiles on the card, for any    *)
(* number of tiles.                                                         *)
(*                                                                          *)
(* The job and the one transfer outlive each other: a transfer may belong   *)
(* to the present job (own), to one that was stopped, or to the map view.   *)
(* The argument is that a job only ever has one transfer in flight, of the  *)
(* tile it has just passed, and that a foreign one finds it with nothing    *)
(* handled.                                                                 *)
(***************************************************************************)
EXTENDS MapDownload, FiniteSetTheorems, TLAPS

InFlight == transfer.state # "idle"

\* The tiles on the card among those handled.
OnCard == {t \in handled : card[t] # "none"}

\* The position of a job in its region.
Placed ==
  /\ job.first <= job.last /\ job.first <= job.next
  /\ job.next <= job.last + 1 /\ job.done <= Total(job)
Passed == job.first..(job.next - 1)

\* A job that counts has something left to count.
Unfinished == job.active \/ transfer.forJob => job.done < Total(job)

Owned ==
  /\ transfer.forJob => InFlight
  /\ transfer.own => /\ transfer.forJob
                     /\ transfer.tile \in Passed /\ transfer.tile \notin handled
  /\ InFlight /\ ~transfer.own /\ job.active => handled = {}
  /\ transfer.forJob /\ ~transfer.own => foreign = 0

Sums ==
  /\ handled \subseteq Passed /\ foreign \in 0..1
  /\ job.verified + job.failed = job.done
  /\ job.done = Cardinality(handled) + foreign
  /\ job.active => job.verified <= Cardinality(OnCard) + foreign

\* What was seen to be missing stays so until its transfer ends.
Missing == InFlight /\ transfer.sure => card[transfer.tile] = "none"

\* What TypeOK says of the device around.
EnvironmentOK ==
  /\ wifi \in {"off", "trying", "connected"} /\ server \in {"none", "silent", "answers"}
  /\ hold \in {"none", "focus", "usb", "driving"}

IInv == TypeOK /\ Placed /\ Unfinished /\ Owned /\ Sums /\ Missing

-----------------------------------------------------------------------------
(* The counters. *)

LEMMA TotalIsNat ==
  ASSUME NEW j \in Job, j.first <= j.last
  PROVE  Total(j) \in Nat \ {0}
  BY TilesAssumption DEF Job, Tiles, Total

LEMMA CountedCounts ==
  ASSUME NEW j \in Job, j.first <= j.last, j.done < Total(j), NEW success \in BOOLEAN
  PROVE  LET k == Counted(j, success)
         IN  /\ k \in Job
             /\ k.first = j.first /\ k.last = j.last /\ k.next = j.next
             /\ k.done = j.done + 1 /\ k.done <= Total(k)
             /\ k.verified = j.verified + (IF success THEN 1 ELSE 0)
             /\ k.verified + k.failed = j.verified + j.failed + 1
             /\ k.active => j.active /\ k.done < Total(k)
<1> DEFINE k == Counted(j, success)
           total == Total(j)
           done == IF j.done < total THEN j.done + 1 ELSE j.done
           verified == IF success THEN j.verified + 1 ELSE j.verified
           failed == IF success THEN j.failed ELSE j.failed + 1
           active == j.active /\ done < total
<1>1. /\ total \in Nat /\ done \in Nat /\ done = j.done + 1 /\ done <= total
      /\ verified \in Nat /\ failed \in Nat /\ active \in BOOLEAN
      /\ verified = j.verified + (IF success THEN 1 ELSE 0)
      /\ verified + failed = j.verified + j.failed + 1
      /\ active => j.active /\ done < total
  BY TotalIsNat DEF Job
<1>2. k = [j EXCEPT !.done = done, !.verified = verified, !.failed = failed, !.active = active]
  BY DEF Counted
<1> HIDE DEF k, total, done, verified, failed, active
<1>3. /\ k.first = j.first /\ k.last = j.last /\ k.next = j.next /\ k.done = done
      /\ k.verified = verified /\ k.failed = failed /\ k.active = active
  BY <1>2 DEF Job
<1>4. k \in Job
  BY <1>1, <1>2 DEF Job
<1>5. Total(k) = total
  BY <1>3 DEF Total, total
<1> QED BY <1>1, <1>3, <1>4, <1>5 DEF k

\* The tiles handled are finitely many, and so are those on the card.
LEMMA HandledFinite ==
  ASSUME TypeOK
  PROVE  IsFiniteSet(handled) /\ IsFiniteSet(OnCard) /\ IsFiniteSet(Tiles)
<1>1. IsFiniteSet(Tiles)
  BY TilesAssumption, FS_Interval DEF Tiles
<1>2. handled \subseteq Tiles /\ OnCard \subseteq Tiles
  BY DEF TypeOK, OnCard
<1> QED BY <1>1, <1>2, FS_Subset

\* A tile that is counted for the first time, and is on the card if it was a success.
LEMMA OneMore ==
  ASSUME TypeOK, NEW t \in Tiles, t \notin handled,
         handled' = handled \cup {t},
         \A u \in handled : card'[u] = card[u]
  PROVE  /\ Cardinality(handled') = Cardinality(handled) + 1
         /\ Cardinality(OnCard') = Cardinality(OnCard) + (IF card'[t] # "none" THEN 1 ELSE 0)
         /\ Cardinality(OnCard) \in Nat /\ Cardinality(handled) \in Nat
<1>1. OnCard' = IF card'[t] # "none" THEN OnCard \cup {t} ELSE OnCard
  BY DEF OnCard
<1>2. t \notin OnCard
  BY DEF OnCard
<1>3. IsFiniteSet(handled) /\ IsFiniteSet(OnCard)
  BY HandledFinite
<1>4. /\ Cardinality(handled \cup {t}) = Cardinality(handled) + 1
      /\ Cardinality(OnCard \cup {t}) = Cardinality(OnCard) + 1
      /\ Cardinality(OnCard) \in Nat /\ Cardinality(handled) \in Nat
  BY <1>2, <1>3, FS_AddElement, FS_CardinalityType
<1>5. CASE card'[t] # "none"
  BY <1>1, <1>4, <1>5
<1>6. CASE card'[t] = "none"
  BY <1>1, <1>4, <1>6
<1> QED BY <1>5, <1>6

-----------------------------------------------------------------------------
(* The end of a transfer. *)

\* What finishTileDownload leaves of the file it was about.
LEMMA StoredTypes ==
  ASSUME TypeOK, NEW t \in Tiles, NEW ok \in BOOLEAN, NEW opened \in BOOLEAN, NEW content,
         ok => content \in {"good", "broken"},
         NEW s \in Stored(t, ok, opened, content)
  PROVE  /\ s.file \in {"none", "good", "broken"} /\ s.success \in BOOLEAN
         /\ s.success => s.file # "none"
<1> DEFINE kept == IF ok THEN {content, card[t], "none"}
                   ELSE IF opened THEN {"none", card[t]} ELSE {card[t]}
<1>1. kept \subseteq {"none", "good", "broken"}
  BY DEF TypeOK
<1>2. \/ s \in [file : kept, success : {FALSE}]
      \/ ok /\ s = [file |-> content, success |-> TRUE]
  BY DEF Stored
<1> HIDE DEF kept
<1>3. CASE s \in [file : kept, success : {FALSE}]
  <2>1. s.file \in kept /\ s.success = FALSE
    BY <1>3
  <2> QED BY <1>1, <2>1
<1>4. CASE ok /\ s = [file |-> content, success |-> TRUE]
  <2>1. s.file = content /\ s.success = TRUE
    BY <1>4
  <2> QED BY <1>4, <2>1
<1> QED BY <1>2, <1>3, <1>4

LEMMA FinishKeeps ==
  ASSUME IInv, InFlight, NEW ok \in BOOLEAN, NEW opened \in BOOLEAN, NEW content,
         NEW stop \in BOOLEAN, ok => content \in {"good", "broken"},
         Finish(ok, opened, content, stop), UNCHANGED environment
  PROVE  IInv'
<1> DEFINE t == transfer.tile
<1>1. PICK s \in Stored(t, ok, opened, content) :
        /\ card' = [card EXCEPT ![t] = s.file]
        /\ suppressed' = IF s.success THEN suppressed ELSE suppressed \cup {t}
        /\ job' = [(IF transfer.forJob THEN Counted(job, s.success) ELSE job)
                     EXCEPT !.active = @ /\ ~stop]
        /\ handled' = IF transfer.own THEN handled \cup {t} ELSE handled
        /\ foreign' = IF transfer.forJob /\ ~transfer.own THEN foreign + 1 ELSE foreign
        /\ transfer' = [transfer EXCEPT !.state = "idle", !.forJob = FALSE, !.own = FALSE]
  BY DEF Finish
<1>2. t \in Tiles /\ TypeOK
  BY DEF IInv, TypeOK, Transfer
<1>3. /\ s.file \in {"none", "good", "broken"} /\ s.success \in BOOLEAN
      /\ s.success => s.file # "none"
  BY <1>2, StoredTypes
<1>4. transfer' \in Transfer /\ transfer'.state = "idle" /\ ~transfer'.forJob /\ ~transfer'.own
  BY <1>1, <1>2 DEF TypeOK, Transfer
<1>5. card' \in [Tiles -> {"none", "good", "broken"}] /\ card'[t] = s.file
      /\ \A u \in Tiles : u # t => card'[u] = card[u]
  BY <1>1, <1>2, <1>3 DEF TypeOK
<1> DEFINE counted == Counted(job, s.success)
<1>6. /\ job' \in Job
      /\ job'.first = job.first /\ job'.last = job.last /\ job'.next = job.next
      /\ job'.active => job.active /\ job'.done < Total(job')
      /\ job'.done <= Total(job')
      /\ job'.verified + job'.failed = job'.done
      /\ IF transfer.forJob
         THEN /\ job'.done = job.done + 1
              /\ job'.verified = job.verified + (IF s.success THEN 1 ELSE 0)
         ELSE job'.done = job.done /\ job'.verified = job.verified
  <2>1. CASE transfer.forJob
    <3>1. /\ counted \in Job
          /\ counted.first = job.first /\ counted.last = job.last /\ counted.next = job.next
          /\ counted.done = job.done + 1 /\ counted.done <= Total(counted)
          /\ counted.verified = job.verified + (IF s.success THEN 1 ELSE 0)
          /\ counted.verified + counted.failed = job.verified + job.failed + 1
          /\ counted.active => job.active /\ counted.done < Total(counted)
      BY <1>3, <2>1, CountedCounts DEF IInv, TypeOK, Placed, Unfinished
    <3>2. job' = [counted EXCEPT !.active = @ /\ ~stop]
      BY <1>1, <2>1
    <3> HIDE DEF counted
    <3> QED BY <2>1, <3>1, <3>2 DEF IInv, Sums, Job, Total
  <2>2. CASE ~transfer.forJob
    BY <1>1, <2>2 DEF IInv, TypeOK, Placed, Unfinished, Sums, Job, Total
  <2> QED BY <2>1, <2>2
<1>f. foreign \in 0..1 /\ foreign' \in 0..1
  BY <1>1 DEF IInv, Owned, Sums
<1>7. TypeOK'
  BY <1>1, <1>2, <1>3, <1>4, <1>5, <1>6, <1>f DEF IInv, TypeOK, Placed, environment, Total
<1>8. Placed' /\ Unfinished' /\ Missing'
  BY <1>4, <1>6 DEF IInv, Placed, Unfinished, Missing, InFlight, Total
<1>9. Owned'
  BY <1>4 DEF Owned, InFlight
<1>10. Sums'
  <2>1. handled' \subseteq Passed'
    BY <1>1, <1>6 DEF IInv, Owned, Sums, Passed
  <2>2. CASE transfer.own
    <3>1. t \notin handled /\ transfer.forJob /\ handled' = handled \cup {t}
      BY <1>1, <2>2 DEF IInv, Owned
    <3>2. foreign' = foreign
      BY <1>1, <2>2
    <3>3. s.success => card'[t] # "none"
      BY <1>3, <1>5
    <3>4. \A u \in handled : card'[u] = card[u]
      BY <1>5, <3>1 DEF IInv, TypeOK
    <3>5. /\ Cardinality(handled') = Cardinality(handled) + 1
          /\ Cardinality(OnCard') = Cardinality(OnCard) + (IF card'[t] # "none" THEN 1 ELSE 0)
          /\ Cardinality(OnCard) \in Nat /\ Cardinality(handled) \in Nat
      BY <1>2, <3>1, <3>4, OneMore
    <3>6. job.verified \in Nat /\ job.done \in Nat
      BY <1>2 DEF TypeOK, Job
    <3> HIDE DEF t
    <3> QED BY <1>3, <1>6, <1>f, <2>1, <3>1, <3>2, <3>3, <3>5, <3>6 DEF IInv, Sums
  <2>3. CASE ~transfer.own
    <3>1. handled' = handled /\ foreign' = foreign + (IF transfer.forJob THEN 1 ELSE 0)
      BY <1>1, <1>f, <2>3
    <3>2. job'.active => OnCard' = OnCard
      BY <1>6, <2>3, <3>1 DEF IInv, Owned, OnCard
    <3>3. Cardinality(OnCard) \in Nat /\ Cardinality(handled) \in Nat
      BY <1>2, HandledFinite, FS_CardinalityType
    <3>4. job.verified \in Nat /\ job.done \in Nat
      BY <1>2 DEF TypeOK, Job
    <3> QED BY <1>3, <1>6, <1>f, <2>1, <3>1, <3>2, <3>3, <3>4 DEF IInv, Sums
  <2> QED BY <2>2, <2>3
<1> QED BY <1>7, <1>8, <1>9, <1>10 DEF IInv

\* And of a good tile.
LEMMA FinishSpares ==
  ASSUME IInv, InFlight, NEW ok \in BOOLEAN, NEW opened \in BOOLEAN, NEW content,
         NEW stop, Finish(ok, opened, content, stop),
         NEW t \in Tiles, card[t] = "good", card'[t] # "good"
  PROVE  transfer.tile = t /\ ~transfer.sure
  BY DEF Finish, IInv, Missing, TypeOK, Transfer

LEMMA AbortKeeps ==
  ASSUME IInv, InFlight, NEW stop \in BOOLEAN, Abort(stop), UNCHANGED environment
  PROVE  IInv'
  BY FinishKeeps DEF Abort

-----------------------------------------------------------------------------
(* The other steps. *)

\* What queueTileDownload makes of an idle transfer, or leaves of another.
LEMMA QueueCases ==
  ASSUME NEW t \in Tiles, NEW forJob \in BOOLEAN, NEW sure \in BOOLEAN, TypeOK
  PROVE  LET q == Queue(t, forJob, sure)
         IN  /\ q \in Transfer
             /\ \/ q = transfer
                \/ /\ ~InFlight /\ q.state = "queued" /\ q.tile = t
                   /\ q.forJob = forJob /\ q.own = forJob /\ q.sure = sure
<1> DEFINE new == [state |-> "queued", tile |-> t, forJob |-> forJob, own |-> forJob, sure |-> sure]
<1>1. new \in Transfer
  BY DEF Transfer
<1>2. /\ new.state = "queued" /\ new.tile = t /\ new.forJob = forJob /\ new.own = forJob
      /\ new.sure = sure
  OBVIOUS
<1>3. Queue(t, forJob, sure) = transfer \/ (~InFlight /\ Queue(t, forJob, sure) = new)
  BY DEF Queue, InFlight
<1> HIDE DEF new
<1> QED BY <1>1, <1>2, <1>3 DEF TypeOK

\* What the look at the card says.
LEMMA PresentSays ==
  ASSUME NEW t, NEW present \in Present(t)
  PROVE  /\ present.file \in BOOLEAN /\ present.sure \in BOOLEAN
         /\ present.file => card[t] # "none"
         /\ ~present.file /\ present.sure => card[t] = "none"
<1> DEFINE there == card[t] # "none"
           seen == [file |-> there, sure |-> TRUE]
           unseen == [file |-> FALSE, sure |-> FALSE]
<1>1. present = seen \/ present = unseen
  BY DEF Present
<1>2. there \in BOOLEAN
  OBVIOUS
<1>3. seen.file = there /\ seen.sure = TRUE
  <2> HIDE DEF there
  <2> QED OBVIOUS
<1>4. unseen.file = FALSE /\ unseen.sure = FALSE
  OBVIOUS
<1>5. there <=> card[t] # "none"
  OBVIOUS
<1> HIDE DEF seen, unseen, there
<1> QED BY <1>1, <1>2, <1>3, <1>4, <1>5

LEMMA InitHolds == Init => IInv
<1> SUFFICES ASSUME Init PROVE IInv
  OBVIOUS
<1>1. /\ job \in Job /\ job.first = 1 /\ job.last = 1 /\ job.next = 1 /\ ~job.active
      /\ job.done = 0 /\ job.verified = 0 /\ job.failed = 0 /\ Total(job) = 1
  BY TilesAssumption DEF Init, Job, Tiles, Total
<1>2. transfer \in Transfer /\ ~InFlight /\ ~transfer.forJob /\ ~transfer.own
  BY TilesAssumption DEF Init, Transfer, Tiles, InFlight
<1>5. /\ card \in [Tiles -> {"none", "good", "broken"}]
      /\ suppressed \subseteq Tiles /\ handled \subseteq Tiles
      /\ EnvironmentOK /\ foreign = 0
  BY DEF Init, EnvironmentOK
<1>3. TypeOK
  BY <1>1, <1>2, <1>5 DEF TypeOK, EnvironmentOK
<1>4. handled = {} /\ Cardinality(handled) = 0
  BY FS_EmptySet DEF Init
<1> QED BY <1>1, <1>2, <1>3, <1>4, <1>5
        DEF IInv, Placed, Passed, Unfinished, Owned, Sums, Missing

LEMMA StartKeeps ==
  ASSUME IInv, NEW first \in Tiles, NEW last \in Tiles, startMapDownload(first, last)
  PROVE  IInv'
<1>0. job' = [active |-> TRUE, first |-> first, last |-> last, next |-> first,
              done |-> 0, verified |-> 0, failed |-> 0]
  BY DEF startMapDownload
<1>1. /\ first <= last /\ handled' = {} /\ foreign' = 0
      /\ transfer' = [transfer EXCEPT !.own = FALSE]
      /\ card' = card /\ suppressed' = suppressed
      /\ wifi' = wifi /\ server' = server /\ hold' = hold
  BY DEF startMapDownload, environment
<1>2. /\ job' \in Job /\ job'.first = first /\ job'.last = last /\ job'.next = first
      /\ job'.active /\ job'.done = 0 /\ job'.verified = 0 /\ job'.failed = 0
  BY <1>0 DEF Job, Tiles
<1>9. Total(job') \in Nat \ {0} /\ first \in Nat /\ last \in Nat
  BY <1>1, <1>2, TilesAssumption DEF Total, Tiles
<1>3. /\ transfer' \in Transfer /\ transfer'.state = transfer.state /\ ~transfer'.own
      /\ transfer'.tile = transfer.tile /\ transfer'.forJob = transfer.forJob
      /\ transfer'.sure = transfer.sure
  BY <1>1 DEF IInv, TypeOK, Transfer
<1>10. /\ card' \in [Tiles -> {"none", "good", "broken"}]
       /\ suppressed' \subseteq Tiles /\ handled' \subseteq Tiles
       /\ EnvironmentOK'
  BY <1>1 DEF IInv, TypeOK, EnvironmentOK
<1>4. TypeOK'
  BY <1>1, <1>2, <1>3, <1>9, <1>10 DEF TypeOK, EnvironmentOK
<1>5. Cardinality(handled') = 0 /\ Cardinality(OnCard') = 0
  BY <1>1, FS_EmptySet DEF OnCard
<1>6. Placed' /\ Unfinished'
  BY <1>1, <1>2, <1>9 DEF Placed, Unfinished
<1>7. Owned' /\ Missing'
  BY <1>1, <1>3 DEF IInv, Owned, Missing, InFlight
<1>8. Sums'
  BY <1>1, <1>2, <1>5 DEF Sums
<1> QED BY <1>4, <1>6, <1>7, <1>8 DEF IInv

\* A tile that is there is counted, one that is not is asked for; the job passes it.
LEMMA JobStepKeeps ==
  ASSUME IInv, JobStep
  PROVE  IInv'
<1>1. TypeOK /\ ~InFlight /\ ~transfer.forJob /\ ~transfer.own /\ job.active
  BY DEF IInv, JobStep, JobRuns, InFlight, Owned
<1>2. /\ card' = card /\ suppressed' = suppressed /\ foreign' = foreign
      /\ wifi' = wifi /\ server' = server /\ hold' = hold
  BY DEF JobStep, environment
<1>3. CASE Exhausted(job) /\ job' = [job EXCEPT !.active = FALSE]
           /\ UNCHANGED <<transfer, handled>>
  <2>1. /\ job' \in Job /\ job'.first = job.first /\ job'.last = job.last
        /\ job'.next = job.next /\ job'.done = job.done /\ job'.verified = job.verified
        /\ job'.failed = job.failed /\ ~job'.active
    BY <1>1, <1>3 DEF TypeOK, Job
  <2> QED BY <1>1, <1>2, <1>3, <2>1
          DEF IInv, TypeOK, Placed, Passed, Unfinished, Owned, Sums, Missing, InFlight, Total
<1>4. ASSUME NEW present \in Present(job.next), ~Exhausted(job),
             present.file => /\ job' = Counted([job EXCEPT !.next = @ + 1], TRUE)
                             /\ transfer' = transfer /\ handled' = handled \cup {job.next},
             ~present.file => /\ job' = [job EXCEPT !.next = @ + 1]
                              /\ transfer' = Queue(job.next, TRUE, present.sure)
                              /\ handled' = handled
      PROVE  IInv'
  <2> DEFINE t == job.next
             passed == [job EXCEPT !.next = @ + 1]
  <2>1. /\ t \in Tiles /\ t \notin handled /\ t <= job.last /\ present.sure \in BOOLEAN
        /\ present.file => card[t] # "none"
        /\ ~present.file /\ present.sure => card[t] = "none"
    <3>1. t \in Tiles /\ t \notin handled /\ t <= job.last
      BY <1>4, <1>1, TilesAssumption DEF IInv, Placed, Sums, Passed, Exhausted, TypeOK, Job, Tiles
    <3>2. present.file \in BOOLEAN /\ present.sure \in BOOLEAN
          /\ (present.file => card[t] # "none")
          /\ (~present.file /\ present.sure => card[t] = "none")
      BY <1>4, PresentSays
    <3> QED BY <1>1, <1>4, <3>1, <3>2 DEF TypeOK
  <2>2. /\ passed \in Job /\ passed.first = job.first /\ passed.last = job.last
        /\ passed.next = t + 1 /\ passed.done = job.done /\ passed.verified = job.verified
        /\ passed.failed = job.failed /\ passed.active
    BY <1>1 DEF TypeOK, Job
  <2>n. /\ job.first \in Nat /\ job.last \in Nat /\ t \in Nat /\ job.done \in Nat
        /\ job.verified \in Nat /\ job.failed \in Nat
        /\ job.first <= job.last /\ job.first <= t /\ t <= job.last
        /\ handled \subseteq job.first..(t - 1) /\ handled \subseteq Tiles
    BY <1>1, <2>1 DEF IInv, Placed, Sums, Passed, TypeOK, Job, Tiles
  <2>3. Total(passed) = Total(job) /\ Total(job) \in Nat /\ job.done < Total(job)
    BY <1>1, <2>2, TotalIsNat DEF Total, IInv, Placed, Unfinished, TypeOK
  <2> HIDE DEF passed, t
  <2>t. /\ card' \in [Tiles -> {"none", "good", "broken"}] /\ suppressed' \subseteq Tiles
        /\ EnvironmentOK' /\ foreign' \in Nat
    BY <1>1, <1>2, <2>1 DEF TypeOK, EnvironmentOK
  <2>4. CASE job' = Counted(passed, TRUE) /\ transfer' = transfer
             /\ handled' = handled \cup {t} /\ present.file
    <3>1. /\ job' \in Job /\ job'.first = job.first /\ job'.last = job.last /\ job'.next = t + 1
          /\ job'.done = job.done + 1 /\ job'.done <= Total(job')
          /\ job'.verified = job.verified + 1
          /\ job'.verified + job'.failed = job.verified + job.failed + 1
          /\ job'.active => job'.done < Total(job')
      BY <2>2, <2>3, <2>4, <2>n, CountedCounts
    <3>2. /\ Cardinality(handled') = Cardinality(handled) + 1
          /\ Cardinality(OnCard') = Cardinality(OnCard) + 1
          /\ Cardinality(OnCard) \in Nat /\ Cardinality(handled) \in Nat
      BY <1>1, <1>2, <2>1, <2>4, OneMore
    <3>3. TypeOK' /\ Placed'
      <4>1. transfer' \in Transfer /\ handled' \subseteq Tiles
        BY <1>1, <2>1, <2>4, <2>n DEF TypeOK
      <4>2. /\ job'.next <= job'.last + 1 /\ job'.first <= job'.last /\ job'.first <= job'.next
        BY <2>1, <2>n, <3>1
      <4> QED BY <2>t, <3>1, <4>1, <4>2 DEF TypeOK, EnvironmentOK, Placed
    <3>4. Unfinished' /\ Owned' /\ Missing'
      BY <1>1, <2>4, <3>1 DEF Unfinished, Owned, Missing, InFlight
    <3>5. handled' \subseteq Passed'
      <4>1. Passed' = job.first..t
        BY <2>n, <3>1 DEF Passed
      <4>2. \A u \in job.first..(t - 1) : u \in job.first..t
        BY <2>n
      <4> QED BY <2>4, <2>n, <4>1, <4>2
    <3>6. Sums'
      BY <1>1, <1>2, <2>n, <3>1, <3>2, <3>5 DEF IInv, Sums
    <3> QED BY <3>3, <3>4, <3>6 DEF IInv
  <2>5. CASE job' = passed /\ transfer' = Queue(t, TRUE, present.sure) /\ handled' = handled
             /\ ~present.file
    <3>q. LET q == Queue(t, TRUE, present.sure)
          IN  /\ q \in Transfer
              /\ \/ q = transfer
                 \/ /\ ~InFlight /\ q.state = "queued" /\ q.tile = t
                    /\ q.forJob = TRUE /\ q.own = TRUE /\ q.sure = present.sure
      <4>1. TypeOK /\ t \in Tiles /\ present.sure \in BOOLEAN /\ TRUE \in BOOLEAN
        BY <1>1, <2>1
      <4> QED BY <4>1, QueueCases
    <3>1. /\ transfer' \in Transfer
          /\ \/ transfer' = transfer
             \/ transfer'.state = "queued" /\ transfer'.tile = t
                /\ transfer'.forJob /\ transfer'.own /\ transfer'.sure = present.sure
      BY <2>5, <3>q
    <3>2. TypeOK' /\ Placed'
      <4>1. handled' \subseteq Tiles /\ job' \in Job
        BY <2>2, <2>5, <2>n
      <4>2. /\ job'.next <= job'.last + 1 /\ job'.first <= job'.last /\ job'.first <= job'.next
            /\ job'.done <= Total(job')
        BY <2>1, <2>2, <2>3, <2>5, <2>n
      <4> QED BY <2>t, <3>1, <4>1, <4>2 DEF TypeOK, EnvironmentOK, Placed
    <3>3. Unfinished' /\ Missing'
      BY <1>1, <1>2, <2>1, <2>2, <2>3, <2>5, <3>1 DEF Unfinished, Missing, InFlight
    <3>4. handled' \subseteq Passed' /\ t \in Passed'
      BY <2>2, <2>5, <2>n DEF Passed
    <3>5. Owned'
      BY <1>1, <2>1, <2>5, <3>1, <3>4 DEF Owned, InFlight
    <3>6. OnCard' = OnCard
      BY <1>2, <2>5 DEF OnCard
    <3>7. Sums'
      BY <1>1, <1>2, <2>1, <2>2, <2>5, <3>4, <3>6 DEF IInv, Sums
    <3> QED BY <3>2, <3>3, <3>5, <3>7 DEF IInv
  <2>6. present.file \in BOOLEAN
    BY <1>4, PresentSays
  <2>7. CASE present.file
    BY <1>4, <2>4, <2>7 DEF passed, t
  <2>8. CASE ~present.file
    BY <1>4, <2>5, <2>8 DEF passed, t
  <2> QED BY <2>6, <2>7, <2>8
<1> QED BY <1>3, <1>4 DEF JobStep

LEMMA TransferKeeps ==
  ASSUME IInv, beginTileDownload \/ processTileDownloadChunk \/ DrivingAborts
  PROVE  IInv'
<1>1. CASE beginTileDownload
  <2>1. InFlight /\ UNCHANGED environment
    BY <1>1 DEF beginTileDownload, InFlight
  <2>2. CASE \E opened \in BOOLEAN : Finish(FALSE, opened, "none", FALSE)
    BY <2>1, <2>2, FinishKeeps
  <2>3. CASE transfer' = [transfer EXCEPT !.state = "open"]
             /\ UNCHANGED <<card, job, suppressed, handled, foreign>>
    <3>1. /\ transfer' \in Transfer /\ transfer'.state = "open" /\ transfer'.tile = transfer.tile
          /\ transfer'.forJob = transfer.forJob /\ transfer'.own = transfer.own
          /\ transfer'.sure = transfer.sure
      BY <2>3 DEF IInv, TypeOK, Transfer
    <3> QED BY <2>1, <2>3, <3>1
            DEF IInv, TypeOK, Placed, Passed, Unfinished, Owned, Sums, OnCard, Missing, InFlight,
                Total, environment
  <2> QED BY <1>1, <2>2, <2>3 DEF beginTileDownload
<1>2. CASE processTileDownloadChunk
  BY <1>2, FinishKeeps DEF processTileDownloadChunk, InFlight
<1>3. CASE DrivingAborts
  BY <1>3, AbortKeeps DEF DrivingAborts, InFlight
<1> QED BY <1>1, <1>2, <1>3

\* The end of a job touches nothing else.
LEMMA StoppedKeeps ==
  ASSUME IInv, job' = [job EXCEPT !.active = FALSE],
         UNCHANGED <<card, transfer, suppressed, handled, foreign>>,
         UNCHANGED environment
  PROVE  IInv'
<1>1. /\ job' \in Job /\ job'.first = job.first /\ job'.last = job.last
      /\ job'.next = job.next /\ job'.done = job.done /\ job'.verified = job.verified
      /\ job'.failed = job.failed /\ ~job'.active
  BY DEF IInv, TypeOK, Job
<1> QED BY <1>1
        DEF IInv, TypeOK, Placed, Passed, Unfinished, Owned, Sums, Missing, InFlight, Total,
            environment

\* The map view only takes files away while no job counts them.
LEMMA DrawFailsKeeps ==
  ASSUME IInv, NEW t \in Tiles, DrawFails(t)
  PROVE  IInv'
<1>1. /\ ~job.active /\ card' = [card EXCEPT ![t] = "none"]
      /\ transfer' = Queue(t, FALSE, TRUE)
      /\ job' = job /\ suppressed' = suppressed /\ handled' = handled /\ foreign' = foreign
      /\ wifi' = wifi /\ server' = server /\ hold' = hold
  BY DEF DrawFails, Redrawable, environment
<1>2. /\ transfer' \in Transfer
      /\ \/ transfer' = transfer
         \/ transfer'.state = "queued" /\ transfer'.tile = t /\ ~transfer'.forJob /\ ~transfer'.own
  BY <1>1, QueueCases DEF IInv
<1>3. TypeOK'
  BY <1>1, <1>2 DEF IInv, TypeOK
<1>4. Placed' /\ Unfinished' /\ Owned'
  BY <1>1, <1>2 DEF IInv, Placed, Unfinished, Owned, InFlight, Passed
<1>5. Missing'
  BY <1>1, <1>2 DEF IInv, TypeOK, Transfer, Missing, InFlight
<1>6. Sums'
  BY <1>1 DEF IInv, Sums, Passed
<1> QED BY <1>3, <1>4, <1>5, <1>6 DEF IInv

LEMMA GiveWayKeeps ==
  ASSUME IInv, GiveWay
  PROVE  IInv'
<1>1. CASE InFlight /\ Abort(TRUE)
  BY <1>1, AbortKeeps DEF GiveWay
<1>2. CASE job' = [job EXCEPT !.active = FALSE]
           /\ UNCHANGED <<card, suppressed, handled, foreign, transfer>>
  BY <1>2, StoppedKeeps DEF GiveWay
<1> QED BY <1>1, <1>2 DEF GiveWay, InFlight

\* The rest of the device, and the end of a suppression.
LEMMA SurroundingsKeep ==
  ASSUME IInv, Changes \/ (\E t \in Tiles : Expire(t)) \/ UNCHANGED vars
  PROVE  IInv'
<1>1. /\ card' = card /\ job' = job /\ transfer' = transfer /\ handled' = handled
      /\ foreign' = foreign /\ suppressed' \subseteq suppressed /\ EnvironmentOK'
  BY DEF Changes, Expire, environment, vars, IInv, TypeOK, EnvironmentOK
<1> QED BY <1>1
        DEF EnvironmentOK, IInv, TypeOK, Placed, Passed, Unfinished, Owned, Sums, OnCard, Missing, InFlight

LEMMA NextKeeps == IInv /\ [Next]_vars => IInv'
<1> SUFFICES ASSUME IInv, [Next]_vars PROVE IInv'
  OBVIOUS
<1>1. CASE \E first, last \in Tiles : startMapDownload(first, last)
  BY <1>1, StartKeeps
<1>2. CASE stopMapDownload
  BY <1>2, StoppedKeeps DEF stopMapDownload
<1>3. CASE JobStep
  BY <1>3, JobStepKeeps
<1>4. CASE beginTileDownload \/ processTileDownloadChunk \/ DrivingAborts
  BY <1>4, TransferKeeps
<1>5. CASE \E t \in Tiles : DrawFails(t)
  BY <1>5, DrawFailsKeeps
<1>6. CASE GiveWay
  BY <1>6, GiveWayKeeps
<1>7. CASE Changes \/ (\E t \in Tiles : Expire(t)) \/ UNCHANGED vars
  BY <1>7, SurroundingsKeep
<1> QED BY <1>1, <1>2, <1>3, <1>4, <1>5, <1>6, <1>7 DEF Next

-----------------------------------------------------------------------------
(* The properties. *)

LEMMA Invariance == Spec => []IInv
  BY InitHolds, NextKeeps, PTL DEF Spec

\* The job, the transfer and the card stay in their types.
THEOREM TypeCorrect == Spec => []TypeOK
  BY Invariance, PTL DEF IInv

\* "verified" and "failed" add up to what finishTileDownload and nextMapDownloadTile have
\* counted: distinct tiles of the region, and at most one transfer of an earlier job.
THEOREM CountersCount == Spec => []CountIsHandled
<1>1. IInv => CountIsHandled
  BY DEF IInv, TypeOK, Job, Placed, Sums, Passed, CountIsHandled, Region, Tiles
<1> QED BY <1>1, Invariance, PTL

\* The tiles counted as verified are on the card while the job runs, whatever locks fail.
THEOREM VerifiedTilesAreThere == Spec => []VerifiedIsOnCard
<1>1. IInv => VerifiedIsOnCard
  BY DEF IInv, Sums, OnCard, VerifiedIsOnCard
<1> QED BY <1>1, Invariance, PTL

\* Of the removals in finishTileDownload only that of a transfer asked for blindly meets a
\* good tile: where the card was looked at, the tile was not there and nothing else has put
\* it there since.  The map view removes one only while no job runs.
THEOREM GoodTilesAreLostInTwoWays == Spec => GoodTilesStay
<1> DEFINE Lost == \A t \in Tiles : card[t] = "good" /\ card'[t] # "good" =>
                     \/ ~job.active /\ DrawFails(t)
                     \/ transfer.state # "idle" /\ transfer.tile = t /\ ~transfer.sure
<1>1. IInv /\ [Next]_vars => [Lost]_vars
  <2> SUFFICES ASSUME IInv, Next, NEW t \in Tiles, card[t] = "good", card'[t] # "good"
               PROVE  \/ ~job.active /\ DrawFails(t)
                      \/ transfer.state # "idle" /\ transfer.tile = t /\ ~transfer.sure
    OBVIOUS
  <2>1. CASE beginTileDownload \/ processTileDownloadChunk
    BY <2>1, FinishSpares DEF beginTileDownload, processTileDownloadChunk, InFlight
  <2>2. CASE DrivingAborts \/ GiveWay
    BY <2>2, FinishSpares DEF DrivingAborts, GiveWay, Abort, InFlight
  <2>3. ASSUME NEW u \in Tiles, DrawFails(u) PROVE ~job.active /\ DrawFails(t)
    <3>1. u = t
      BY <2>3 DEF DrawFails, IInv, TypeOK
    <3> QED BY <2>3, <3>1 DEF DrawFails, Redrawable
  <2>4. CASE (\E first, last \in Tiles : startMapDownload(first, last))
             \/ stopMapDownload \/ JobStep \/ Changes \/ (\E u \in Tiles : Expire(u))
    BY <2>4 DEF startMapDownload, stopMapDownload, JobStep, Changes, Expire
  <2> QED BY <2>1, <2>2, <2>3, <2>4 DEF Next
<1> QED BY <1>1, Invariance, PTL DEF Spec, GoodTilesStay
=============================================================================
