-------------------------- MODULE WifiStation_proofs --------------------------
(***************************************************************************)
(* The saved networks and the reconnection, for any networks, any number   *)
(* of slots and any number of saves, scans and resets.                     *)
(*                                                                         *)
(* Two arguments.  The flash and the list are the same after every call,   *)
(* and until a write is torn the flash holds no forgotten name in any of   *)
(* its keys, so that one torn write has none to bring back.  And the slots *)
(* a sequence has gone through are the last ones before the next slot, in  *)
(* the circular order: no fewer of them than it has made attempts, or all. *)
(***************************************************************************)
EXTENDS WifiStation, Integers, FiniteSetTheorems, WellFoundedInduction, TLAPS

\* A sequence or an attempt is what counts attempts.
Rested == ~retry.sequence /\ ~retry.active => retry.attempts = 0

\* The list and its copy.
Flashed ==
  /\ nvs.count = Len(saved)
  /\ \A i \in DOMAIN saved : saved[i] = nvs.entry[i]

\* As long as no write was torn, no key holds a name that was forgotten.
Clean ==
  torn = 0 => /\ Blank \notin forgotten
              /\ \A i \in DOMAIN saved : saved[i].ssid # Blank
              /\ \A i \in Slots : nvs.entry[i].ssid \notin forgotten

\* The radio is only told of networks with a name.
Tuned == radio.state # "idle" => radio.cred.ssid # Blank

\* The radio has been told of the network the attempt is for, unless all were cleared.
Told ==
  radio.enabled /\ retry.active /\ ~skipped /\ saved # <<>> =>
    retry.current \in DOMAIN saved /\ radio.cred = saved[retry.current]

\* The network in slot i has had its turn, or has it now.
Had(i) == saved[i].ssid \in tried \/ (retry.active /\ i = retry.current)

\* From the m-th slot on, in the order of the search, every network has.
HadFrom(m) ==
  \A d \in m..Len(saved) - 1 : Turn(retry.next, d) \in Named => Had(Turn(retry.next, d))

Circled ==
  radio.enabled /\ retry.sequence /\ ~skipped /\ saved # <<>> =>
    \E m \in 0..Len(saved) : HadFrom(m) /\ (m = 0 \/ retry.attempts <= Len(saved) - m)

IInv ==
  /\ TypeOK /\ torn \in Nat /\ Rested /\ Flashed /\ Clean
  /\ ForgottenIsGone /\ AttemptIsOwn
  /\ (cut => skipped) /\ Tuned /\ Told /\ Circled

-----------------------------------------------------------------------------
(* Numbers. *)

LEMMA Smallest ==
  ASSUME NEW N \in Nat, NEW S, S \subseteq 0..N, S # {}
  PROVE  \E x \in S : \A y \in S : x <= y
<1> DEFINE T == {0..x : x \in S}
<1>1. T \subseteq SUBSET (0..N) /\ T # {}
  <2>1. \A x \in S : 0..x \subseteq 0..N
    OBVIOUS
  <2> QED BY <2>1
<1>2. IsWellFoundedOn(StrictSubsetOrdering(0..N), SUBSET (0..N))
  <2>1. IsFiniteSet(0..N)
    BY FS_Interval
  <2> QED BY <2>1, FS_FiniteSubsetsOfFinite, FS_StrictSubsetOrderingWellFounded
<1>3. PICK t \in T : \A u \in T : ~ (<<u, t>> \in StrictSubsetOrdering(0..N))
  <2> HIDE DEF T
  <2> QED BY <1>1, <1>2, WFMin
<1>4. PICK x \in S : t = 0..x
  OBVIOUS
<1>5. ASSUME NEW y \in S, y < x
      PROVE  FALSE
  <2>1. 0..y \in T /\ 0..y \subseteq t /\ x \in t /\ x \notin 0..y
    BY <1>4, <1>5
  <2> QED BY <1>1, <1>3, <2>1 DEF StrictSubsetOrdering
<1> QED BY <1>5

LEMMA ModParts ==
  ASSUME NEW L \in Nat \ {0}, NEW a \in Nat
  PROVE  a % L \in 0..(L - 1) /\ a \div L \in Nat /\ a = (a \div L) * L + (a % L)
  OBVIOUS

LEMMA ModIs ==
  ASSUME NEW L \in Nat \ {0}, NEW n, NEW q \in Nat, NEW r \in 0..(L - 1), n = q * L + r
  PROVE  n % L = r
<1>1. (q * L + r) % L = r
  OBVIOUS
<1> QED BY <1>1

LEMMA ModAdd ==
  ASSUME NEW L \in Nat \ {0}, NEW a \in Nat, NEW b \in Nat
  PROVE  ((a % L) + b) % L = (a + b) % L
<1> DEFINE c == (a % L) + b
<1>1. c \in Nat /\ a + b = (a \div L) * L + c /\ a \div L \in Nat
  BY ModParts
<1>2. c = (c \div L) * L + (c % L) /\ c \div L \in Nat /\ c % L \in 0..(L - 1)
  <2> HIDE DEF c
  <2> QED BY <1>1, ModParts
<1> HIDE DEF c
<1> DEFINE q == (a \div L) + (c \div L)
           r == c % L
<1>3. a + b = ((a \div L) + (c \div L)) * L + (c % L)
  BY <1>1, <1>2
<1>4. q \in Nat /\ r \in 0..(L - 1) /\ a + b = q * L + r
  BY <1>1, <1>2, <1>3
<1>5. r = c % L
  OBVIOUS
<1> HIDE DEF q, r
<1>6. (a + b) % L = r
  BY <1>4, ModIs
<1> QED BY <1>5, <1>6 DEF c

LEMMA ModTurn ==
  ASSUME NEW L \in Nat \ {0}, NEW a \in Nat
  PROVE  (a + L) % L = a % L
<1> DEFINE q == (a \div L) + 1
           r == a % L
<1>1. a = (a \div L) * L + (a % L) /\ a \div L \in Nat /\ a % L \in 0..(L - 1)
  BY ModParts
<1>2. a + L = ((a \div L) + 1) * L + (a % L)
  BY <1>1
<1>3. q \in Nat /\ r \in 0..(L - 1) /\ a + L = q * L + r
  BY <1>1, <1>2
<1>4. r = a % L
  OBVIOUS
<1> HIDE DEF q, r
<1> DEFINE n == a + L
<1>5. n = q * L + r
  BY <1>3
<1> HIDE DEF n
<1>6. n % L = r
  BY <1>3, <1>5, ModIs
<1> QED BY <1>4, <1>6 DEF n

-----------------------------------------------------------------------------
(* The order of the search. *)

Searchable == TypeOK /\ saved # <<>>

LEMMA ListIs ==
  ASSUME TypeOK
  PROVE  /\ Len(saved) \in 0..MaxSaved /\ DOMAIN saved = 1..Len(saved)
         /\ saved \in Seq(Cred) /\ (saved # <<>> => Len(saved) # 0)
         /\ \A i \in 1..Len(saved) : saved[i] \in Cred
  BY WifiAssumption DEF TypeOK, BoundedSeq, SeqOf

LEMMA TurnIsSlot ==
  ASSUME Searchable, NEW i \in Slots, NEW d \in Nat
  PROVE  Turn(i, d) \in 1..Len(saved) /\ Turn(i, d) \in Slots
<1>1. Len(saved) \in Nat \ {0} /\ Len(saved) <= MaxSaved /\ i - 1 + d \in Nat
  BY ListIs, WifiAssumption DEF Searchable, Slots
<1>2. (i - 1 + d) % Len(saved) \in 0..(Len(saved) - 1)
  BY <1>1, ModParts
<1> QED BY <1>1, <1>2, WifiAssumption DEF Turn, Slots

LEMMA TurnOf ==
  ASSUME NEW k \in Nat, NEW j, j = 1 + k, NEW d \in Nat
  PROVE  Turn(j, d) = 1 + ((k + d) % Len(saved))
<1>1. j - 1 + d = k + d
  OBVIOUS
<1> QED BY <1>1 DEF Turn

\* The slot after the d-th is looked at next, and all the others move up.
LEMMA TurnOn ==
  ASSUME Searchable, NEW i \in Slots, NEW d \in Nat, NEW e \in Nat
  PROVE  Turn(Turn(Turn(i, d), 1), e) = Turn(i, d + 1 + e)
<1> DEFINE L == Len(saved)
           a == i - 1 + d
<1>1. L \in Nat \ {0} /\ a \in Nat
  BY ListIs DEF Searchable, Slots
<1>2. Turn(i, d) = 1 + (a % L)
  BY DEF Turn
<1>3. a % L \in Nat
  <2> HIDE DEF a, L
  <2> QED BY <1>1, ModParts
<1>4. Turn(Turn(i, d), 1) = 1 + (((a % L) + 1) % L)
  BY <1>2, <1>3, TurnOf
<1>5. ((a % L) + 1) % L = (a + 1) % L /\ (a + 1) % L \in Nat
  <2>1. a + 1 \in Nat /\ 1 \in Nat
    BY <1>1
  <2> HIDE DEF a, L
  <2>2. ((a % L) + 1) % L = (a + 1) % L
    BY <1>1, <2>1, ModAdd
  <2>3. (a + 1) % L \in Nat
    BY <1>1, <2>1, ModParts
  <2> QED BY <2>2, <2>3
<1>6. Turn(Turn(Turn(i, d), 1), e) = 1 + ((((a + 1) % L) + e) % L)
  BY <1>4, <1>5, TurnOf
<1>7. (((a + 1) % L) + e) % L = (a + 1 + e) % L
  <2>1. a + 1 \in Nat
    BY <1>1
  <2> HIDE DEF a, L
  <2> QED BY <1>1, <2>1, ModAdd
<1>8. a + 1 + e = i - 1 + (d + 1 + e)
  BY DEF Slots
<1>9. Turn(i, d + 1 + e) = 1 + ((a + 1 + e) % L)
  BY <1>8 DEF Turn
<1> QED BY <1>6, <1>7, <1>9

LEMMA TurnAround ==
  ASSUME Searchable, NEW i \in Slots, NEW d \in Nat
  PROVE  Turn(i, d + Len(saved)) = Turn(i, d)
<1> DEFINE L == Len(saved)
           a == i - 1 + d
<1>1. L \in Nat \ {0} /\ a \in Nat /\ i - 1 + (d + L) = a + L
  BY ListIs DEF Searchable, Slots
<1>2. (a + L) % L = a % L
  <2> HIDE DEF a, L
  <2> QED BY <1>1, ModTurn
<1> QED BY <1>1, <1>2 DEF Turn

\* Every slot in use comes.
LEMMA TurnComes ==
  ASSUME Searchable, NEW i \in Slots, NEW j \in 1..Len(saved)
  PROVE  \E d \in 0..Len(saved) - 1 : Turn(i, d) = j
<1> DEFINE L == Len(saved)
           b == i - 1
           d == IF b % L <= j - 1 THEN j - 1 - (b % L) ELSE L + (j - 1) - (b % L)
<1>1. L \in Nat \ {0} /\ b \in Nat /\ j \in 1..L
  BY ListIs DEF Searchable, Slots
<1>2. b % L \in 0..(L - 1)
  <2> HIDE DEF b, L
  <2> QED BY <1>1, ModParts
<1>3. d \in 0..L - 1
  <2> HIDE DEF b, L
  <2> QED BY <1>1, <1>2
<1>4. (b + d) % L = j - 1
  <2>1. ((b % L) + d) % L = (b + d) % L
    <3>1. d \in Nat
      BY <1>3
    <3> HIDE DEF b, L, d
    <3> QED BY <1>1, <3>1, ModAdd
  <2>2. (b % L) + d = j - 1 \/ (b % L) + d = 1 * L + (j - 1)
    <3> HIDE DEF b, L
    <3> QED BY <1>1, <1>2
  <2>3. ((b % L) + d) % L = j - 1
    <3>1. j - 1 \in 0..(L - 1) /\ j - 1 = 0 * L + (j - 1)
      <4> HIDE DEF L
      <4> QED BY <1>1
    <3> HIDE DEF b, L, d
    <3> QED BY <1>1, <2>2, <3>1, ModIs
  <2> QED BY <2>1, <2>3
<1>5. Turn(i, d) = 1 + (j - 1)
  BY <1>4 DEF Turn
<1> QED BY <1>1, <1>3, <1>5

\* The search finds the first network in its order.
LEMMA SearchFinds ==
  ASSUME Searchable, Named # {}
  PROVE  \E d \in 0..Len(saved) - 1 :
           /\ FirstNamed = Turn(retry.next, d) /\ FirstNamed \in Named
           /\ \A e \in 0..d - 1 : Turn(retry.next, e) \notin Named
<1> DEFINE L == Len(saved)
           S == {d \in 0..L - 1 : Turn(retry.next, d) \in Named}
           First(d) == /\ Turn(retry.next, d) \in Named
                       /\ \A e \in 0..d - 1 : Turn(retry.next, e) \notin Named
<1>1. L \in Nat \ {0} /\ retry.next \in Slots /\ Named \subseteq 1..L
  BY ListIs DEF Searchable, TypeOK, Retry, Named
<1>2. S \subseteq 0..L /\ S # {}
  <2>1. PICK j \in Named : TRUE
    OBVIOUS
  <2>2. PICK d \in 0..L - 1 : Turn(retry.next, d) = j
    BY <1>1, TurnComes
  <2> QED BY <1>1, <2>2
<1>3. PICK d \in S : \A e \in S : d <= e
  <2> HIDE DEF S, L
  <2> QED BY <1>1, <1>2, Smallest
<1>4. First(d) /\ d \in 0..L - 1
  BY <1>1, <1>3
<1>5. FirstNamed = Turn(retry.next, CHOOSE x \in 0..L - 1 : First(x))
  BY DEF FirstNamed
<1> DEFINE c == CHOOSE x \in 0..L - 1 : First(x)
<1>6. c \in 0..L - 1 /\ First(c)
  <2> HIDE DEF First, L
  <2> QED BY <1>4
<1> HIDE DEF c
<1> QED BY <1>5, <1>6 DEF c

-----------------------------------------------------------------------------
(* The list and the flash. *)

\* Written again, slot by slot.
LEMMA WrittenIs ==
  ASSUME TypeOK, NEW list \in Seq(Cred), NEW count \in 0..MaxSaved, NEW n \in Nat
  PROVE  LET f == Written(list, count, n)
         IN  /\ f.count = count /\ f.entry \in [Slots -> Cred]
             /\ \A i \in Slots :
                  f.entry[i].ssid = IF i <= Len(list) /\ 2 * i - 1 <= n THEN list[i].ssid
                                    ELSE nvs.entry[i].ssid
<1> DEFINE name(i) == IF i <= Len(list) /\ 2 * i - 1 <= n THEN list[i].ssid
                      ELSE nvs.entry[i].ssid
           pass(i) == IF i <= Len(list) /\ 2 * i <= n THEN list[i].pass ELSE nvs.entry[i].pass
           entry == [i \in Slots |-> [ssid |-> name(i), pass |-> pass(i)]]
<1>1. \A i \in Slots : name(i) \in Name /\ pass(i) \in Name
  <2> SUFFICES ASSUME NEW i \in Slots PROVE name(i) \in Name /\ pass(i) \in Name
    OBVIOUS
  <2>3. nvs.entry \in [Slots -> Cred]
    BY DEF TypeOK
  <2>4. nvs.entry[i] \in Cred
    BY <2>3
  <2>1. nvs.entry[i] \in Cred /\ i \in Nat /\ i >= 1 /\ Len(list) \in Nat
    BY <2>4, WifiAssumption DEF Slots
  <2>2. i <= Len(list) => list[i] \in Cred
    BY <2>1
  <2> QED BY <2>1, <2>2 DEF Cred
<1>2. Written(list, count, n) = [count |-> count, entry |-> entry]
  BY DEF Written
<1>3. entry \in [Slots -> Cred] /\ \A i \in Slots : entry[i].ssid = name(i)
  <2> HIDE DEF name, pass
  <2> QED BY <1>1 DEF Cred
<1>4. /\ Written(list, count, n).count = count
      /\ Written(list, count, n).entry = entry
  <2> HIDE DEF entry
  <2> QED BY <1>2
<1> HIDE DEF entry
<1> QED BY <1>3, <1>4

\* A list with the network n in it.
LEMMA StoredIs ==
  ASSUME TypeOK, NEW n \in SSID
  PROVE  LET list == Stored(n)
         IN  /\ list \in Seq(Cred) /\ Len(list) \in 0..MaxSaved
             /\ \A i \in 1..Len(list) :
                  list[i].ssid = n \/ (i \in DOMAIN saved /\ list[i].ssid = saved[i].ssid)
<1> DEFINE cred == [ssid |-> n, pass |-> n]
           same == {i \in DOMAIN saved : saved[i].ssid = n}
           first == CHOOSE i \in same : \A j \in same : i <= j
<1>1. cred \in Cred /\ cred.ssid = n
  BY DEF Cred, Name
<1>2. Stored(n) = IF same # {} THEN [saved EXCEPT ![first] = cred]
                  ELSE IF Len(saved) < MaxSaved THEN Append(saved, cred)
                  ELSE [saved EXCEPT ![1] = cred]
  BY DEF Stored
<1> HIDE DEF cred, first, same
<1>3. ASSUME NEW i, Stored(n) = [saved EXCEPT ![i] = cred]
      PROVE  /\ Stored(n) \in Seq(Cred) /\ Len(Stored(n)) \in 0..MaxSaved
             /\ \A k \in 1..Len(Stored(n)) :
                  Stored(n)[k].ssid = n \/ (k \in DOMAIN saved /\ Stored(n)[k].ssid = saved[k].ssid)
  <2>1. /\ Stored(n) \in Seq(Cred) /\ Len(Stored(n)) = Len(saved)
        /\ \A k \in 1..Len(saved) : Stored(n)[k] = cred \/ Stored(n)[k] = saved[k]
    <3>1. saved \in [1..Len(saved) -> Cred] /\ Len(saved) \in Nat
      BY ListIs
    <3>2. /\ Stored(n) \in [1..Len(saved) -> Cred]
          /\ \A k \in 1..Len(saved) : Stored(n)[k] = cred \/ Stored(n)[k] = saved[k]
      BY <1>1, <1>3, <3>1
    <3> QED BY <3>1, <3>2
  <2> QED BY <1>1, <2>1, ListIs
<1>4. CASE Stored(n) = Append(saved, cred) /\ Len(saved) < MaxSaved
  <2>1. /\ Stored(n) \in Seq(Cred) /\ Len(Stored(n)) = Len(saved) + 1
        /\ \A k \in 1..Len(saved) : Stored(n)[k] = saved[k]
        /\ Stored(n)[Len(saved) + 1] = cred
    BY <1>1, <1>4, ListIs
  <2>2. Len(saved) \in Nat /\ DOMAIN saved = 1..Len(saved)
    BY ListIs
  <2>3. Len(Stored(n)) \in 0..MaxSaved
    BY <1>4, <2>1, <2>2, WifiAssumption
  <2> QED BY <1>1, <2>1, <2>2, <2>3
<1> QED BY <1>2, <1>3, <1>4

\* After a reset the list is what the flash holds.
LEMMA BootKeeps ==
  ASSUME NEW f, f.count \in 0..MaxSaved, f.entry \in [Slots -> Cred], Boot(f),
         inRange' \subseteq SSID, forgotten' \subseteq Name, torn' \in Nat,
         torn' = 0 => /\ Blank \notin forgotten'
                      /\ \A i \in 1..f.count : f.entry[i].ssid # Blank
                      /\ \A i \in Slots : f.entry[i].ssid \notin forgotten',
         torn' < 2 => \A i \in 1..f.count : f.entry[i].ssid \notin forgotten'
  PROVE  IInv'
<1>1. /\ nvs' = f /\ saved' = [i \in 1..f.count |-> f.entry[i]]
      /\ radio' = Asleep /\ scan' = Quiet /\ retry' = NoRetry
      /\ tried' = {} /\ cut' = FALSE /\ skipped' = FALSE
  BY DEF Boot
<1>2. 1..f.count \subseteq Slots /\ f.count \in Nat
  BY WifiAssumption DEF Slots
<1>3. /\ saved' \in [1..f.count -> Cred] /\ DOMAIN saved' = 1..f.count
      /\ Len(saved') = f.count /\ \A i \in 1..f.count : saved'[i] = f.entry[i]
  BY <1>1, <1>2
<1>4. radio' \in Radio /\ ~radio'.enabled /\ radio'.state = "idle"
  BY <1>1 DEF Radio, Asleep, Empty, Cred, Name
<1>5. retry' \in Retry /\ ~retry'.active /\ ~retry'.sequence /\ retry'.attempts = 0
  BY <1>1, WifiAssumption DEF Retry, NoRetry, Slots
<1>6. scan' \in Scan
  BY <1>1 DEF Scan, Quiet
<1>7. saved' \in BoundedSeq(Cred, MaxSaved)
  BY <1>3 DEF BoundedSeq, SeqOf
<1>8. TypeOK'
  BY <1>1, <1>4, <1>5, <1>6, <1>7 DEF TypeOK
<1>9. Rested' /\ AttemptIsOwn' /\ Tuned' /\ Told' /\ Circled'
  BY <1>4, <1>5 DEF Rested, AttemptIsOwn, Tuned, Told, Circled
<1>10. Flashed' /\ Clean' /\ ForgottenIsGone'
  BY <1>1, <1>3 DEF Flashed, Clean, ForgottenIsGone
<1> QED BY <1>1, <1>8, <1>9, <1>10 DEF IInv

LEMMA StoreKeeps ==
  ASSUME IInv, NEW n \in SSID, storeNetwork(n)
  PROVE  IInv'
<1> DEFINE list == Stored(n)
<1>1. PICK k \in 0..2 * Len(list) :
        /\ IF k = 2 * Len(list) THEN torn' = torn ELSE torn < MaxTorn /\ torn' = torn + 1
        /\ Boot(Written(list, Len(list), k))
  BY DEF storeNetwork
<1> DEFINE f == Written(list, Len(list), k)
<1>2. /\ list \in Seq(Cred) /\ Len(list) \in 0..MaxSaved
      /\ \A i \in 1..Len(list) :
           list[i].ssid = n \/ (i \in DOMAIN saved /\ list[i].ssid = saved[i].ssid)
  BY StoredIs DEF IInv
<1> HIDE DEF list
<1>3. /\ f.count = Len(list) /\ f.entry \in [Slots -> Cred]
      /\ \A i \in Slots : f.entry[i].ssid = IF i <= Len(list) /\ 2 * i - 1 <= k
                                             THEN list[i].ssid ELSE nvs.entry[i].ssid
  <2>1. k \in Nat
    BY <1>1, <1>2
  <2> QED BY <1>2, <2>1, WrittenIs DEF IInv
<1>4. Boot(f)
  BY <1>1
<1> HIDE DEF f
<1>5. /\ inRange' \subseteq SSID /\ forgotten' = forgotten \ {n} /\ forgotten' \subseteq Name
      /\ torn \in Nat /\ 1..Len(list) \subseteq Slots /\ 1..Len(list) \subseteq Nat
      /\ n # Blank /\ Len(list) \in Nat
  BY <1>2, WifiAssumption DEF storeNetwork, IInv, TypeOK, Slots
<1>6. torn < 2 => \A i \in 1..Len(list) : list[i].ssid \notin forgotten'
  BY <1>2, <1>5 DEF IInv, ForgottenIsGone
<1>7. CASE k = 2 * Len(list)
  <2>1. torn' = torn
    BY <1>1, <1>7
  <2>2. \A i \in 1..Len(list) : f.entry[i].ssid = list[i].ssid
    BY <1>3, <1>5, <1>7
  <2>3. torn = 0 => /\ Blank \notin forgotten'
                    /\ \A i \in 1..Len(list) : list[i].ssid # Blank
                    /\ \A i \in Slots : f.entry[i].ssid \notin forgotten'
    <3> SUFFICES ASSUME torn = 0
                 PROVE  /\ Blank \notin forgotten'
                        /\ \A i \in 1..Len(list) : list[i].ssid # Blank
                        /\ \A i \in Slots : f.entry[i].ssid \notin forgotten'
      OBVIOUS
    <3>1. /\ Blank \notin forgotten'
          /\ \A i \in 1..Len(list) : list[i].ssid # Blank
          /\ \A i \in Slots : nvs.entry[i].ssid \notin forgotten'
      BY <1>2, <1>5 DEF IInv, Clean
    <3>2. \A i \in Slots : i <= Len(list) => i \in 1..Len(list)
      BY <1>5, WifiAssumption DEF Slots
    <3>3. \A i \in 1..Len(list) : list[i].ssid \notin forgotten'
      BY <1>6
    <3>4. ASSUME NEW i \in Slots
          PROVE  f.entry[i].ssid \notin forgotten'
      <4>1. f.entry[i].ssid = nvs.entry[i].ssid
            \/ (i \in 1..Len(list) /\ f.entry[i].ssid = list[i].ssid)
        BY <1>3, <3>2
      <4> QED BY <3>1, <3>3, <4>1
    <3> QED BY <3>1, <3>4
  <2> QED BY <1>2, <1>3, <1>4, <1>5, <1>6, <2>1, <2>2, <2>3, BootKeeps
<1>8. CASE k # 2 * Len(list)
  <2>1. torn' = torn + 1
    BY <1>1, <1>8
  <2>2. torn' # 0 /\ torn' \in Nat /\ (torn' < 2 => torn = 0)
    BY <1>5, <2>1
  <2>3. torn = 0 => \A i \in 1..Len(list) : f.entry[i].ssid \notin forgotten'
    <3>1. torn = 0 => \A i \in Slots : nvs.entry[i].ssid \notin forgotten'
      BY <1>5 DEF IInv, Clean
    <3> QED BY <1>3, <1>5, <1>6, <3>1
  <2> QED BY <1>2, <1>3, <1>4, <1>5, <2>2, <2>3, BootKeeps
<1> QED BY <1>7, <1>8

LEMMA StoppedIs ==
  ASSUME TypeOK, NEW late \in BOOLEAN
  PROVE  Stopped(late) \in Scan
<1> DEFINE l == scan.late \/ (scan.driver /\ late)
<1>1. l \in BOOLEAN
  OBVIOUS
<1>2. Stopped(late) = [Quiet EXCEPT !.late = l]
  BY DEF Stopped
<1> HIDE DEF l
<1> QED BY <1>1, <1>2 DEF Quiet, Scan

LEMMA IdleIs ==
  ASSUME TypeOK
  PROVE  Idle \in Radio /\ Idle.state = "idle" /\ Idle.enabled = radio.enabled
  BY DEF Idle, TypeOK, Radio, Empty, Cred, Name

\* What leaves the list and the flash alone.
LEMMA FlashStays ==
  ASSUME IInv, saved' = saved, nvs' = nvs, forgotten' = forgotten, torn' = torn
  PROVE  Flashed' /\ Clean' /\ ForgottenIsGone' /\ torn' \in Nat
  BY DEF IInv, Flashed, Clean, ForgottenIsGone

\* What leaves the sequence alone, too.
LEMMA RadioKeeps ==
  ASSUME IInv, saved' = saved, nvs' = nvs, forgotten' = forgotten, torn' = torn,
         retry' = retry, tried' = tried,
         radio' \in Radio, scan' \in Scan, inRange' \subseteq SSID,
         cut' \in BOOLEAN, skipped' \in BOOLEAN, skipped => skipped', cut' => skipped',
         radio'.enabled => radio.enabled, AttemptIsOwn', Tuned',
         radio'.enabled /\ retry.active /\ ~skipped' => radio'.cred = radio.cred
  PROVE  IInv'
<1>1. TypeOK'
  BY DEF IInv, TypeOK
<1>2. Rested' /\ Told'
  BY DEF IInv, Rested, Told
<1>3. \A m : HadFrom(m) => HadFrom(m)'
  BY DEF HadFrom, Had, Turn, Named
<1>4. Circled'
  <2> SUFFICES ASSUME radio'.enabled, retry'.sequence, ~skipped', saved' # <<>>
               PROVE  \E m \in 0..Len(saved') :
                        HadFrom(m)' /\ (m = 0 \/ retry'.attempts <= Len(saved') - m)
    BY DEF Circled
  <2>1. PICK m \in 0..Len(saved) : HadFrom(m) /\ (m = 0 \/ retry.attempts <= Len(saved) - m)
    BY DEF IInv, Circled
  <2> QED BY <1>3, <2>1
<1> QED BY <1>1, <1>2, <1>4, FlashStays DEF IInv

LEMMA ClearKeeps ==
  ASSUME IInv, clearSavedNetworks
  PROVE  IInv'
<1> DEFINE names == {saved[i].ssid : i \in DOMAIN saved}
<1>1. /\ forgotten' = forgotten \cup names /\ inRange' = inRange
      /\ \E k \in 0..2 * MaxSaved :
           IF saved # <<>> /\ k < 2 * MaxSaved
           THEN torn < MaxTorn /\ torn' = torn + 1 /\ Boot(Cleared(k))
           ELSE /\ nvs' = IF saved # <<>> THEN Cleared(k) ELSE nvs
                /\ saved' = <<>> /\ torn' = torn
                /\ radio' = IF radio.state = "joined" THEN Idle ELSE radio
                /\ cut' = (cut \/ (retry.active /\ radio.state = "joined"))
                /\ skipped' = (skipped \/ cut')
                /\ IF scan.on THEN \E late \in BOOLEAN : scan' = Stopped(late)
                   ELSE UNCHANGED scan
                /\ UNCHANGED <<retry, tried>>
  BY DEF clearSavedNetworks
<1>2. PICK k \in 0..2 * MaxSaved :
        IF saved # <<>> /\ k < 2 * MaxSaved
        THEN torn < MaxTorn /\ torn' = torn + 1 /\ Boot(Cleared(k))
        ELSE /\ nvs' = IF saved # <<>> THEN Cleared(k) ELSE nvs
             /\ saved' = <<>> /\ torn' = torn
             /\ radio' = IF radio.state = "joined" THEN Idle ELSE radio
             /\ cut' = (cut \/ (retry.active /\ radio.state = "joined"))
             /\ skipped' = (skipped \/ cut')
             /\ IF scan.on THEN \E late \in BOOLEAN : scan' = Stopped(late)
                ELSE UNCHANGED scan
             /\ UNCHANGED <<retry, tried>>
  BY <1>1
<1>3. \A i \in DOMAIN saved : saved[i].ssid \in Name
  BY ListIs DEF IInv, Cred
<1>4. forgotten' \subseteq Name /\ inRange' \subseteq SSID /\ torn \in Nat
  BY <1>1, <1>3 DEF IInv, TypeOK
<1>5. /\ Wiped \in Seq(Cred) /\ Len(Wiped) = MaxSaved
      /\ \A i \in Slots : Wiped[i].ssid = Blank
  BY WifiAssumption DEF Wiped, Slots, Empty, Cred, Name
<1> DEFINE f == Cleared(k)
<1>6. /\ f.count = 0 /\ f.entry \in [Slots -> Cred]
      /\ \A i \in Slots : f.entry[i].ssid = IF i <= Len(Wiped) /\ 2 * i - 1 <= k
                                             THEN Wiped[i].ssid ELSE nvs.entry[i].ssid
  <2>1. k \in Nat /\ 0 \in 0..MaxSaved
    BY <1>2, WifiAssumption
  <2> QED BY <1>5, <2>1, WrittenIs DEF IInv, Cleared
<1>7. CASE saved # <<>> /\ k < 2 * MaxSaved
  <2>1. torn' = torn + 1 /\ Boot(f)
    BY <1>2, <1>7
  <2>2. torn' # 0 /\ torn' \in Nat /\ 0 \in 0..MaxSaved /\ 1..0 = {}
    BY <1>4, <2>1, WifiAssumption
  <2> HIDE DEF f
  <2> QED BY <1>4, <1>6, <2>1, <2>2, BootKeeps
<1>8. CASE saved # <<>> /\ ~(k < 2 * MaxSaved)
  <2>1. /\ nvs' = f /\ saved' = <<>> /\ torn' = torn
        /\ radio' = IF radio.state = "joined" THEN Idle ELSE radio
        /\ scan' = scan \/ (\E late \in BOOLEAN : scan' = Stopped(late))
        /\ retry' = retry /\ tried' = tried
    BY <1>2, <1>8
  <2>2. /\ cut' = (cut \/ (retry.active /\ radio.state = "joined"))
        /\ skipped' = (skipped \/ cut')
    BY <1>2, <1>8
  <2>3. radio' \in Radio /\ scan' \in Scan
    BY <2>1, IdleIs, StoppedIs DEF IInv, TypeOK
  <2>4. \A i \in Slots : f.entry[i].ssid = Blank
    BY <1>2, <1>5, <1>6, <1>8, WifiAssumption DEF Slots
  <2>5. /\ saved' \in BoundedSeq(Cred, MaxSaved) /\ Len(saved') = 0 /\ DOMAIN saved' = {}
    <3>1. saved' \in [1..0 -> Cred]
      BY <2>1
    <3> QED BY <2>1, <3>1, WifiAssumption DEF BoundedSeq, SeqOf
  <2> HIDE DEF f
  <2>6. TypeOK'
    BY <1>4, <1>6, <2>1, <2>2, <2>3, <2>5, WifiAssumption DEF IInv, TypeOK
  <2>7. Flashed' /\ ForgottenIsGone' /\ Rested' /\ Told' /\ Circled' /\ (cut => skipped)'
    BY <1>6, <2>1, <2>2, <2>5 DEF IInv, Flashed, ForgottenIsGone, Rested, Told, Circled
  <2>8. Clean'
    BY <1>1, <2>1, <2>4, <2>5 DEF IInv, Clean
  <2>9. AttemptIsOwn' /\ Tuned'
    BY <2>1, <2>2, IdleIs DEF IInv, AttemptIsOwn, Tuned
  <2> QED BY <1>4, <2>1, <2>6, <2>7, <2>8, <2>9 DEF IInv
<1>9. CASE saved = <<>>
  <2>1. /\ nvs' = nvs /\ saved' = saved /\ torn' = torn
        /\ radio' = IF radio.state = "joined" THEN Idle ELSE radio
        /\ scan' = scan \/ (\E late \in BOOLEAN : scan' = Stopped(late))
        /\ retry' = retry /\ tried' = tried
        /\ cut' = (cut \/ (retry.active /\ radio.state = "joined"))
        /\ skipped' = (skipped \/ cut')
    BY <1>2, <1>9
  <2>2. radio' \in Radio /\ scan' \in Scan
    BY <2>1, IdleIs, StoppedIs DEF IInv, TypeOK
  <2>3. forgotten' = forgotten
    BY <1>1, <1>9
  <2>4. AttemptIsOwn' /\ Tuned'
    BY <2>1, IdleIs DEF IInv, AttemptIsOwn, Tuned
  <2>5. /\ radio'.enabled => radio.enabled
        /\ radio'.enabled /\ retry.active /\ ~skipped' => radio'.cred = radio.cred
    BY <2>1, IdleIs DEF IInv
  <2> HIDE DEF f, names
  <2> QED BY <1>4, <2>1, <2>2, <2>3, <2>4, <2>5, RadioKeeps
<1> QED BY <1>7, <1>8, <1>9

-----------------------------------------------------------------------------
(* The radio and the scan. *)

LEMMA ScanKeeps ==
  ASSUME IInv, startWifiScan \/ stopWifiScan \/ onWifiScanDoneEvent \/ updateWifiScan
  PROVE  IInv'
<1>1. CASE startWifiScan
  <2>1. /\ radio' = IF radio.state = "joined" THEN radio ELSE Idle
        /\ cut' = (cut \/ (retry.active /\ radio.state # "joined"))
        /\ skipped' = (skipped \/ (retry.active /\ radio.state # "joined"))
        /\ saved' = saved /\ nvs' = nvs /\ forgotten' = forgotten /\ torn' = torn
        /\ retry' = retry /\ tried' = tried /\ inRange' = inRange
    BY <1>1 DEF startWifiScan
  <2>2. PICK late \in BOOLEAN : \/ scan' = [Stopped(late) EXCEPT !.on = TRUE, !.driver = TRUE]
                                \/ scan' = Stopped(late)
    BY <1>1 DEF startWifiScan
  <2>3. scan' \in Scan
    BY <2>2, StoppedIs DEF IInv, Scan
  <2>4. radio' \in Radio /\ (radio'.enabled => radio.enabled)
    BY <2>1, IdleIs DEF IInv, TypeOK
  <2>5. AttemptIsOwn' /\ Tuned'
    BY <2>1, IdleIs DEF IInv, AttemptIsOwn, Tuned
  <2>6. /\ cut' \in BOOLEAN /\ skipped' \in BOOLEAN /\ (skipped => skipped') /\ (cut' => skipped')
        /\ retry.active /\ ~skipped' => radio' = radio
    BY <2>1 DEF IInv
  <2>7. inRange' \subseteq SSID
    BY <2>1 DEF IInv, TypeOK
  <2> QED BY <2>1, <2>3, <2>4, <2>5, <2>6, <2>7, RadioKeeps
<1>2. CASE stopWifiScan \/ onWifiScanDoneEvent \/ updateWifiScan
  <2>1. /\ saved' = saved /\ nvs' = nvs /\ forgotten' = forgotten /\ torn' = torn
        /\ retry' = retry /\ tried' = tried /\ inRange' = inRange /\ radio' = radio
        /\ cut' = cut /\ skipped' = skipped
    BY <1>2 DEF stopWifiScan, onWifiScanDoneEvent, updateWifiScan, history
  <2>2. scan' \in Scan
    <3>1. \/ \E late \in BOOLEAN : scan' = Stopped(late)
          \/ scan' = [scan EXCEPT !.driver = FALSE, !.done = TRUE]
          \/ scan' = [scan EXCEPT !.late = FALSE, !.done = TRUE]
          \/ scan' = [scan EXCEPT !.on = FALSE, !.done = FALSE]
      BY <1>2 DEF stopWifiScan, onWifiScanDoneEvent, updateWifiScan
    <3> QED BY <3>1, StoppedIs DEF IInv, TypeOK, Scan
  <2>3. AttemptIsOwn' /\ Tuned'
    BY <2>1 DEF IInv, AttemptIsOwn, Tuned
  <2>4. /\ radio' \in Radio /\ inRange' \subseteq SSID /\ cut' \in BOOLEAN
        /\ skipped' \in BOOLEAN /\ (cut' => skipped')
    BY <2>1 DEF IInv, TypeOK
  <2> QED BY <2>1, <2>2, <2>3, <2>4, RadioKeeps
<1> QED BY <1>1, <1>2

LEMMA SurroundingsKeep ==
  ASSUME IInv, radioTaken \/ updateWifiTransition \/ joins \/ drops \/ moves
  PROVE  IInv'
<1>1. /\ saved' = saved /\ nvs' = nvs /\ forgotten' = forgotten /\ torn' = torn
      /\ retry' = retry /\ tried' = tried
  BY DEF radioTaken, updateWifiTransition, joins, drops, moves, history
<1>2. inRange' \subseteq SSID
  BY DEF radioTaken, updateWifiTransition, joins, drops, moves, history, IInv, TypeOK
<1>3. scan' \in Scan
  BY StoppedIs DEF radioTaken, updateWifiTransition, joins, drops, moves, IInv, TypeOK
<1>4. CASE radioTaken
  <2>1. radio' = Asleep /\ cut' = cut /\ skipped' = skipped
    BY <1>4 DEF radioTaken
  <2>2. radio' \in Radio /\ ~radio'.enabled /\ radio'.state = "idle"
    BY <2>1 DEF Radio, Asleep, Empty, Cred, Name
  <2>3. AttemptIsOwn' /\ Tuned'
    BY <2>2 DEF AttemptIsOwn, Tuned
  <2>4. cut' \in BOOLEAN /\ skipped' \in BOOLEAN /\ (cut' => skipped') /\ (skipped => skipped')
    BY <2>1 DEF IInv, TypeOK
  <2> QED BY <1>1, <1>2, <1>3, <2>2, <2>3, <2>4, RadioKeeps
<1>5. CASE updateWifiTransition \/ joins \/ moves
  <2>1. /\ cut' = cut /\ skipped' = skipped
        /\ \/ radio' = radio
           \/ radio' = [radio EXCEPT !.transition = FALSE]
           \/ radio.state = "trying" /\ radio' = [radio EXCEPT !.state = "joined"]
    BY <1>5 DEF updateWifiTransition, joins, moves, history
  <2>2. /\ radio' \in Radio /\ radio'.enabled = radio.enabled /\ radio'.cred = radio.cred
        /\ radio'.state = "idle" <=> radio.state = "idle"
    BY <2>1 DEF IInv, TypeOK, Radio
  <2>3. AttemptIsOwn' /\ Tuned'
    BY <1>1, <2>1, <2>2 DEF IInv, AttemptIsOwn, Tuned
  <2>4. cut' \in BOOLEAN /\ skipped' \in BOOLEAN /\ (cut' => skipped') /\ (skipped => skipped')
    BY <2>1 DEF IInv, TypeOK
  <2> QED BY <1>1, <1>2, <1>3, <2>2, <2>3, <2>4, RadioKeeps
<1>6. CASE drops
  <2>1. /\ radio.state = "joined"
        /\ radio' = IF scan.on THEN Idle ELSE [radio EXCEPT !.state = "trying"]
        /\ cut' = (cut \/ (scan.on /\ retry.active)) /\ skipped' = (skipped \/ cut')
    BY <1>6 DEF drops
  <2>2. /\ scan.on => radio' = Idle
        /\ ~scan.on => /\ radio' \in Radio /\ radio'.enabled = radio.enabled
                       /\ radio'.cred = radio.cred /\ radio'.state = "trying"
    BY <2>1 DEF IInv, TypeOK, Radio
  <2>3. radio' \in Radio /\ radio'.enabled = radio.enabled
    BY <2>2, IdleIs DEF IInv
  <2>4. AttemptIsOwn' /\ Tuned'
    BY <1>1, <2>1, <2>2, IdleIs DEF IInv, AttemptIsOwn, Tuned
  <2>5. /\ cut' \in BOOLEAN /\ skipped' \in BOOLEAN /\ (cut' => skipped') /\ (skipped => skipped')
        /\ retry.active /\ ~skipped' => ~scan.on
    BY <2>1 DEF IInv, TypeOK
  <2> QED BY <1>1, <1>2, <1>3, <2>2, <2>3, <2>4, <2>5, RadioKeeps
<1> QED BY <1>4, <1>5, <1>6

\* With a sequence before its first attempt, or none.
LEMMA EnableKeeps ==
  ASSUME IInv, enable
  PROVE  IInv'
<1>1. /\ ~radio.enabled /\ saved' = saved /\ nvs' = nvs /\ forgotten' = forgotten
      /\ torn' = torn /\ scan' = scan /\ inRange' = inRange
  BY DEF enable
<1>2. CASE /\ radio' = [Idle EXCEPT !.enabled = TRUE, !.transition = TRUE]
           /\ retry' = Fresh /\ tried' = {} /\ cut' = FALSE /\ skipped' = FALSE
  <2> DEFINE sequence == saved # <<>>
  <2>1. sequence \in BOOLEAN
    OBVIOUS
  <2>2. retry' = [retry EXCEPT !.sequence = sequence, !.active = FALSE, !.attempts = 0]
    BY <1>2 DEF Fresh
  <2> HIDE DEF sequence
  <2>8. retry \in Retry /\ 0 \in 0..MaxSaved
    BY WifiAssumption DEF IInv, TypeOK
  <2>3. retry' \in Retry /\ ~retry'.active /\ retry'.attempts = 0 /\ retry'.next = retry.next
    BY <2>1, <2>2, <2>8 DEF Retry
  <2>4. radio' \in Radio /\ radio'.state = "idle"
    BY <1>2, IdleIs DEF IInv, Radio
  <2>5. TypeOK'
    BY <1>1, <1>2, <2>3, <2>4 DEF IInv, TypeOK
  <2>6. Rested' /\ AttemptIsOwn' /\ Tuned' /\ Told' /\ (cut => skipped)'
    BY <1>2, <2>3, <2>4 DEF Rested, AttemptIsOwn, Tuned, Told
  <2>7. Circled'
    <3>1. Len(saved') \in Nat
      BY <1>1, ListIs DEF IInv
    <3>2. HadFrom(Len(saved))' /\ retry'.attempts <= Len(saved') - Len(saved')
      BY <2>3, <3>1 DEF HadFrom
    <3> QED BY <3>1, <3>2 DEF Circled
  <2> QED BY <1>1, <2>5, <2>6, <2>7, FlashStays DEF IInv
<1>3. CASE radio' = [radio EXCEPT !.transition = TRUE] /\ UNCHANGED <<retry, tried, cut, skipped>>
  <2>1. radio' \in Radio /\ ~radio'.enabled /\ radio'.cred = radio.cred /\ radio'.state = radio.state
    BY <1>1, <1>3 DEF IInv, TypeOK, Radio
  <2>2. AttemptIsOwn' /\ Tuned'
    BY <2>1 DEF IInv, AttemptIsOwn, Tuned
  <2>3. /\ cut' \in BOOLEAN /\ skipped' \in BOOLEAN /\ (cut' => skipped') /\ (skipped => skipped')
        /\ scan' \in Scan /\ inRange' \subseteq SSID
    BY <1>1, <1>3 DEF IInv, TypeOK
  <2> QED BY <1>1, <1>3, <2>1, <2>2, <2>3, RadioKeeps
<1> QED BY <1>2, <1>3 DEF enable

LEMMA DisableKeeps ==
  ASSUME IInv, disable
  PROVE  IInv'
<1> DEFINE here == {i \in DOMAIN saved : radio.state = "joined" /\ saved[i].ssid = radio.cred.ssid}
           next == IF here = {} THEN retry.next
                   ELSE CHOOSE i \in here : \A j \in here : i <= j
<1>1. /\ saved' = saved /\ nvs' = nvs /\ forgotten' = forgotten /\ torn' = torn
      /\ inRange' = inRange /\ tried' = tried /\ cut' = cut /\ skipped' = skipped
      /\ retry' = [NoRetry EXCEPT !.next = next, !.current = retry.current]
      /\ radio' = [Idle EXCEPT !.enabled = FALSE, !.transition = TRUE]
      /\ scan' = scan \/ (\E late \in BOOLEAN : scan' = Stopped(late))
  BY DEF disable
<1>2. next \in Slots
  <2>1. CASE here = {}
    BY <2>1 DEF IInv, TypeOK, Retry
  <2>2. CASE here # {}
    <3>1. here \subseteq 0..Len(saved) /\ Len(saved) \in Nat
      BY ListIs DEF IInv
    <3>2. \E i \in here : \A j \in here : i <= j
      <4> HIDE DEF here
      <4> QED BY <2>2, <3>1, Smallest
    <3>3. next \in here
      <4> HIDE DEF here
      <4> QED BY <2>2, <3>2
    <3>4. here \subseteq Slots
      BY ListIs, WifiAssumption DEF IInv, Slots
    <3> QED BY <3>3, <3>4
  <2> QED BY <2>1, <2>2
<1> HIDE DEF next
<1>3. retry' \in Retry /\ ~retry'.active /\ ~retry'.sequence /\ retry'.attempts = 0
  <2>1. retry' = [sequence |-> FALSE, active |-> FALSE, attempts |-> 0, next |-> next,
                  current |-> retry.current]
    BY <1>1 DEF NoRetry
  <2>2. retry.current \in Slots /\ 0 \in 0..MaxSaved
    BY WifiAssumption DEF IInv, TypeOK, Retry
  <2> QED BY <1>2, <2>1, <2>2 DEF Retry
<1>4. radio' \in Radio /\ ~radio'.enabled /\ radio'.state = "idle"
  BY <1>1, IdleIs DEF IInv, Radio
<1>5. scan' \in Scan
  BY <1>1, StoppedIs DEF IInv, TypeOK
<1>6. TypeOK'
  BY <1>1, <1>3, <1>4, <1>5 DEF IInv, TypeOK
<1>7. Rested' /\ AttemptIsOwn' /\ Tuned' /\ Told' /\ Circled' /\ (cut => skipped)'
  BY <1>1, <1>3, <1>4 DEF IInv, Rested, AttemptIsOwn, Tuned, Told, Circled
<1> QED BY <1>1, <1>6, <1>7, FlashStays DEF IInv

-----------------------------------------------------------------------------
(* The reconnection. *)

\* An attempt goes on round the circle: what it skips has no name, and what it begins with
\* has its turn.
LEMMA BeginCircles ==
  ASSUME IInv, saved # <<>>, Named # {}, ~retry.active, saved' = saved, tried' = tried,
         retry'.active, retry'.attempts = retry.attempts + 1, retry'.current = FirstNamed,
         retry'.next = Turn(FirstNamed, 1),
         NEW m \in 0..Len(saved), HadFrom(m), m = 0 \/ retry.attempts <= Len(saved) - m
  PROVE  \E k \in 0..Len(saved) : HadFrom(k)' /\ (k = 0 \/ retry'.attempts <= Len(saved) - k)
<1> DEFINE L == Len(saved)
<1>1. Searchable /\ L \in Nat \ {0} /\ retry.next \in Slots /\ retry.attempts \in Nat
  BY ListIs, WifiAssumption DEF IInv, Searchable, TypeOK, Retry
<1>2. PICK d \in 0..L - 1 :
        /\ FirstNamed = Turn(retry.next, d) /\ FirstNamed \in Named
        /\ \A e \in 0..d - 1 : Turn(retry.next, e) \notin Named
  BY <1>1, SearchFinds
<1> DEFINE k == IF d >= m THEN 0 ELSE m - d - 1
<1>3. /\ k \in 0..L /\ (k = 0 \/ retry'.attempts <= L - k)
      /\ \A e \in k..L - 1 : d + 1 + e >= m
  <2>1. /\ m \in 0..L /\ (m = 0 \/ retry.attempts <= L - m) /\ d \in 0..L - 1
        /\ retry'.attempts = retry.attempts + 1
    OBVIOUS
  <2> HIDE DEF L
  <2> QED BY <1>1, <2>1
<1>4. HadFrom(k)'
  <2> SUFFICES ASSUME NEW e \in k..L - 1, Turn(retry'.next, e) \in Named
               PROVE  saved[Turn(retry'.next, e)].ssid \in tried \/ Turn(retry'.next, e) = FirstNamed
    BY DEF HadFrom, Had, Turn, Named
  <2> DEFINE g == d + 1 + e
  <2>0. e \in Nat /\ d \in Nat /\ g \in Nat /\ g >= m /\ m \in Nat /\ e < L /\ d < L
    <3> HIDE DEF L
    <3> QED BY <1>1, <1>2, <1>3
  <2>1. Turn(retry'.next, e) = Turn(retry.next, g)
    BY <1>1, <1>2, <2>0, TurnOn
  <2>2. CASE g < L
    <3>1. g \in m..L - 1
      <4> HIDE DEF g, L
      <4> QED BY <1>1, <2>0, <2>2
    <3>2. Had(Turn(retry.next, g))
      <4> HIDE DEF g
      <4> QED BY <2>1, <3>1 DEF HadFrom
    <3> HIDE DEF g
    <3> QED BY <2>1, <3>2 DEF Had
  <2>3. CASE g >= L
    <3> DEFINE h == g - L
    <3>1. h \in 0..d /\ g = h + L
      BY <1>1, <2>0, <2>3
    <3>2. h \in Nat
      BY <3>1, <2>0
    <3>3. Turn(retry.next, g) = Turn(retry.next, h)
      <4> HIDE DEF g, h
      <4> QED BY <1>1, <3>1, <3>2, TurnAround
    <3>4. h = d \/ h \in 0..d - 1
      <4> HIDE DEF h
      <4> QED BY <2>0, <3>1
    <3> HIDE DEF g, h
    <3> QED BY <1>2, <2>1, <3>3, <3>4
  <2> HIDE DEF g
  <2> QED BY <1>1, <2>0, <2>2, <2>3
<1> HIDE DEF k, L
<1> QED BY <1>3, <1>4 DEF L

LEMMA BeginKeeps ==
  ASSUME IInv, Waits, Named # {}, retry.sequence => retry.attempts < Len(saved), Begin,
         UNCHANGED <<saved, nvs, inRange, tried, forgotten, skipped, torn>>
  PROVE  IInv'
<1>1. /\ saved' = saved /\ nvs' = nvs /\ forgotten' = forgotten /\ torn' = torn
      /\ inRange' = inRange /\ tried' = tried /\ skipped' = skipped /\ cut' = FALSE
      /\ ~retry.active /\ radio.enabled
  BY DEF Begin, Waits
<1>2. saved # <<>> /\ Searchable
  BY ListIs DEF Named, IInv, Searchable
<1> DEFINE i == FirstNamed
<1>3. i \in Named /\ i \in 1..Len(saved) /\ i \in Slots
  <2>1. i \in Named
    BY <1>2, SearchFinds
  <2> HIDE DEF i
  <2>2. Named \subseteq 1..Len(saved) /\ 1..Len(saved) \subseteq Slots
    BY ListIs, WifiAssumption DEF IInv, Named, Slots
  <2> QED BY <2>1, <2>2
<1>4. /\ radio' = [radio EXCEPT !.state = "trying", !.cred = saved[i]]
      /\ retry' = [retry EXCEPT !.active = TRUE, !.attempts = retry.attempts + 1, !.current = i,
                                !.next = Turn(i, 1)]
      /\ \E late \in BOOLEAN : scan' = Stopped(late)
  BY DEF Begin
<1> DEFINE on == Turn(i, 1)
<1>5. on \in Slots
  <2> HIDE DEF i
  <2> QED BY <1>2, <1>3, TurnIsSlot
<1>6. i = FirstNamed /\ on = Turn(FirstNamed, 1)
  OBVIOUS
<1>7. retry' = [retry EXCEPT !.active = TRUE, !.attempts = retry.attempts + 1, !.current = i,
                             !.next = on]
  BY <1>4
<1> HIDE DEF i, on
<1>8. retry.attempts + 1 \in 0..MaxSaved
  <2>1. retry.attempts \in Nat /\ Len(saved) \in 0..MaxSaved /\ MaxSaved \in Nat \ {0}
    BY ListIs, WifiAssumption DEF IInv, TypeOK, Retry
  <2>2. ~retry.sequence => retry.attempts = 0
    BY <1>1 DEF IInv, Rested
  <2> QED BY <2>1, <2>2
<1>9. /\ retry' \in Retry /\ retry'.active /\ retry'.attempts = retry.attempts + 1
      /\ retry'.current = i /\ retry'.next = on /\ retry'.sequence = retry.sequence
  BY <1>3, <1>5, <1>7, <1>8 DEF IInv, TypeOK, Retry
<1>10. /\ radio' \in Radio /\ radio'.enabled /\ radio'.state = "trying" /\ radio'.cred = saved[i]
       /\ saved[i] \in Cred /\ saved[i].ssid # Blank
  <2>1. saved[i] \in Cred /\ saved[i].ssid # Blank
    BY <1>3, ListIs DEF IInv, Named
  <2> QED BY <1>1, <1>4, <2>1 DEF IInv, TypeOK, Radio
<1>11. TypeOK'
  <2>1. scan' \in Scan
    BY <1>4, StoppedIs DEF IInv
  <2> QED BY <1>1, <1>9, <1>10, <2>1 DEF IInv, TypeOK
<1>12. Rested' /\ AttemptIsOwn' /\ Tuned' /\ (cut => skipped)'
  BY <1>1, <1>9, <1>10 DEF Rested, AttemptIsOwn, Tuned
<1>13. Told'
  BY <1>1, <1>3, <1>9, <1>10, ListIs DEF Told, IInv
<1>14. Circled'
  <2> SUFFICES ASSUME retry'.sequence, ~skipped'
               PROVE  \E k \in 0..Len(saved) : HadFrom(k)' /\ (k = 0 \/ retry'.attempts <= Len(saved) - k)
    BY <1>1 DEF Circled
  <2>1. PICK m \in 0..Len(saved) : HadFrom(m) /\ (m = 0 \/ retry.attempts <= Len(saved) - m)
    BY <1>1, <1>2, <1>9 DEF IInv, Circled
  <2> QED BY <1>1, <1>2, <1>6, <1>9, <2>1, BeginCircles
<1> QED BY <1>1, <1>11, <1>12, <1>13, <1>14, FlashStays DEF IInv

LEMMA SequenceKeeps ==
  ASSUME IInv, sequenceStep \/ backgroundReconnect
  PROVE  IInv'
<1>1. /\ Waits /\ saved' = saved /\ nvs' = nvs /\ forgotten' = forgotten /\ torn' = torn
      /\ inRange' = inRange /\ tried' = tried /\ skipped' = skipped
  BY DEF sequenceStep, backgroundReconnect
<1>2. CASE sequenceStep /\ ~(retry.attempts < Len(saved) /\ Named # {})
  <2>1. /\ retry' = [retry EXCEPT !.sequence = FALSE, !.attempts = 0]
        /\ radio' = radio /\ scan' = scan /\ cut' = cut
    BY <1>2 DEF sequenceStep
  <2>2. retry \in Retry /\ 0 \in 0..MaxSaved /\ ~retry.active
    BY <1>1, WifiAssumption DEF IInv, TypeOK, Waits
  <2>3. retry' \in Retry /\ ~retry'.sequence /\ retry'.attempts = 0 /\ ~retry'.active
    BY <2>1, <2>2 DEF Retry
  <2>4. TypeOK'
    BY <1>1, <2>1, <2>3 DEF IInv, TypeOK
  <2>5. Rested' /\ AttemptIsOwn' /\ Tuned' /\ Told' /\ Circled' /\ (cut => skipped)'
    BY <1>1, <2>1, <2>3 DEF IInv, Rested, AttemptIsOwn, Tuned, Told, Circled
  <2> QED BY <1>1, <2>4, <2>5, FlashStays DEF IInv
<1>3. CASE sequenceStep /\ retry.attempts < Len(saved) /\ Named # {}
  BY <1>1, <1>3, BeginKeeps DEF sequenceStep
<1>4. CASE backgroundReconnect
  BY <1>1, <1>4, BeginKeeps DEF backgroundReconnect
<1> QED BY <1>2, <1>3, <1>4

LEMMA OverIs ==
  ASSUME TypeOK
  PROVE  /\ Over \in Retry /\ ~Over.active /\ ~Over.sequence /\ Over.attempts = 0
         /\ [Over EXCEPT !.next = retry.current] \in Retry
         /\ ~[Over EXCEPT !.next = retry.current].active
         /\ ~[Over EXCEPT !.next = retry.current].sequence
         /\ [Over EXCEPT !.next = retry.current].attempts = 0
<1>1. retry \in Retry /\ retry.current \in Slots /\ 0 \in 0..MaxSaved
  BY WifiAssumption DEF TypeOK, Retry
<1>2. Over = [retry EXCEPT !.active = FALSE, !.sequence = FALSE, !.attempts = 0]
  BY DEF Over
<1>3. Over \in Retry /\ ~Over.active /\ ~Over.sequence /\ Over.attempts = 0
  BY <1>1, <1>2 DEF Retry
<1> DEFINE o == Over
           p == [o EXCEPT !.next = retry.current]
<1>4. p \in Retry /\ ~p.active /\ ~p.sequence /\ p.attempts = 0
  <2>1. o \in Retry /\ ~o.active /\ ~o.sequence /\ o.attempts = 0
    BY <1>3
  <2> HIDE DEF o
  <2> QED BY <1>1, <2>1 DEF Retry
<1> QED BY <1>3, <1>4

\* The network of the attempt has had its turn.
LEMMA EndTries ==
  ASSUME IInv, attemptEnds, radio.enabled, ~skipped, saved # <<>>, radio.state # "joined", NEW i, Had(i)
  PROVE  saved[i].ssid \in tried'
<1>1. CASE saved[i].ssid \in tried
  BY <1>1 DEF attemptEnds
<1>2. CASE retry.active /\ i = retry.current
  <2>1. radio.cred = saved[i]
    BY <1>2 DEF IInv, Told
  <2>2. radio.state = "trying"
    BY <1>2 DEF IInv, AttemptIsOwn, TypeOK, Radio
  <2> QED BY <2>1, <2>2 DEF attemptEnds
<1> QED BY <1>1, <1>2 DEF Had

LEMMA AttemptEndsKeeps ==
  ASSUME IInv, attemptEnds
  PROVE  IInv'
<1>1. /\ retry.active /\ saved' = saved /\ nvs' = nvs /\ forgotten' = forgotten
      /\ torn' = torn /\ inRange' = inRange /\ scan' = scan /\ cut' = cut /\ skipped' = skipped
  BY DEF attemptEnds
<1>2. tried \subseteq tried' /\ tried' \subseteq SSID
  <2>1. radio.state = "trying" => radio.cred.ssid \in SSID
    BY DEF IInv, Tuned, TypeOK, Radio, Cred, Name
  <2> QED BY <2>1 DEF attemptEnds, IInv, TypeOK
<1>3. /\ radio' \in Radio /\ Tuned' /\ radio'.enabled = radio.enabled
      /\ radio.state = "joined" => radio' = radio
  BY IdleIs DEF attemptEnds, IInv, TypeOK, Tuned
<1>4. CASE retry' = Over \/ retry' = [Over EXCEPT !.next = retry.current]
  <2>1. retry' \in Retry /\ ~retry'.active /\ ~retry'.sequence /\ retry'.attempts = 0
    <3> HIDE DEF Over
    <3> QED BY <1>4, OverIs DEF IInv
  <2>2. TypeOK'
    BY <1>1, <1>2, <1>3, <2>1 DEF IInv, TypeOK
  <2>3. Rested' /\ AttemptIsOwn' /\ Told' /\ Circled' /\ (cut => skipped)'
    BY <1>1, <2>1 DEF IInv, Rested, AttemptIsOwn, Told, Circled
  <2> QED BY <1>1, <1>3, <2>2, <2>3, FlashStays DEF IInv
<1>5. CASE retry' = [retry EXCEPT !.active = FALSE] /\ retry.sequence /\ radio.state # "joined"
  <2>1. /\ retry' \in Retry /\ ~retry'.active /\ retry'.sequence
        /\ retry'.attempts = retry.attempts /\ retry'.next = retry.next
    BY <1>5 DEF IInv, TypeOK, Retry
  <2>2. TypeOK'
    BY <1>1, <1>2, <1>3, <2>1 DEF IInv, TypeOK
  <2>3. Rested' /\ AttemptIsOwn' /\ Told' /\ (cut => skipped)'
    BY <1>1, <2>1 DEF IInv, Rested, AttemptIsOwn, Told
  <2>4. Circled'
    <3> SUFFICES ASSUME radio'.enabled, ~skipped', saved' # <<>>
                 PROVE  \E m \in 0..Len(saved') :
                          HadFrom(m)' /\ (m = 0 \/ retry'.attempts <= Len(saved') - m)
      BY DEF Circled
    <3>1. PICK m \in 0..Len(saved) : HadFrom(m) /\ (m = 0 \/ retry.attempts <= Len(saved) - m)
      BY <1>1, <1>3, <1>5 DEF IInv, Circled
    <3>2. \A i : Had(i) => saved[i].ssid \in tried'
      BY <1>1, <1>3, <1>5, EndTries
    <3>3. HadFrom(m)'
      <4> SUFFICES ASSUME NEW d \in m..Len(saved) - 1, Turn(retry.next, d) \in Named
                   PROVE  saved[Turn(retry.next, d)].ssid \in tried'
        BY <1>1, <2>1 DEF HadFrom, Had, Turn, Named
      <4> QED BY <3>1, <3>2 DEF HadFrom
    <3> QED BY <1>1, <2>1, <3>1, <3>3
  <2> QED BY <1>1, <1>3, <2>2, <2>3, <2>4, FlashStays DEF IInv
<1> QED BY <1>4, <1>5 DEF attemptEnds

-----------------------------------------------------------------------------
(* The properties. *)

LEMMA InitHolds == Init => IInv
<1> SUFFICES ASSUME Init PROVE IInv
  OBVIOUS
<1> DEFINE f == [count |-> 0, entry |-> Wiped]
<1>1. /\ nvs = f /\ saved = <<>> /\ radio = Asleep /\ scan = Quiet /\ retry = NoRetry
      /\ inRange \subseteq SSID /\ tried = {} /\ forgotten = {} /\ cut = FALSE
      /\ skipped = FALSE /\ torn = 0
  BY DEF Init
<1>2. nvs.count = 0 /\ nvs.entry = Wiped
  BY <1>1
<1>3. nvs.entry \in [Slots -> Cred] /\ 0 \in 0..MaxSaved
  BY <1>2, WifiAssumption DEF Wiped, Empty, Cred, Name
<1>4. saved \in BoundedSeq(Cred, MaxSaved) /\ Len(saved) = 0 /\ DOMAIN saved = {}
  <2>1. saved \in [1..0 -> Cred]
    BY <1>1
  <2> QED BY <1>1, <2>1, WifiAssumption DEF BoundedSeq, SeqOf
<1>5. radio \in Radio /\ ~radio.enabled /\ radio.state = "idle"
  BY <1>1 DEF Radio, Asleep, Empty, Cred, Name
<1>6. retry \in Retry /\ ~retry.active /\ ~retry.sequence /\ retry.attempts = 0
  BY <1>1, WifiAssumption DEF Retry, NoRetry, Slots
<1>7. scan \in Scan
  BY <1>1 DEF Scan, Quiet
<1> HIDE DEF f
<1>8. TypeOK
  BY <1>1, <1>2, <1>3, <1>4, <1>5, <1>6, <1>7 DEF TypeOK
<1>9. Rested /\ AttemptIsOwn /\ Tuned /\ Told /\ Circled
  BY <1>5, <1>6 DEF Rested, AttemptIsOwn, Tuned, Told, Circled
<1>10. Flashed /\ Clean /\ ForgottenIsGone
  BY <1>1, <1>2, <1>4 DEF Flashed, Clean, ForgottenIsGone
<1> QED BY <1>1, <1>8, <1>9, <1>10 DEF IInv

LEMMA NextKeeps == IInv /\ [Next]_vars => IInv'
<1> SUFFICES ASSUME IInv, [Next]_vars PROVE IInv'
  OBVIOUS
<1>1. CASE Next
  BY <1>1, StoreKeeps, ClearKeeps, ScanKeeps, EnableKeeps, DisableKeeps, SurroundingsKeep,
     SequenceKeeps, AttemptEndsKeeps DEF Next
<1>2. CASE UNCHANGED vars
  <2>1. /\ saved' = saved /\ nvs' = nvs /\ forgotten' = forgotten /\ torn' = torn
        /\ retry' = retry /\ tried' = tried /\ radio' = radio /\ scan' = scan
        /\ inRange' = inRange /\ cut' = cut /\ skipped' = skipped
    BY <1>2 DEF vars
  <2>2. /\ radio' \in Radio /\ scan' \in Scan /\ inRange' \subseteq SSID
        /\ cut' \in BOOLEAN /\ skipped' \in BOOLEAN /\ (cut' => skipped')
    BY <2>1 DEF IInv, TypeOK
  <2>3. AttemptIsOwn' /\ Tuned'
    BY <2>1 DEF IInv, AttemptIsOwn, Tuned
  <2> QED BY <2>1, <2>2, <2>3, RadioKeeps
<1> QED BY <1>1, <1>2

LEMMA Invariance == Spec => []IInv
  BY InitHolds, NextKeeps, PTL DEF Spec

\* The list, its copy in flash and the globals of the reconnection keep their types: no
\* index leaves savedCreds, and no sequence makes more attempts than there are slots.
THEOREM TypeCorrect == Spec => []TypeOK
  BY Invariance, PTL DEF IInv

\* An attempt the loop waits for is one the radio was told of: setWifiEnabled has dropped
\* whatever suspendWifiForSdr, stopWifiForBleRadio or the panic guard left behind.
THEOREM NoAttemptOfTheLastTime == Spec => []AttemptIsOwn
  BY Invariance, PTL DEF IInv

\* clearSavedNetworks writes empty names over all keys, so that one reset in the middle of
\* a write, of its own or of a later storeNetwork, has no forgotten name to bring back.  A
\* second one may find what the first has left: the statement is about torn < 2.
THEOREM OneTornWriteBringsNothingBack == Spec => []ForgottenIsGone
  BY Invariance, PTL DEF IInv

\* The reconnection that follows setWifiEnabled(true) is only given up when every saved
\* network had its 8 s, wherever the search began and whichever slots are empty.
THEOREM EveryNetworkHasItsTurn == Spec => SequenceTriesAll
<1> DEFINE Given == retry.sequence /\ ~retry'.sequence /\ radio.enabled /\ radio'.enabled
                      /\ radio.state # "joined" /\ ~skipped
                      => {saved[i].ssid : i \in Named} \subseteq tried'
<1>1. IInv /\ [Next]_vars => [Given]_vars
  <2> SUFFICES ASSUME IInv, Next, retry.sequence, ~retry'.sequence, radio.enabled, radio'.enabled,
                      radio.state # "joined", ~skipped
               PROVE  \A i \in Named : saved[i].ssid \in tried'
    OBVIOUS
  <2>1. \A f : ~Boot(f)
    BY DEF Boot, Asleep
  <2>2. sequenceStep \/ attemptEnds
    <3>1. ~(\E n \in SSID : storeNetwork(n)) /\ ~enable
      BY <2>1 DEF storeNetwork, enable
    <3>2. ~disable
      <4> SUFFICES ASSUME radio' = [Idle EXCEPT !.enabled = FALSE, !.transition = TRUE] PROVE FALSE
        BY DEF disable
      <4> QED BY IdleIs DEF IInv, Radio
    <3>3. ~clearSavedNetworks
      BY <2>1 DEF clearSavedNetworks
    <3>4. ~backgroundReconnect
      BY DEF backgroundReconnect
    <3> QED BY <3>1, <3>2, <3>3, <3>4
            DEF Next, startWifiScan, stopWifiScan, onWifiScanDoneEvent, updateWifiScan, radioTaken,
                updateWifiTransition, joins, drops, moves
  <2>3. CASE Named = {}
    BY <2>3
  <2>4. CASE Named # {}
    <3>1. saved # <<>> /\ Searchable /\ retry.next \in Slots /\ Named \subseteq 1..Len(saved)
          /\ Len(saved) \in Nat /\ retry.attempts \in Nat
      BY <2>4, ListIs DEF Named, IInv, Searchable, TypeOK, Retry
    <3>2. retry.attempts >= Len(saved) /\ \A i : Had(i) => saved[i].ssid \in tried'
      <4>1. CASE sequenceStep
        <5>1. ~retry.active /\ tried' = tried /\ ~(retry.attempts < Len(saved))
          BY <2>4, <4>1 DEF sequenceStep, Waits, Begin, IInv, TypeOK, Retry
        <5> QED BY <3>1, <5>1 DEF Had
      <4>2. CASE attemptEnds
        <5>1. retry.attempts >= Len(saved)
          BY <4>2 DEF attemptEnds, IInv, TypeOK, Retry
        <5> QED BY <3>1, <4>2, <5>1, EndTries
      <4> QED BY <2>2, <4>1, <4>2
    <3>3. HadFrom(0)
      <4>1. PICK m \in 0..Len(saved) : HadFrom(m) /\ (m = 0 \/ retry.attempts <= Len(saved) - m)
        BY <3>1 DEF IInv, Circled
      <4>2. m = 0
        BY <3>1, <3>2, <4>1
      <4> QED BY <4>1, <4>2
    <3> SUFFICES ASSUME NEW i \in Named PROVE saved[i].ssid \in tried'
      OBVIOUS
    <3>4. PICK d \in 0..Len(saved) - 1 : Turn(retry.next, d) = i
      BY <3>1, TurnComes
    <3> QED BY <3>2, <3>3, <3>4 DEF HadFrom
  <2> QED BY <2>3, <2>4
<1> QED BY <1>1, Invariance, PTL DEF Spec, SequenceTriesAll
=============================================================================
