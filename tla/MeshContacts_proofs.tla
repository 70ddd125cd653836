------------------------- MODULE MeshContacts_proofs -------------------------
(***************************************************************************)
(* The contacts of the LoRa app: proofs, for lists of every size and a      *)
(* node's table of every size.                                              *)
(*                                                                          *)
(* A reference keeps its meaning because a list only grows at its end, and  *)
(* what a deletion leaves in front of the first contact it removes does not *)
(* move (Front); a reference behind it is marked as moved.  An invariant    *)
(* needs more than the property says: a reference that still denotes a      *)
(* contact points into the list (Points), or the next contact appended      *)
(* could take the place it points to.                                       *)
(***************************************************************************)
EXTENDS MeshContacts, FiniteSetTheorems, WellFoundedInduction, TLAPS

Points(list, r) == r.who # None => r.at \in DOMAIN list /\ list[r.at] = r.who
References == Points(saved, chat) /\ Points(saved, pending) /\ Points(saved, recip)

IInv == TypeOK /\ References /\ AnswerCanBeRead /\ FiledUnderSender /\ ContactsAreUnique

-----------------------------------------------------------------------------
(* What Without leaves of a list. *)

LEMMA Smallest ==
  ASSUME NEW N \in Nat, NEW S, S \subseteq 0..N, S # {}
  PROVE  \E x \in S : \A y \in S : x <= y
<1> DEFINE T == {0..x : x \in S}
<1>1. T \subseteq SUBSET (0..N) /\ T # {}
  <2>1. \A x \in S : 0..x \subseteq 0..N
    OBVIOUS
  <2> QED BY <2>1
<1>2. IsWellFoundedOn(StrictSubsetOrdering(0..N), SUBSET (0..N))
  <2>1. IsFiniteSet(0..N)
    BY FS_Interval
  <2> QED BY <2>1, FS_FiniteSubsetsOfFinite, FS_StrictSubsetOrderingWellFounded
<1>3. PICK t \in T : \A u \in T : ~ (<<u, t>> \in StrictSubsetOrdering(0..N))
  <2> HIDE DEF T
  <2> QED BY <1>1, <1>2, WFMin
<1>4. PICK x \in S : t = 0..x
  OBVIOUS
<1>5. ASSUME NEW y \in S, y < x
      PROVE  FALSE
  <2>1. 0..y \in T /\ 0..y \subseteq t /\ x \in t /\ x \notin 0..y
    BY <1>4, <1>5
  <2> QED BY <1>1, <1>3, <2>1 DEF StrictSubsetOrdering
<1> QED BY <1>5

LEMMA NumbersFinite ==
  ASSUME NEW n \in Nat, NEW T, T \subseteq 1..n
  PROVE  IsFiniteSet(T) /\ Cardinality(T) \in Nat /\ Cardinality(T) <= n
<1>1. IsFiniteSet(1..n) /\ Cardinality(1..n) = n
  BY FS_Interval
<1>2. T \in SUBSET (1..n)
  OBVIOUS
<1> QED BY <1>1, <1>2, FS_Subset, FS_CardinalityType

LEMMA Smaller ==
  ASSUME NEW n \in Nat, NEW T, T \subseteq 1..n, NEW U, U \subseteq T
  PROVE  /\ Cardinality(U) \in Nat /\ Cardinality(T) \in Nat
         /\ Cardinality(U) <= Cardinality(T)
         /\ U # T => Cardinality(U) < Cardinality(T)
<1>1. IsFiniteSet(T) /\ Cardinality(T) \in Nat /\ Cardinality(U) \in Nat
  <2>1. U \subseteq 1..n
    OBVIOUS
  <2> QED BY <2>1, NumbersFinite
<1>2. U \in SUBSET T
  OBVIOUS
<1>3. Cardinality(U) <= Cardinality(T) /\ (Cardinality(T) = Cardinality(U) => T = U)
  BY <1>1, <1>2, FS_Subset
<1> QED BY <1>1, <1>3

\* How many of the numbers up to i are in K.
Rank(K, i) == Cardinality(K \cap 1..i)

LEMMA RankCounts ==
  ASSUME NEW n \in Nat, NEW K, K \subseteq 1..n
  PROVE  /\ \A i \in 0..n : Rank(K, i) \in Nat /\ Rank(K, i) <= i
         /\ Rank(K, 0) = 0 /\ Rank(K, n) = Cardinality(K)
<1>1. ASSUME NEW i \in 0..n
      PROVE  Rank(K, i) \in Nat /\ Rank(K, i) <= i
  <2>1. i \in Nat /\ K \cap 1..i \subseteq 1..i
    OBVIOUS
  <2> QED BY <2>1, NumbersFinite DEF Rank
<1>2. Rank(K, 0) = 0
  <2>1. 1..0 = {}
    OBVIOUS
  <2>2. K \cap 1..0 = {}
    BY <2>1
  <2> QED BY <2>2, FS_EmptySet DEF Rank
<1>3. K \cap 1..n = K
  OBVIOUS
<1> QED BY <1>1, <1>2, <1>3 DEF Rank

LEMMA RankGrows ==
  ASSUME NEW n \in Nat, NEW K, K \subseteq 1..n, NEW i \in 0..n, NEW k \in K, i < k
  PROVE  Rank(K, i) < Rank(K, k)
<1>1. K \cap 1..i \subseteq K \cap 1..k /\ K \cap 1..k \subseteq 1..n
  OBVIOUS
<1>2. k \in K \cap 1..k /\ k \notin K \cap 1..i
  OBVIOUS
<1>3. K \cap 1..i # K \cap 1..k
  BY <1>2
<1> QED BY <1>1, <1>3, Smaller DEF Rank

LEMMA RankSteps ==
  ASSUME NEW n \in Nat, NEW K, K \subseteq 1..n, NEW i \in 1..n
  PROVE  /\ i \in K => Rank(K, i) = Rank(K, i - 1) + 1
         /\ i \notin K => Rank(K, i) = Rank(K, i - 1)
<1>1. IsFiniteSet(K \cap 1..(i - 1))
  <2>1. K \cap 1..(i - 1) \subseteq 1..n
    OBVIOUS
  <2> QED BY <2>1, NumbersFinite
<1>2. CASE i \in K
  <2>1. K \cap 1..i = (K \cap 1..(i - 1)) \cup {i} /\ i \notin K \cap 1..(i - 1)
    BY <1>2
  <2> QED BY <1>1, <1>2, <2>1, FS_AddElement DEF Rank
<1>3. CASE i \notin K
  <2>1. K \cap 1..i = K \cap 1..(i - 1)
    BY <1>3
  <2> QED BY <1>3, <2>1 DEF Rank
<1> QED BY <1>2, <1>3

\* Every rank is that of one element.
LEMMA RankHit ==
  ASSUME NEW n \in Nat, NEW K, K \subseteq 1..n, NEW j \in 1..Cardinality(K)
  PROVE  \E i \in K : Rank(K, i) = j
<1> DEFINE S == {i \in 0..n : Rank(K, i) >= j}
<1>1. Cardinality(K) \in Nat
  BY NumbersFinite
<1>2. /\ \A i \in 0..n : Rank(K, i) \in Nat /\ Rank(K, i) <= i
      /\ Rank(K, 0) = 0 /\ Rank(K, n) = Cardinality(K)
  BY RankCounts, Zenon
<1>3. n \in S
  BY <1>1, <1>2
<1>. PICK i \in S : \A y \in S : i <= y
  BY <1>3, Smallest
<1>4. i \in 0..n /\ Rank(K, i) >= j
  OBVIOUS
<1>5. i # 0
  BY <1>4, <1>2
<1>6. i \in 1..n /\ i - 1 \in 0..n /\ i - 1 \notin S
  BY <1>4, <1>5
<1>7. Rank(K, i - 1) \in Nat
  BY <1>6, <1>2
<1>8. Rank(K, i - 1) < j
  BY <1>1, <1>6, <1>7
<1>9. i \in 1..n
  BY <1>6
<1>10. /\ i \in K => Rank(K, i) = Rank(K, i - 1) + 1
       /\ i \notin K => Rank(K, i) = Rank(K, i - 1)
  BY <1>9, RankSteps, Zenon
<1> QED BY <1>1, <1>4, <1>7, <1>8, <1>10

Kept(list, ids) == {i \in DOMAIN list : list[i] \notin ids}
Source(list, ids, j) == CHOOSE i \in Kept(list, ids) : Rank(Kept(list, ids), i) = j

\* What is left comes from the list, in its order.
LEMMA SourceIs ==
  ASSUME NEW S, NEW list \in Seq(S), NEW ids,
         NEW j \in 1..Cardinality(Kept(list, ids))
  PROVE  /\ Source(list, ids, j) \in Kept(list, ids)
         /\ Rank(Kept(list, ids), Source(list, ids, j)) = j
         /\ Without(list, ids)[j] = list[Source(list, ids, j)]
<1>1. Len(list) \in Nat /\ Kept(list, ids) \subseteq 1..Len(list)
  BY DEF Kept
<1>2. \E i \in Kept(list, ids) : Rank(Kept(list, ids), i) = j
  BY <1>1, RankHit
<1>3. Without(list, ids)[j] = list[Source(list, ids, j)]
  BY DEF Without, Source, Kept, Rank
<1> QED BY <1>2, <1>3 DEF Source

LEMMA WithoutSound ==
  ASSUME NEW S, NEW list \in Seq(S), NEW ids
  PROVE  /\ Without(list, ids) \in Seq(S \ ids)
         /\ Len(Without(list, ids)) \in Nat
         /\ Len(Without(list, ids)) <= Len(list)
         /\ IsInjective(list) => IsInjective(Without(list, ids))
<1> DEFINE K == Kept(list, ids)
           W == Without(list, ids)
           m == Cardinality(K)
<1>1. Len(list) \in Nat /\ K \subseteq 1..Len(list) /\ \A i \in K : list[i] \in S \ ids
  BY DEF Kept
<1>2. m \in Nat /\ m <= Len(list)
  BY <1>1, NumbersFinite
<1>3. DOMAIN W = 1..m
  BY DEF Without, Kept
<1>4. \A j \in 1..m : W[j] \in S \ ids
  BY <1>1, SourceIs
<1>5. W \in [1..m -> S \ ids]
  <2>1. W = [j \in 1..m |-> W[j]]
    BY DEF Without, Kept
  <2> QED BY <2>1, <1>4
<1>6. W \in Seq(S \ ids) /\ Len(W) = m
  <2> HIDE DEF W, m
  <2> QED BY <1>2, <1>5
<1>7. ASSUME IsInjective(list), NEW a \in 1..m, NEW b \in 1..m, W[a] = W[b]
      PROVE  a = b
  <2>1. Source(list, ids, a) \in DOMAIN list /\ Source(list, ids, b) \in DOMAIN list
    BY <1>1, SourceIs DEF Kept
  <2>2. list[Source(list, ids, a)] = list[Source(list, ids, b)]
    BY <1>7, SourceIs
  <2>3. Source(list, ids, a) = Source(list, ids, b)
    BY <1>7, <2>1, <2>2 DEF IsInjective
  <2> QED BY <2>3, SourceIs
<1> QED BY <1>2, <1>3, <1>6, <1>7 DEF IsInjective

\* In front of the first contact that goes, nothing moves.
LEMMA FrontStays ==
  ASSUME NEW S, NEW list \in Seq(S), NEW ids, NEW first \in 1..Len(list),
         \A i \in 1..(first - 1) : list[i] \notin ids,
         NEW j \in 1..(first - 1)
  PROVE  j \in DOMAIN Without(list, ids) /\ Without(list, ids)[j] = list[j]
<1> DEFINE K == Kept(list, ids)
<1>1. Len(list) \in Nat /\ K \subseteq 1..Len(list) /\ 1..(first - 1) \subseteq K
  BY DEF Kept
<1>2. Rank(K, j) = j
  <2>1. K \cap 1..j = 1..j
    BY <1>1
  <2>2. Cardinality(1..j) = j
    BY FS_Interval
  <2> QED BY <2>1, <2>2 DEF Rank
<1>3. j \in K /\ Rank(K, j) <= Cardinality(K) /\ Cardinality(K) \in Nat
  <2>1. K \cap 1..j \subseteq K
    OBVIOUS
  <2> QED BY <1>1, <2>1, Smaller DEF Rank
<1>4. j \in 1..Cardinality(K)
  BY <1>2, <1>3
<1>5. Source(list, ids, j) \in K /\ Rank(K, Source(list, ids, j)) = j
  BY <1>4, SourceIs
<1>6. Source(list, ids, j) = j
  <2>1. ~ (Source(list, ids, j) < j)
    BY <1>1, <1>2, <1>3, <1>5, RankGrows
  <2>2. ~ (j < Source(list, ids, j))
    BY <1>1, <1>2, <1>3, <1>5, RankGrows
  <2> QED BY <1>1, <1>3, <1>5, <2>1, <2>2
<1>7. DOMAIN Without(list, ids) = 1..Cardinality(K)
  BY DEF Without, Kept
<1>8. Without(list, ids)[j] = list[Source(list, ids, j)]
  BY <1>4, SourceIs
<1> QED BY <1>4, <1>6, <1>7, <1>8

-----------------------------------------------------------------------------
(* The lists and the node's table. *)

LEMMA Empty ==
  /\ \A S : <<>> \in Seq(S)
  /\ Len(<<>>) = 0 /\ Len(<<>>) <= MaxContacts /\ Len(<<>>) <= MaxFound /\ Len(<<>>) <= MaxNode
  BY SizesAssumption

LEMMA AtType ==
  ASSUME NEW S, NEW list \in Seq(S), NEW i
  PROVE  At(list, i) \in S \cup {None}
  BY DEF At

LEMMA IndexFinds ==
  ASSUME NEW S, NEW list \in Seq(S), NEW id
  PROVE  /\ IndexOf(list, id) \in 0..Len(list)
         /\ IndexOf(list, id) # 0 => IndexOf(list, id) \in DOMAIN list
         /\ IndexOf(list, id) # 0 => list[IndexOf(list, id)] = id
         /\ IndexOf(list, id) = 0 => \A i \in DOMAIN list : list[i] # id
<1> DEFINE T == {i \in 0..Len(list) : i > 0 /\ list[i] = id}
<1>1. Len(list) \in Nat /\ DOMAIN list = 1..Len(list)
  OBVIOUS
<1>2. CASE \E i \in DOMAIN list : list[i] = id
  <2>1. T # {}
    BY <1>1, <1>2
  <2>2. PICK x \in T : \A y \in T : x <= y
    BY <1>1, <2>1, Smallest
  <2>3. x \in DOMAIN list /\ list[x] = id
    BY <1>1
  <2>4. ASSUME NEW j \in 1..(x - 1)
        PROVE  list[j] # id
    BY <1>1, <2>2, <2>3
  <2>5. \E i \in DOMAIN list : list[i] = id /\ \A j \in 1..(i - 1) : list[j] # id
    BY <2>3, <2>4
  <2>6. IndexOf(list, id) \in DOMAIN list /\ list[IndexOf(list, id)] = id
    BY <1>2, <2>5 DEF IndexOf
  <2> QED BY <1>1, <2>6
<1>3. CASE ~ \E i \in DOMAIN list : list[i] = id
  BY <1>1, <1>3 DEF IndexOf
<1> QED BY <1>2, <1>3

LEMMA ReferSound ==
  ASSUME NEW list \in Seq(Ids), NEW i \in Nat
  PROVE  Refer(list, i) \in Reference
  BY AtType DEF Refer, Reference

LEMMA NowhereSound == Nowhere \in Reference /\ Nowhere.who = None /\ Nowhere.at = 0
  BY DEF Nowhere, Reference

LEMMA MovedSound ==
  ASSUME NEW r \in Reference, NEW first \in Nat
  PROVE  /\ Moved(r, first) \in Reference /\ Moved(r, first).at = r.at
         /\ Moved(r, first).who # None => r.at < first /\ Moved(r, first).who = r.who
  BY DEF Moved, Reference

LEMMA ClampSound ==
  ASSUME NEW S, NEW list \in Seq(S), NEW i \in Nat
  PROVE  Clamp(i, list) \in Nat
  BY DEF Clamp

LEMMA ListedSound ==
  ASSUME NEW v, NEW a \in Seq(Ids), NEW b \in Seq(Ids)
  PROVE  Listed(v, a, b) \in Seq(Ids)
  BY DEF Listed

\* A contact is put at the end of the list, if anywhere.
LEMMA EnsureSound ==
  ASSUME TypeOK, NEW id \in Ids
  PROVE  /\ ensureMeshContact(id) \in Seq(Ids)
         /\ Len(ensureMeshContact(id)) <= MaxContacts
         /\ Len(saved) <= Len(ensureMeshContact(id))
         /\ \A i \in DOMAIN saved : /\ i \in DOMAIN ensureMeshContact(id)
                                   /\ ensureMeshContact(id)[i] = saved[i]
         /\ IsInjective(saved) => IsInjective(ensureMeshContact(id))
<1>1. saved \in Seq(Ids) /\ Len(saved) \in Nat /\ Len(saved) <= MaxContacts
      /\ MaxContacts \in Nat
  BY SizesAssumption DEF TypeOK
<1>2. CASE ensureMeshContact(id) = saved
  BY <1>1, <1>2
<1>3. CASE ensureMeshContact(id) = Append(saved, id) /\ Len(saved) < MaxContacts
           /\ IndexOf(saved, id) = 0
  <2>1. \A i \in DOMAIN saved : saved[i] # id
    BY <1>1, <1>3, IndexFinds
  <2> QED BY <1>1, <1>3, <2>1 DEF IsInjective
<1> QED BY <1>1, <1>2, <1>3 DEF ensureMeshContact

\* A sequence without one of its elements.
LEMMA RemoveAtSound ==
  ASSUME NEW S, NEW list \in Seq(S), NEW first \in DOMAIN list
  PROVE  /\ RemoveAt(list, first) \in Seq(S)
         /\ Len(RemoveAt(list, first)) = Len(list) - 1
         /\ \A i \in 1..(first - 1) : /\ i \in DOMAIN RemoveAt(list, first)
                                     /\ RemoveAt(list, first)[i] = list[i]
         /\ \A i \in first..(Len(list) - 1) : RemoveAt(list, first)[i] = list[i + 1]
<1> DEFINE a == SubSeq(list, 1, first - 1)
           b == SubSeq(list, first + 1, Len(list))
<1>1. Len(list) \in Nat /\ first \in 1..Len(list)
  OBVIOUS
<1>2. a \in Seq(S) /\ Len(a) = first - 1 /\ \A i \in 1..(first - 1) : a[i] = list[i]
  BY <1>1
<1>3. /\ b \in Seq(S) /\ Len(b) = Len(list) - first
      /\ \A i \in 1..(Len(list) - first) : b[i] = list[i + first]
  BY <1>1
<1>4. RemoveAt(list, first) = a \o b
  BY DEF RemoveAt
<1> HIDE DEF a, b
<1>5. a \o b \in Seq(S) /\ Len(a \o b) = Len(list) - 1
  BY <1>1, <1>2, <1>3
<1>6. ASSUME NEW i \in 1..(first - 1)
      PROVE  i \in DOMAIN (a \o b) /\ (a \o b)[i] = list[i]
  BY <1>1, <1>2, <1>3
<1>7. ASSUME NEW i \in first..(Len(list) - 1)
      PROVE  (a \o b)[i] = list[i + 1]
  <2>1. i - (first - 1) \in 1..(Len(list) - first) /\ i - (first - 1) + first = i + 1
    BY <1>1
  <2>2. (a \o b)[i] = b[i - Len(a)]
    BY <1>1, <1>2, <1>3
  <2> QED BY <1>2, <1>3, <2>1, <2>2
<1> QED BY <1>4, <1>5, <1>6, <1>7

LEMMA RemoveAtInjective ==
  ASSUME NEW S, NEW list \in Seq(S), NEW first \in DOMAIN list, IsInjective(list)
  PROVE  IsInjective(RemoveAt(list, first))
<1> DEFINE at(i) == IF i < first THEN i ELSE i + 1
<1>1. Len(list) \in Nat /\ first \in 1..Len(list)
  OBVIOUS
<1>2. DOMAIN RemoveAt(list, first) = 1..(Len(list) - 1)
  BY <1>1, RemoveAtSound
<1>3. ASSUME NEW i \in 1..(Len(list) - 1)
      PROVE  at(i) \in DOMAIN list /\ RemoveAt(list, first)[i] = list[at(i)]
  <2>1. /\ \A k \in 1..(first - 1) : /\ k \in DOMAIN RemoveAt(list, first)
                                     /\ RemoveAt(list, first)[k] = list[k]
        /\ \A k \in first..(Len(list) - 1) : RemoveAt(list, first)[k] = list[k + 1]
    BY RemoveAtSound
  <2> QED BY <1>1, <2>1
<1>4. ASSUME NEW i \in 1..(Len(list) - 1), NEW j \in 1..(Len(list) - 1), at(i) = at(j)
      PROVE  i = j
  BY <1>1, <1>4
<1> HIDE DEF at
<1> QED BY <1>2, <1>3, <1>4 DEF IsInjective

\* What a contact adds to the node's table, and what it overwrites.
LEMMA AddContactSound ==
  ASSUME NEW t \in Seq(Keys), Len(t) <= MaxNode, NEW key \in Keys, NEW n \in addContact(t, key)
  PROVE  n \in Seq(Keys) /\ Len(n) <= MaxNode /\ key \in ToSet(n)
<1>1. Len(t) \in Nat /\ MaxNode \in Nat \ {0} /\ DOMAIN t = 1..Len(t)
  BY SizesAssumption
<1>2. PICK i \in Slot(t) : n = [j \in (DOMAIN t) \cup {i} |-> IF j = i THEN key ELSE t[j]]
  BY DEF addContact
<1>3. PICK l \in 0..MaxNode : (DOMAIN t) \cup {i} = 1..l
  <2>1. CASE Len(t) < MaxNode
    <3>1. (DOMAIN t) \cup {i} = 1..(Len(t) + 1)
      BY <1>1, <1>2, <2>1 DEF Slot
    <3> QED BY <1>1, <2>1, <3>1
  <2>2. CASE ~ (Len(t) < MaxNode)
    <3>1. (DOMAIN t) \cup {i} = 1..Len(t)
      BY <1>1, <1>2, <2>2 DEF Slot
    <3> QED BY <1>1, <3>1
  <2> QED BY <2>1, <2>2
<1>4. n \in [1..l -> Keys]
  BY <1>1, <1>2, <1>3
<1>5. n[i] = key /\ i \in DOMAIN n
  BY <1>2
<1>6. n \in Seq(Keys) /\ Len(n) = l
  BY <1>3, <1>4
<1> QED BY <1>3, <1>5, <1>6 DEF ToSet

LEMMA BegunSound ==
  ASSUME TypeOK
  PROVE  Begun \in Seq(Keys) /\ Len(Begun) <= MaxNode
<1> DEFINE keyed == Without(saved, Manual)
           l == IF Len(keyed) < MaxNode THEN Len(keyed) ELSE MaxNode
<1>1. keyed \in Seq(Keys) /\ Len(keyed) \in Nat
  <2>1. saved \in Seq(Ids) /\ Ids \ Manual \subseteq Keys
    BY DEF TypeOK, Ids
  <2>2. keyed \in Seq(Ids \ Manual) /\ Len(keyed) \in Nat
    BY <2>1, WithoutSound
  <2> HIDE DEF keyed
  <2> QED BY <2>1, <2>2
<1>2. l \in 0..Len(keyed) /\ l <= MaxNode
  BY <1>1, SizesAssumption
<1>3. Begun = IF started THEN node ELSE SubSeq(keyed, 1, l)
  BY DEF Begun
<1> HIDE DEF keyed, l
<1>4. SubSeq(keyed, 1, l) \in Seq(Keys) /\ Len(SubSeq(keyed, 1, l)) = l
  BY <1>1, <1>2
<1> QED BY <1>2, <1>3, <1>4 DEF TypeOK

LEMMA IntroducedSound ==
  ASSUME TypeOK, NEW key \in Keys, NEW n \in Introduced(key)
  PROVE  n \in Seq(Keys) /\ Len(n) <= MaxNode /\ key \in ToSet(n)
  BY BegunSound, AddContactSound DEF Introduced

-----------------------------------------------------------------------------
(* The invariant in three parts. *)

ListsOK ==
  /\ saved \in Seq(Ids) /\ Len(saved) <= MaxContacts
  /\ found \in Seq(Keys) /\ Len(found) <= MaxFound
  /\ view \in {"contacts", "discover"}
  /\ cursor \in Reference /\ chat \in Reference /\ chat.at <= Len(saved) + 1
  /\ torn \in BOOLEAN /\ ContactsAreUnique /\ Points(saved, chat)
RadioOK ==
  /\ node \in Seq(Keys) /\ Len(node) <= MaxNode
  /\ started \in BOOLEAN /\ up \in BOOLEAN /\ evicted \subseteq Keys
TelemetryOK ==
  /\ pending \in Reference /\ tag \in 0..requests /\ recip \in Reference
  /\ requests \in 0..MaxRequests
  /\ asked \subseteq [tag : 1..requests, key : Keys]
  /\ misfiled = FALSE
Asked == Points(saved, pending) /\ Points(saved, recip)
Counted == acts \in 0..MaxActs

LEMMA Parts ==
  IInv <=> ListsOK /\ RadioOK /\ TelemetryOK /\ Asked /\ AnswerCanBeRead /\ Counted
  BY DEF IInv, TypeOK, References, FiledUnderSender, ListsOK, RadioOK, TelemetryOK, Asked,
         Counted

LEMMA ListsKept ==
  ASSUME ListsOK, UNCHANGED lists
  PROVE  ListsOK'
  BY DEF ListsOK, lists, ContactsAreUnique, IsInjective, Points

LEMMA RadioKept ==
  ASSUME RadioOK, UNCHANGED radio
  PROVE  RadioOK'
  BY DEF RadioOK, radio

LEMMA TelemetryKept ==
  ASSUME TelemetryOK, UNCHANGED telemetry
  PROVE  TelemetryOK'
  BY DEF TelemetryOK, telemetry

LEMMA AnswerKept ==
  ASSUME AnswerCanBeRead, UNCHANGED tag,
         pending'.who \in {pending.who, None}, None \notin Keys,
         ToSet(node) \cup evicted \subseteq ToSet(node)' \cup evicted'
  PROVE  AnswerCanBeRead'
  BY DEF AnswerCanBeRead

LEMMA NoneIsNoKey == None \notin Keys /\ None \notin Ids
  BY ContactsAssumption DEF Ids

\* The list has grown at its end.
LEMMA PointsOn ==
  ASSUME NEW a, NEW b, NEW r, Points(a, r),
         \A i \in DOMAIN a : i \in DOMAIN b /\ b[i] = a[i]
  PROVE  Points(b, r)
  BY DEF Points

\* The list has closed up from first on.
LEMMA PointsInFront ==
  ASSUME NEW a \in Seq(Ids), NEW b, NEW r \in Reference, Points(a, r), NEW first \in 1..Len(a),
         \A i \in 1..(first - 1) : i \in DOMAIN b /\ b[i] = a[i]
  PROVE  Points(b, Moved(r, first))
<1> SUFFICES ASSUME Moved(r, first).who # None
             PROVE  Moved(r, first).at \in DOMAIN b /\ b[Moved(r, first).at] = Moved(r, first).who
  BY DEF Points
<1>1. /\ Moved(r, first).at = r.at /\ r.at < first /\ Moved(r, first).who = r.who
  BY MovedSound
<1>2. r.at \in DOMAIN a /\ a[r.at] = r.who
  BY <1>1 DEF Points
<1>3. r.at \in 1..(first - 1)
  BY <1>1, <1>2
<1> QED BY <1>1, <1>2, <1>3

LEMMA PointsRefer ==
  ASSUME NEW list \in Seq(Ids), NEW i \in Nat
  PROVE  Points(list, Refer(list, i))
  BY NoneIsNoKey DEF Points, Refer, At

LEMMA PointsNowhere ==
  ASSUME NEW list
  PROVE  Points(list, Nowhere)
  BY DEF Points, Nowhere

-----------------------------------------------------------------------------
(* The lists change. *)

LEMMA ImportStep ==
  ASSUME IInv, NEW id \in Ids, importContact(id)
  PROVE  ListsOK' /\ Asked'
<1>1. TypeOK /\ ListsOK /\ Asked
  BY Parts DEF IInv
<1>2. saved' = ensureMeshContact(id) /\ UNCHANGED <<found, view, chat, torn, pending, recip>>
  BY DEF importContact, telemetry
<1>3. /\ saved' \in Seq(Ids) /\ Len(saved') <= MaxContacts /\ Len(saved) <= Len(saved')
      /\ \A i \in DOMAIN saved : i \in DOMAIN saved' /\ saved'[i] = saved[i]
      /\ IsInjective(saved) => IsInjective(saved')
  BY <1>1, <1>2, EnsureSound
<1>4. cursor' \in Reference
  <2>1. found \in Seq(Ids)
    BY <1>1 DEF ListsOK, Ids
  <2>2. At(Listed(view, saved', found), cursor.at) \in Ids \cup {None}
    BY <1>3, <2>1, ListedSound, AtType
  <2>3. cursor' = [cursor EXCEPT !.who = At(Listed(view, saved', found), cursor.at)]
    BY DEF importContact
  <2> QED BY <1>1, <2>2, <2>3 DEF ListsOK, Reference
<1>5. chat.at <= Len(saved') + 1
  BY <1>1, <1>3 DEF ListsOK, Reference
<1>6. /\ Points(saved', chat') /\ Points(saved', pending') /\ Points(saved', recip')
  BY <1>1, <1>2, <1>3, PointsOn DEF ListsOK, Asked
<1>7. ContactsAreUnique'
  BY <1>1, <1>2, <1>3 DEF ListsOK, ContactsAreUnique
<1> QED BY <1>1, <1>2, <1>3, <1>4, <1>5, <1>6, <1>7 DEF ListsOK, Asked

LEMMA AddDiscoveredStep ==
  ASSUME IInv, addDiscovered
  PROVE  ListsOK' /\ Asked'
<1>1. TypeOK /\ ListsOK /\ Asked
  BY Parts DEF IInv
<1> DEFINE id == found[cursor.at]
           idx == IndexOf(saved', id)
<1>2. /\ saved' = ensureMeshContact(id) /\ UNCHANGED <<found, view, torn, pending, recip>>
      /\ IF idx = 0 THEN UNCHANGED <<cursor, chat>>
         ELSE cursor' = Refer(found, idx) /\ chat' = [at |-> idx, who |-> id]
  BY DEF addDiscovered, telemetry
<1>3. id \in Ids /\ id # None /\ found \in Seq(Ids)
  BY <1>1, NoneIsNoKey DEF addDiscovered, ListsOK, Ids
<1>4. /\ saved' \in Seq(Ids) /\ Len(saved') <= MaxContacts /\ Len(saved) <= Len(saved')
      /\ \A i \in DOMAIN saved : i \in DOMAIN saved' /\ saved'[i] = saved[i]
      /\ IsInjective(saved) => IsInjective(saved')
  BY <1>1, <1>2, <1>3, EnsureSound
<1>5. idx \in 0..Len(saved') /\ (idx # 0 => idx \in DOMAIN saved' /\ saved'[idx] = id)
  BY <1>4, IndexFinds
<1> HIDE DEF id, idx
<1>6. Len(saved) \in Nat /\ Len(saved') \in Nat /\ idx \in Nat
  BY <1>1, <1>4, <1>5 DEF ListsOK
<1>7. cursor' \in Reference
  BY <1>1, <1>2, <1>3, <1>6, ReferSound DEF ListsOK
<1>8. chat' \in Reference /\ chat'.at <= Len(saved') + 1
  <2>1. CASE idx = 0
    BY <1>1, <1>2, <1>4, <1>6, <2>1 DEF ListsOK, Reference
  <2>2. CASE idx # 0
    BY <1>2, <1>3, <1>5, <1>6, <2>2 DEF Reference
  <2> QED BY <2>1, <2>2
<1>9. Points(saved', chat')
  <2>1. CASE idx = 0
    BY <1>1, <1>2, <1>4, <2>1, PointsOn DEF ListsOK
  <2>2. CASE idx # 0
    BY <1>2, <1>5, <2>2 DEF Points
  <2> QED BY <2>1, <2>2
<1>10. Points(saved', pending') /\ Points(saved', recip')
  BY <1>1, <1>2, <1>4, PointsOn DEF Asked
<1>11. ContactsAreUnique'
  BY <1>1, <1>2, <1>4 DEF ListsOK, ContactsAreUnique
<1> QED BY <1>1, <1>2, <1>4, <1>7, <1>8, <1>9, <1>10, <1>11 DEF ListsOK, Asked

\* A deletion, of one contact or of several.
LEMMA ShrinkSound ==
  ASSUME IInv, NEW left \in Seq(Ids), NEW first \in DOMAIN saved, Shrink(left, first),
         Len(left) <= Len(saved), UNCHANGED <<found, view, torn, tag, asked, requests, misfiled>>,
         UNCHANGED radio,
         \A i \in 1..(first - 1) : i \in DOMAIN left /\ left[i] = saved[i],
         IsInjective(saved) => IsInjective(left)
  PROVE  ListsOK' /\ TelemetryOK' /\ Asked' /\ RadioOK' /\ AnswerCanBeRead'
<1>1. ListsOK /\ TelemetryOK /\ Asked /\ RadioOK /\ AnswerCanBeRead
  BY Parts
<1>2. /\ saved' = left
      /\ cursor' = Refer(Listed(view, left, found), Clamp(cursor.at, left))
      /\ chat' = IF chat.at > Len(left) THEN Nowhere ELSE Moved(chat, first)
      /\ pending' = Moved(pending, first) /\ recip' = Moved(recip, first)
  BY DEF Shrink
<1>3. /\ saved \in Seq(Ids) /\ found \in Seq(Ids) /\ Len(left) \in Nat /\ Len(saved) \in Nat
      /\ first \in Nat /\ first \in 1..Len(saved) /\ cursor.at \in Nat
  BY <1>1 DEF ListsOK, Ids, Reference
<1>4. Len(saved') <= MaxContacts
  BY <1>1, <1>2, <1>3, SizesAssumption DEF ListsOK
<1>5. cursor' \in Reference
  BY <1>2, <1>3, ListedSound, ClampSound, ReferSound
<1>6. chat' \in Reference /\ chat'.at <= Len(saved') + 1 /\ Points(saved', chat')
  <2>1. CASE chat.at > Len(left)
    BY <1>2, <1>3, <2>1, NowhereSound, PointsNowhere
  <2>2. CASE ~ (chat.at > Len(left))
    <3>1. chat' = Moved(chat, first) /\ chat \in Reference /\ Points(saved, chat)
      BY <1>1, <1>2, <2>2 DEF ListsOK
    <3>2. chat' \in Reference /\ chat'.at = chat.at
      BY <1>3, <3>1, MovedSound
    <3>3. chat.at <= Len(left) + 1
      BY <1>3, <2>2, <3>1 DEF Reference
    <3> QED BY <1>2, <1>3, <3>1, <3>2, <3>3, PointsInFront
  <2> QED BY <2>1, <2>2
<1>7. Asked'
  BY <1>1, <1>2, <1>3, PointsInFront DEF Asked, TelemetryOK
<1>8. pending' \in Reference /\ recip' \in Reference /\ pending'.who \in {pending.who, None}
  BY <1>1, <1>2, <1>3, MovedSound DEF TelemetryOK
<1>9. TelemetryOK'
  BY <1>1, <1>8 DEF TelemetryOK
<1>10. RadioOK' /\ ToSet(node)' = ToSet(node) /\ evicted' = evicted
  BY <1>1, RadioKept DEF radio, ToSet
<1>11. AnswerCanBeRead'
  BY <1>1, <1>8, <1>10, AnswerKept, NoneIsNoKey
<1>12. ContactsAreUnique'
  BY <1>1, <1>2 DEF ListsOK, ContactsAreUnique
<1> QED BY <1>1, <1>2, <1>4, <1>5, <1>6, <1>7, <1>9, <1>10, <1>11, <1>12 DEF ListsOK

LEMMA DeleteStep ==
  ASSUME IInv, deleteSelected
  PROVE  ListsOK' /\ TelemetryOK' /\ Asked' /\ RadioOK' /\ AnswerCanBeRead'
<1>1. cursor.at \in DOMAIN saved /\ saved \in Seq(Ids) /\ Len(saved) \in Nat
  BY DEF deleteSelected, IInv, TypeOK
<1>2. /\ RemoveAt(saved, cursor.at) \in Seq(Ids)
      /\ Len(RemoveAt(saved, cursor.at)) = Len(saved) - 1
      /\ \A i \in 1..(cursor.at - 1) : /\ i \in DOMAIN RemoveAt(saved, cursor.at)
                                      /\ RemoveAt(saved, cursor.at)[i] = saved[i]
  BY <1>1, RemoveAtSound
<1>3. IsInjective(saved) => IsInjective(RemoveAt(saved, cursor.at))
  BY <1>1, RemoveAtInjective
<1> QED BY <1>1, <1>2, <1>3, ShrinkSound DEF deleteSelected

LEMMA PurgeStep ==
  ASSUME IInv, NEW old, purgeOld(old)
  PROVE  ListsOK' /\ TelemetryOK' /\ Asked' /\ RadioOK' /\ AnswerCanBeRead'
<1> DEFINE T == {i \in 0..Len(saved) : i > 0 /\ saved[i] \in old}
           first == CHOOSE i \in DOMAIN saved :
                      saved[i] \in old /\ \A j \in 1..(i-1) : saved[j] \notin old
<1>1. saved \in Seq(Ids) /\ Len(saved) \in Nat /\ DOMAIN saved = 1..Len(saved)
  BY DEF IInv, TypeOK
<1>2. T # {}
  BY <1>1 DEF purgeOld
<1>3. PICK x \in T : \A y \in T : x <= y
  BY <1>1, <1>2, Smallest
<1>4. x \in DOMAIN saved /\ saved[x] \in old /\ \A j \in 1..(x - 1) : saved[j] \notin old
  BY <1>1, <1>3
<1>5. first \in DOMAIN saved /\ \A j \in 1..(first - 1) : saved[j] \notin old
  BY <1>4
<1>6. Shrink(Without(saved, old), first) /\ UNCHANGED radio
      /\ UNCHANGED <<found, view, torn, tag, asked, requests, misfiled>>
  BY DEF purgeOld
<1> HIDE DEF first
<1>7. Without(saved, old) \in Seq(Ids) /\ Len(Without(saved, old)) <= Len(saved)
      /\ (IsInjective(saved) => IsInjective(Without(saved, old)))
  <2>1. Without(saved, old) \in Seq(Ids \ old)
    BY <1>1, WithoutSound
  <2>2. Without(saved, old) \in Seq(Ids)
    BY <2>1
  <2> QED BY <1>1, <2>2, WithoutSound
<1>8. \A i \in 1..(first - 1) : /\ i \in DOMAIN Without(saved, old)
                              /\ Without(saved, old)[i] = saved[i]
  BY <1>1, <1>5, FrontStays
<1> QED BY <1>5, <1>6, <1>7, <1>8, ShrinkSound

LEMMA ScreenStep ==
  ASSUME IInv,
         \/ \E i \in 1..(MaxContacts + MaxFound) : Select(i)
         \/ \E v \in {"contacts", "discover"} : ShowList(v)
         \/ \E i \in 0..(MaxContacts + 1) : OpenChat(i)
  PROVE  ListsOK' /\ Asked' /\ UNCHANGED radio /\ UNCHANGED telemetry
<1>1. ListsOK /\ Asked
  BY Parts
<1>2. saved \in Seq(Ids) /\ found \in Seq(Ids) /\ Len(saved) \in Nat /\ cursor.at \in Nat
  BY <1>1 DEF ListsOK, Ids, Reference
<1>3. MaxContacts + MaxFound \in Nat /\ MaxContacts + 1 \in Nat
  BY SizesAssumption
<1>4. CASE \E i \in 1..(MaxContacts + MaxFound) : Select(i)
  <2>1. PICK i \in 1..(MaxContacts + MaxFound) : Select(i)
    BY <1>4
  <2>2. cursor' = Refer(Listed(view, saved, found), i)
        /\ UNCHANGED <<saved, found, view, chat, torn>> /\ UNCHANGED <<pending, recip>>
    BY <2>1 DEF Select, telemetry
  <2>3. cursor' \in Reference
    BY <1>2, <1>3, <2>2, ListedSound, ReferSound
  <2>4. ContactsAreUnique' /\ Points(saved, chat)' /\ Asked'
    BY <1>1, <2>2 DEF ListsOK, ContactsAreUnique, Asked
  <2> QED BY <1>1, <2>1, <2>2, <2>3, <2>4 DEF ListsOK, Select
<1>5. CASE \E v \in {"contacts", "discover"} : ShowList(v)
  <2>1. PICK v \in {"contacts", "discover"} : ShowList(v)
    BY <1>5
  <2>2. view' = v /\ cursor' = Refer(Listed(v, saved, found), cursor.at)
        /\ UNCHANGED <<saved, found, chat, torn>> /\ UNCHANGED <<pending, recip>>
    BY <2>1 DEF ShowList, telemetry
  <2>3. cursor' \in Reference
    BY <1>2, <2>2, ListedSound, ReferSound
  <2>4. ContactsAreUnique' /\ Points(saved, chat)' /\ Asked'
    BY <1>1, <2>2 DEF ListsOK, ContactsAreUnique, Asked
  <2> QED BY <1>1, <2>1, <2>2, <2>3, <2>4 DEF ListsOK, ShowList
<1>6. CASE \E i \in 0..(MaxContacts + 1) : OpenChat(i)
  <2>1. PICK i \in 0..(MaxContacts + 1) : OpenChat(i)
    BY <1>6
  <2>2. chat' = Refer(saved, i) /\ i \in 0..(Len(saved) + 1)
        /\ UNCHANGED <<saved, found, view, cursor, torn>> /\ UNCHANGED <<pending, recip>>
    BY <2>1 DEF OpenChat, telemetry
  <2>3. chat' \in Reference /\ chat'.at = i /\ i <= Len(saved) + 1
    <3>1. i \in Nat /\ i <= Len(saved) + 1
      BY <1>2, <2>2
    <3> QED BY <1>2, <2>2, <3>1, ReferSound DEF Refer
  <2>4. ContactsAreUnique' /\ Points(saved, chat)' /\ Asked'
    <3>1. Points(saved, Refer(saved, i))
      BY <1>2, <2>2, PointsRefer
    <3> QED BY <1>1, <2>2, <3>1 DEF ListsOK, ContactsAreUnique, Asked
  <2> QED BY <1>1, <2>1, <2>2, <2>3, <2>4 DEF ListsOK, OpenChat
<1> QED BY <1>4, <1>5, <1>6

LEMMA HearAdvertStep ==
  ASSUME IInv, NEW key \in Keys, HearAdvert(key)
  PROVE  ListsOK' /\ Asked' /\ UNCHANGED radio /\ UNCHANGED telemetry
<1>1. ListsOK /\ Asked
  BY Parts
<1>2. /\ found \in Seq(Keys) /\ Len(found) \in Nat /\ Len(found) <= MaxFound
      /\ MaxFound \in Nat \ {0} /\ cursor \in Reference
  BY <1>1, SizesAssumption DEF ListsOK
<1>3. /\ cursor' = [cursor EXCEPT !.at = Clamp(@, found')]
      /\ UNCHANGED <<saved, view, chat, torn>> /\ UNCHANGED radio /\ UNCHANGED telemetry
  BY DEF HearAdvert
<1>4. found' \in Seq(Keys) /\ Len(found') <= MaxFound
  <2>1. CASE IndexOf(found, key) # 0
    BY <1>2, <2>1 DEF HearAdvert
  <2>2. CASE IndexOf(found, key) = 0 /\ Len(found) < MaxFound
    <3>1. found' = Append(found, key)
      BY <2>2 DEF HearAdvert
    <3> QED BY <1>2, <2>2, <3>1
  <2>3. CASE IndexOf(found, key) = 0 /\ ~ (Len(found) < MaxFound)
    <3>1. found' = Append(Tail(found), key)
      BY <2>3 DEF HearAdvert
    <3>2. found # <<>>
      BY <1>2, <2>3
    <3>3. Tail(found) \in Seq(Keys) /\ Len(Tail(found)) = Len(found) - 1
      BY <1>2, <3>2
    <3> QED BY <1>2, <3>1, <3>3
  <2> QED BY <2>1, <2>2, <2>3
<1>5. cursor' \in Reference
  <2>1. Clamp(cursor.at, found') \in Nat
    BY <1>2, <1>4, ClampSound DEF Reference
  <2> QED BY <1>2, <1>3, <2>1 DEF Reference
<1>6. ContactsAreUnique' /\ Points(saved, chat)' /\ Asked'
  BY <1>1, <1>3 DEF ListsOK, ContactsAreUnique, Asked, telemetry
<1> QED BY <1>1, <1>3, <1>4, <1>5, <1>6 DEF ListsOK

-----------------------------------------------------------------------------
(* The node and the telemetry. *)

LEMMA NodeBecomesSound ==
  ASSUME RadioOK, NEW n \in Seq(Keys), Len(n) <= MaxNode, NodeBecomes(n), up' \in BOOLEAN
  PROVE  RadioOK' /\ ToSet(node) \cup evicted \subseteq ToSet(node)' \cup evicted'
                 /\ ToSet(node)' = ToSet(n)
<1>1. node' = n /\ started' = TRUE /\ evicted' = (evicted \cup ToSet(node)) \ ToSet(n)
  BY DEF NodeBecomes
<1>2. ToSet(node) \subseteq Keys
  BY DEF RadioOK, ToSet
<1>3. ToSet(node)' = ToSet(n)
  BY <1>1 DEF ToSet
<1> QED BY <1>1, <1>2, <1>3 DEF RadioOK

LEMMA RequestSound ==
  ASSUME IInv, NEW i \in Nat, Request(i), UNCHANGED <<saved, up, misfiled>>,
         recip' \in {recip, Nowhere}
  PROVE  RadioOK' /\ TelemetryOK' /\ Asked' /\ AnswerCanBeRead'
<1>1. /\ TypeOK /\ RadioOK /\ TelemetryOK /\ Asked /\ AnswerCanBeRead
      /\ saved \in Seq(Ids) /\ requests \in Nat /\ up' \in BOOLEAN
  BY Parts DEF IInv, TypeOK
<1>2. recip' \in Reference /\ Points(saved', recip')
  BY <1>1, NowhereSound, PointsNowhere DEF TelemetryOK, Asked
<1>3. CASE At(saved, i) \in Keys
  <2>1. PICK n \in Introduced(saved[i]) : NodeBecomes(n)
    BY <1>3, NoneIsNoKey, ContactsAssumption DEF Request
  <2>2. saved[i] = At(saved, i) /\ saved[i] \in Keys
    BY <1>3, NoneIsNoKey DEF At
  <2>3. n \in Seq(Keys) /\ Len(n) <= MaxNode /\ saved[i] \in ToSet(n)
    BY <1>1, <2>2, IntroducedSound
  <2>4. /\ RadioOK' /\ ToSet(node) \cup evicted \subseteq ToSet(node)' \cup evicted'
        /\ saved[i] \in ToSet(node)'
    BY <1>1, <2>1, <2>3, NodeBecomesSound
  <2>5. CASE UNCHANGED <<pending, tag, asked, requests>>
    <3>1. TelemetryOK' /\ Asked'
      BY <1>1, <1>2, <2>5 DEF TelemetryOK, Asked
    <3>2. AnswerCanBeRead'
      BY <1>1, <2>4, <2>5, AnswerKept, NoneIsNoKey
    <3> QED BY <2>4, <3>1, <3>2
  <2>6. CASE /\ requests < MaxRequests /\ requests' = requests + 1
             /\ pending' = Refer(saved, i) /\ tag' = requests + 1
             /\ asked' = asked \cup {[tag |-> requests + 1, key |-> saved[i]]}
    <3>1. pending' \in Reference /\ Points(saved', pending') /\ pending'.who = saved[i]
      BY <1>1, <2>2, <2>6, ReferSound, PointsRefer DEF Refer
    <3>2. requests' \in 0..MaxRequests /\ tag' \in 0..requests' /\ misfiled' = FALSE
      BY <1>1, <2>6, SizesAssumption DEF TelemetryOK
    <3>3. asked' \subseteq [tag : 1..requests', key : Keys]
      <4>1. 1..requests \subseteq 1..requests' /\ requests + 1 \in 1..requests'
        BY <1>1, <2>6
      <4>2. asked \subseteq [tag : 1..requests', key : Keys]
        BY <1>1, <4>1 DEF TelemetryOK
      <4>3. [tag |-> requests + 1, key |-> saved[i]] \in [tag : 1..requests', key : Keys]
        BY <2>2, <4>1
      <4> QED BY <2>6, <4>2, <4>3
    <3>4. AnswerCanBeRead'
      BY <2>4, <3>1 DEF AnswerCanBeRead
    <3> QED BY <1>2, <2>4, <3>1, <3>2, <3>3, <3>4 DEF TelemetryOK, Asked
  <2> QED BY <1>3, <2>5, <2>6, NoneIsNoKey, ContactsAssumption DEF Request
<1>4. CASE At(saved, i) \notin Keys
  <2>1. UNCHANGED <<pending, tag, asked, requests>>
    BY <1>4 DEF Request
  <2>2. RadioOK' /\ ToSet(node) \cup evicted \subseteq ToSet(node)' \cup evicted'
    <3>1. CASE NodeBecomes(Begun)
      BY <1>1, <3>1, BegunSound, NodeBecomesSound
    <3>2. CASE UNCHANGED <<node, started, evicted>>
      BY <1>1, <3>2 DEF RadioOK, ToSet
    <3> QED BY <1>4, <3>1, <3>2 DEF Request
  <2>3. TelemetryOK' /\ Asked'
    BY <1>1, <1>2, <2>1 DEF TelemetryOK, Asked
  <2>4. AnswerCanBeRead'
    BY <1>1, <2>1, <2>2, AnswerKept, NoneIsNoKey
  <2> QED BY <2>2, <2>3, <2>4
<1> QED BY <1>3, <1>4

LEMMA BeginStep ==
  ASSUME IInv, tab5MeshCoreBegin \/ sendDirect
  PROVE  RadioOK' /\ AnswerCanBeRead' /\ UNCHANGED lists /\ UNCHANGED telemetry
<1>1. TypeOK /\ RadioOK /\ AnswerCanBeRead
  BY Parts DEF IInv
<1>2. UNCHANGED up /\ UNCHANGED lists /\ UNCHANGED telemetry
  BY DEF tab5MeshCoreBegin, sendDirect
<1>3. Begun \in Seq(Keys) /\ Len(Begun) <= MaxNode
  BY <1>1, BegunSound
<1>4. PICK n : n \in Seq(Keys) /\ Len(n) <= MaxNode /\ NodeBecomes(n)
  <2>1. CASE tab5MeshCoreBegin
    BY <1>3, <2>1 DEF tab5MeshCoreBegin
  <2>2. CASE sendDirect
    <3>1. saved[chat.at] \in Keys
      BY <2>2, NoneIsNoKey DEF sendDirect, At
    <3> QED BY <1>3, <2>2, <3>1, AddContactSound DEF sendDirect
  <2> QED BY <2>1, <2>2
<1>5. RadioOK' /\ ToSet(node) \cup evicted \subseteq ToSet(node)' \cup evicted'
  <2>1. up' \in BOOLEAN
    BY <1>1, <1>2 DEF RadioOK
  <2> QED BY <1>1, <1>4, <2>1, NodeBecomesSound
<1>6. AnswerCanBeRead'
  BY <1>1, <1>2, <1>5, AnswerKept, NoneIsNoKey DEF telemetry
<1> QED BY <1>2, <1>5, <1>6

LEMMA AskStep ==
  ASSUME IInv, requestTelemetry \/ AskBack
  PROVE  RadioOK' /\ TelemetryOK' /\ Asked' /\ AnswerCanBeRead' /\ UNCHANGED lists
<1>1. cursor.at \in Nat /\ recip.at \in Nat
  BY DEF IInv, TypeOK, Reference
<1>2. UNCHANGED lists /\ UNCHANGED <<saved, up, misfiled>>
  BY DEF requestTelemetry, AskBack, lists
<1>3. CASE requestTelemetry
  BY <1>1, <1>2, <1>3, RequestSound DEF requestTelemetry
<1>4. CASE AskBack
  BY <1>1, <1>2, <1>4, RequestSound DEF AskBack
<1> QED BY <1>2, <1>3, <1>4

LEMMA HearRequestStep ==
  ASSUME IInv, NEW key \in Keys, HearRequest(key)
  PROVE  TelemetryOK' /\ Asked' /\ UNCHANGED <<pending, tag>>
                     /\ UNCHANGED lists /\ UNCHANGED radio
<1>1. TelemetryOK /\ Asked /\ saved \in Seq(Ids)
  BY Parts DEF ListsOK
<1>2. /\ recip' = [at |-> IndexOf(saved, key), who |-> key] /\ IndexOf(saved, key) # 0
      /\ UNCHANGED <<saved, pending, tag, asked, requests, misfiled>>
      /\ UNCHANGED lists /\ UNCHANGED radio
  BY DEF HearRequest, lists
<1>3. IndexOf(saved, key) \in DOMAIN saved /\ saved[IndexOf(saved, key)] = key
  BY <1>1, <1>2, IndexFinds
<1>4. recip' \in Reference /\ Points(saved', recip')
  BY <1>1, <1>2, <1>3 DEF Reference, Ids, Points
<1> QED BY <1>1, <1>2, <1>4 DEF TelemetryOK, Asked

LEMMA ResponseStep ==
  ASSUME IInv, NEW r \in asked, HearResponse(r) \/ LoseResponse(r)
  PROVE  TelemetryOK' /\ Asked' /\ AnswerCanBeRead' /\ UNCHANGED lists /\ UNCHANGED radio
<1>1. TelemetryOK /\ Asked /\ AnswerCanBeRead /\ saved \in Seq(Ids)
  BY Parts DEF ListsOK
<1>2. /\ asked' = asked \ {r} /\ UNCHANGED <<saved, recip, requests>>
      /\ UNCHANGED <<node, evicted>> /\ UNCHANGED lists /\ UNCHANGED radio
  BY DEF HearResponse, LoseResponse, lists, radio
<1>3. CASE UNCHANGED <<misfiled, tag, pending>>
  BY <1>1, <1>2, <1>3 DEF TelemetryOK, Asked, AnswerCanBeRead, ToSet
<1>4. CASE /\ tag' = 0 /\ pending' = Nowhere
           /\ misfiled' = (misfiled \/ (IndexOf(saved, r.key) # 0
                                        /\ At(saved, FileUnder(r.key)) \notin {r.key, None}))
  <2>1. misfiled' = FALSE
    <3>1. ASSUME IndexOf(saved, r.key) # 0
          PROVE  At(saved, FileUnder(r.key)) = r.key
      BY <1>1, <3>1, IndexFinds DEF FileUnder, At
    <3> QED BY <1>1, <1>4, <3>1 DEF TelemetryOK
  <2>2. TelemetryOK'
    BY <1>1, <1>2, <1>4, <2>1, NowhereSound DEF TelemetryOK
  <2>3. Asked'
    BY <1>1, <1>2, <1>4, PointsNowhere DEF Asked
  <2>4. AnswerCanBeRead'
    BY <1>4 DEF AnswerCanBeRead
  <2> QED BY <1>2, <2>2, <2>3, <2>4
<1> QED BY <1>2, <1>3, <1>4 DEF HearResponse, LoseResponse

LEMMA RestartSound ==
  ASSUME IInv, NEW t \in Seq(Ids), Restart(t), Len(t) <= MaxContacts,
         torn' = TRUE \/ (t = saved /\ torn' = torn)
  PROVE  ListsOK' /\ RadioOK' /\ TelemetryOK' /\ Asked' /\ AnswerCanBeRead'
<1>1. /\ saved' = t /\ found' = <<>> /\ view' = "contacts"
      /\ cursor' = Refer(t, 1) /\ chat' = Nowhere
      /\ node' = <<>> /\ started' = FALSE /\ up' = FALSE /\ evicted' = {}
      /\ pending' = Nowhere /\ tag' = 0 /\ recip' = Nowhere /\ asked' = {}
      /\ UNCHANGED <<requests, misfiled>>
  BY DEF Restart
<1>2. ListsOK /\ TelemetryOK
  BY Parts
<1>3. cursor' \in Reference /\ chat' \in Reference /\ chat'.at <= Len(t) + 1
  BY <1>1, ReferSound, NowhereSound
<1>4. ContactsAreUnique' /\ torn' \in BOOLEAN
  BY <1>1, <1>2 DEF ListsOK, ContactsAreUnique
<1>5. Points(saved', chat') /\ Asked'
  BY <1>1, PointsNowhere DEF Asked
<1>6. ListsOK'
  BY <1>1, <1>3, <1>4, <1>5, SizesAssumption DEF ListsOK
<1>7. RadioOK'
  BY <1>1, Empty DEF RadioOK
<1>8. TelemetryOK' /\ AnswerCanBeRead'
  <2>1. requests \in Nat
    BY <1>2 DEF TelemetryOK
  <2> QED BY <1>1, <1>2, <2>1, NowhereSound DEF TelemetryOK, AnswerCanBeRead
<1> QED BY <1>5, <1>6, <1>7, <1>8

LEMMA ResetStep ==
  ASSUME IInv, Reset \/ ResetDuringDelete
  PROVE  ListsOK' /\ RadioOK' /\ TelemetryOK' /\ Asked' /\ AnswerCanBeRead'
<1>1. saved \in Seq(Ids) /\ Len(saved) \in Nat /\ Len(saved) <= MaxContacts
      /\ MaxContacts \in Nat
  BY SizesAssumption DEF IInv, TypeOK
<1>2. CASE Reset
  BY <1>1, <1>2, RestartSound DEF Reset
<1>3. CASE ResetDuringDelete
  <2>1. PICK k \in 0..(Len(saved) - 1) :
          Restart([i \in 1..(Len(saved) - 1) |->
                     IF i <= k THEN RemoveAt(saved, cursor.at)[i] ELSE saved[i]])
    BY <1>3 DEF ResetDuringDelete
  <2>2. cursor.at \in DOMAIN saved /\ torn' = TRUE
    BY <1>3 DEF ResetDuringDelete
  <2> DEFINE R == RemoveAt(saved, cursor.at)
             t == [i \in 1..(Len(saved) - 1) |-> IF i <= k THEN R[i] ELSE saved[i]]
  <2>3. R \in Seq(Ids) /\ Len(R) = Len(saved) - 1
    BY <1>1, <2>2, RemoveAtSound
  <2>4. Restart(t)
    BY <2>1
  <2>5. t \in Seq(Ids) /\ Len(t) <= MaxContacts
    <3> HIDE DEF R
    <3>1. Len(saved) - 1 \in Nat
      BY <1>1, <2>2
    <3>2. t \in [1..(Len(saved) - 1) -> Ids]
      BY <1>1, <2>3, <3>1
    <3> HIDE DEF t
    <3> QED BY <1>1, <3>1, <3>2
  <2> HIDE DEF t
  <2> QED BY <2>2, <2>4, <2>5, RestartSound
<1> QED BY <1>2, <1>3

-----------------------------------------------------------------------------
(* The invariant. *)

LEMMA Initially == Init => IInv
<1> SUFFICES ASSUME Init PROVE IInv
  OBVIOUS
<1>1. /\ saved = <<>> /\ found = <<>> /\ view = "contacts"
      /\ cursor = Refer(<<>>, 1) /\ chat = Nowhere
      /\ node = <<>> /\ started = FALSE /\ up = FALSE /\ evicted = {}
      /\ pending = Nowhere /\ tag = 0 /\ recip = Nowhere /\ asked = {} /\ requests = 0
      /\ misfiled = FALSE /\ torn = FALSE /\ acts = 0
  BY DEF Init
<1>2. cursor \in Reference /\ chat \in Reference /\ chat.at = 0
  BY <1>1, Empty, ReferSound, NowhereSound
<1>3. Points(saved, chat) /\ Asked /\ ContactsAreUnique
  BY <1>1, PointsNowhere DEF Asked, ContactsAreUnique, IsInjective
<1>4. ListsOK
  <2>1. saved \in Seq(Ids) /\ found \in Seq(Keys)
    BY <1>1, Empty
  <2>2. Len(saved) <= MaxContacts /\ Len(found) <= MaxFound /\ Len(saved) = 0
    BY <1>1, Empty
  <2>3. chat.at <= Len(saved) + 1
    BY <1>2, <2>2
  <2> QED BY <1>1, <1>2, <1>3, <2>1, <2>2, <2>3 DEF ListsOK
<1>5. RadioOK /\ AnswerCanBeRead
  BY <1>1, Empty DEF RadioOK, AnswerCanBeRead
<1>6. TelemetryOK /\ Counted
  BY <1>1, SizesAssumption, NowhereSound DEF TelemetryOK, Counted
<1> QED BY <1>3, <1>4, <1>5, <1>6, Parts

LEMMA UserStep ==
  ASSUME IInv, User
  PROVE  ListsOK' /\ RadioOK' /\ TelemetryOK' /\ Asked' /\ AnswerCanBeRead'
<1>1. ListsOK /\ RadioOK /\ TelemetryOK /\ Asked /\ AnswerCanBeRead
  BY Parts
<1>2. ASSUME UNCHANGED radio, UNCHANGED telemetry
      PROVE  RadioOK' /\ TelemetryOK' /\ AnswerCanBeRead'
  BY <1>1, <1>2, RadioKept, TelemetryKept DEF radio, telemetry, AnswerCanBeRead, ToSet
<1>3. ASSUME UNCHANGED lists, UNCHANGED telemetry
      PROVE  ListsOK' /\ TelemetryOK' /\ Asked'
  BY <1>1, <1>3, ListsKept, TelemetryKept DEF lists, telemetry, Asked
<1>4. CASE \E id \in Ids : importContact(id)
  <2>1. PICK id \in Ids : importContact(id)
    BY <1>4
  <2> QED BY <1>2, <2>1, ImportStep DEF importContact
<1>5. CASE addDiscovered
  BY <1>2, <1>5, AddDiscoveredStep DEF addDiscovered
<1>6. CASE deleteSelected
  BY <1>6, DeleteStep
<1>7. CASE \E old \in SUBSET Ids : purgeOld(old)
  BY <1>7, PurgeStep
<1>8. CASE \/ \E i \in 1..(MaxContacts + MaxFound) : Select(i)
           \/ \E v \in {"contacts", "discover"} : ShowList(v)
           \/ \E i \in 0..(MaxContacts + 1) : OpenChat(i)
  BY <1>2, <1>8, ScreenStep
<1>9. CASE tab5MeshCoreBegin \/ sendDirect
  BY <1>3, <1>9, BeginStep
<1>10. CASE requestTelemetry
  BY <1>1, <1>10, AskStep, ListsKept
<1> QED BY <1>4, <1>5, <1>6, <1>7, <1>8, <1>9, <1>10 DEF User

LEMMA LoopStep ==
  ASSUME IInv, Loop
  PROVE  ListsOK' /\ RadioOK' /\ TelemetryOK' /\ Asked' /\ AnswerCanBeRead'
<1>1. ListsOK /\ RadioOK /\ TelemetryOK /\ Asked /\ AnswerCanBeRead
  BY Parts
<1>2. CASE \E key \in Keys : HearAdvert(key)
  <2>1. ListsOK' /\ Asked' /\ UNCHANGED radio /\ UNCHANGED telemetry
    BY <1>2, HearAdvertStep
  <2> QED BY <1>1, <2>1, RadioKept, TelemetryKept
          DEF radio, telemetry, AnswerCanBeRead, ToSet
<1>3. CASE \E key \in Keys : HearRequest(key)
  <2>1. TelemetryOK' /\ Asked' /\ UNCHANGED <<pending, tag>>
                      /\ UNCHANGED lists /\ UNCHANGED radio
    BY <1>3, HearRequestStep
  <2> QED BY <1>1, <2>1, ListsKept, RadioKept DEF radio, AnswerCanBeRead, ToSet
<1>4. CASE AskBack
  BY <1>1, <1>4, AskStep, ListsKept
<1>5. CASE \E r \in asked : HearResponse(r) \/ LoseResponse(r)
  BY <1>1, <1>5, ResponseStep, ListsKept, RadioKept
<1>6. CASE LinkChanges
  <2>1. /\ up' \in BOOLEAN /\ UNCHANGED <<node, started, evicted>>
        /\ UNCHANGED lists /\ UNCHANGED telemetry
    BY <1>6 DEF LinkChanges
  <2>2. RadioOK' /\ AnswerCanBeRead'
    BY <1>1, <2>1 DEF RadioOK, AnswerCanBeRead, ToSet, telemetry
  <2>3. Asked'
    BY <1>1, <2>1 DEF Asked, lists, telemetry
  <2> QED BY <1>1, <2>1, <2>2, <2>3, ListsKept, TelemetryKept
<1>7. CASE Reset \/ ResetDuringDelete
  BY <1>7, ResetStep
<1> QED BY <1>2, <1>3, <1>4, <1>5, <1>6, <1>7 DEF Loop

LEMMA Inductive == IInv /\ [Next]_vars => IInv'
<1> SUFFICES ASSUME IInv, [Next]_vars PROVE IInv'
  OBVIOUS
<1>1. ListsOK /\ RadioOK /\ TelemetryOK /\ Asked /\ AnswerCanBeRead /\ Counted
  BY Parts
<1>2. CASE acts < MaxActs /\ acts' = acts + 1 /\ User
  <2>1. Counted'
    BY <1>1, <1>2, SizesAssumption DEF Counted
  <2>2. ListsOK' /\ RadioOK' /\ TelemetryOK' /\ Asked' /\ AnswerCanBeRead'
    BY <1>2, UserStep
  <2> QED BY <2>1, <2>2, Parts, PTL
<1>3. CASE UNCHANGED acts /\ Loop
  <2>1. Counted'
    BY <1>1, <1>3 DEF Counted
  <2>2. ListsOK' /\ RadioOK' /\ TelemetryOK' /\ Asked' /\ AnswerCanBeRead'
    BY <1>3, LoopStep
  <2> QED BY <2>1, <2>2, Parts, PTL
<1>4. CASE UNCHANGED vars
  <2>1. UNCHANGED lists /\ UNCHANGED radio /\ UNCHANGED telemetry /\ UNCHANGED acts
    BY <1>4 DEF vars, lists, radio, telemetry
  <2>2. Asked' /\ AnswerCanBeRead' /\ Counted'
    BY <1>1, <2>1 DEF lists, radio, telemetry, Asked, AnswerCanBeRead, ToSet, Counted
  <2>3. ListsOK' /\ RadioOK' /\ TelemetryOK'
    BY <1>1, <2>1, ListsKept, RadioKept, TelemetryKept
  <2> QED BY <2>2, <2>3, Parts, PTL
<1> QED BY <1>2, <1>3, <1>4 DEF Next

LEMMA Invariant == Spec => []IInv
  BY Initially, Inductive, PTL DEF Spec

\* Whatever is added, deleted, heard and reset, the state keeps its types: the lists and the
\* node's table their sizes, and the chat an index of the list or the row behind it.
THEOREM TypeCorrect == Spec => []TypeOK
<1>1. IInv => TypeOK
  BY DEF IInv
<1> QED BY <1>1, Invariant, PTL

\* The chat, the request that waits for an answer and the one to be made in return denote
\* the contact they were set for, unless one at or before it was deleted since.
THEOREM ReferencesKeepTheirMeaning == Spec => []IndexMeansContact
<1>1. IInv => IndexMeansContact
  BY DEF IInv, References, IndexMeansContact, Denotes, Points
<1> QED BY <1>1, Invariant, PTL

\* Telemetry of a saved contact is never recorded under another one.
THEOREM TelemetryIsFiledUnderItsSender == Spec => []FiledUnderSender
<1>1. IInv => FiledUnderSender
  BY DEF IInv
<1> QED BY <1>1, Invariant, PTL

\* The node can decrypt the answer it waits for, unless it had to overwrite the contact.
THEOREM AnswersCanBeRead == Spec => []AnswerCanBeRead
<1>1. IInv => AnswerCanBeRead
  BY DEF IInv
<1> QED BY <1>1, Invariant, PTL

\* No contact is saved twice, unless a reset hit a deletion while it was being saved.
THEOREM NobodyIsSavedTwice == Spec => []ContactsAreUnique
<1>1. IInv => ContactsAreUnique
  BY DEF IInv
<1> QED BY <1>1, Invariant, PTL

=============================================================================
