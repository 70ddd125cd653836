---------------------------- MODULE MeshContacts ----------------------------
(***************************************************************************)
(* The contacts of the LoRa app and what refers to them: meshContacts and    *)
(* meshDiscovered of src/main.cpp, the node's own table                       *)
(* (helpers/BaseChatMesh.cpp), the chat, and telemetry asked for and answered. *)
(*                                                                          *)
(* Both lists are arrays without holes, and a contact is referred to by its   *)
(* index in them.  A reference is a record: the index (0 for none) and the    *)
(* contact it was set for, None once a deletion has moved what it denotes.     *)
(* Everything runs in the Arduino loop: an action is one key or touch, one    *)
(* packet or one pass of tab5MeshCoreLoop.                                    *)
(***************************************************************************)
EXTENDS Naturals, Sequences, SequencesExt

CONSTANTS
  Keys,        \* peers known by their public key
  Manual,      \* contacts typed in without a public key
  None,        \* no contact
  MaxContacts, \* kMeshContactCount (8)
  MaxFound,    \* kMeshDiscoveredCount (8)
  MaxNode,     \* MAX_CONTACTS of the node (32)
  MaxRequests, \* telemetry requests in a run
  MaxActs      \* what the user does in a run

Ids == Keys \cup Manual

ASSUME ContactsAssumption == Keys \cap Manual = {} /\ None \notin Ids
ASSUME SizesAssumption ==
  /\ MaxContacts \in Nat \ {0} /\ MaxFound \in Nat \ {0} /\ MaxNode \in Nat \ {0}
  /\ MaxRequests \in Nat /\ MaxActs \in Nat

VARIABLES
  saved,     \* meshContacts, as the flash holds them too
  found,     \* meshDiscovered
  view,      \* the list on the screen
  cursor,    \* meshContactSelected, an index into either list
  chat,      \* meshChatSelected; 0 is the public channel, one past the end DISCOVER
  node,      \* contacts[] of the node
  started,   \* tab5MeshStarted
  up,        \* the radio is configured and no command is pending
  pending,   \* meshPendingTelemetryContact
  tag,       \* meshPendingTelemetryTag; 0 for none
  recip,     \* meshReciprocalTelemetryContact
  asked,     \* requests that may still be answered
  requests,  \* how many were sent
  evicted,   \* contacts the node has overwritten
  misfiled,  \* was telemetry of a saved contact recorded under another?
  torn,      \* did a reset hit saveMeshSettings?
  acts       \* what the user has done so far

lists == <<saved, found, view, cursor, chat, torn>>
radio == <<node, started, up, evicted>>
telemetry == <<pending, tag, recip, asked, requests, misfiled>>
vars == <<saved, found, view, cursor, chat, node, started, up, pending, tag, recip, asked,
          requests, evicted, misfiled, torn, acts>>

Reference == [at : Nat, who : Ids \cup {None}]
Nowhere == [at |-> 0, who |-> None]

TypeOK ==
  /\ saved \in Seq(Ids) /\ Len(saved) <= MaxContacts
  /\ found \in Seq(Keys) /\ Len(found) <= MaxFound
  /\ view \in {"contacts", "discover"}
  /\ cursor \in Reference /\ chat \in Reference /\ chat.at <= Len(saved) + 1
  /\ node \in Seq(Keys) /\ Len(node) <= MaxNode
  /\ started \in BOOLEAN /\ up \in BOOLEAN
  /\ pending \in Reference /\ tag \in 0..requests /\ recip \in Reference
  /\ requests \in 0..MaxRequests
  /\ asked \subseteq [tag : 1..requests, key : Keys]
  /\ evicted \subseteq Keys /\ misfiled \in BOOLEAN /\ torn \in BOOLEAN
  /\ acts \in 0..MaxActs

-----------------------------------------------------------------------------
(* The two lists. *)

At(list, i) == IF i \in DOMAIN list THEN list[i] ELSE None
IndexOf(list, id) == IF \E i \in DOMAIN list : list[i] = id
                     THEN CHOOSE i \in DOMAIN list : list[i] = id /\ \A j \in 1..(i-1) : list[j] # id
                     ELSE 0                       \* findMeshContactById
Listed(v, s, f) == IF v = "contacts" THEN s ELSE f
Refer(list, i) == [at |-> i, who |-> At(list, i)]

Clamp(i, list) == IF i > Len(list) THEN (IF list = <<>> THEN 1 ELSE Len(list)) ELSE i

\* The contacts of the list outside ids, in their order (SelectSeq, without recursion).
Without(list, ids) ==
  LET kept == {i \in DOMAIN list : list[i] \notin ids}
  IN  [j \in 1..Cardinality(kept) |->
         list[CHOOSE i \in kept : Cardinality(kept \cap 1..i) = j]]

\* ensureMeshContact, and saveMeshSettings; the list may be full.
ensureMeshContact(id) ==
  IF IndexOf(saved, id) # 0 \/ Len(saved) >= MaxContacts THEN saved ELSE Append(saved, id)

\* importMeshContactText (typed, or received in a message), addManualMeshContact.
importContact(id) ==
  /\ saved' = ensureMeshContact(id)
  /\ cursor' = [cursor EXCEPT !.who = At(Listed(view, saved', found), cursor.at)]
  /\ UNCHANGED <<found, view, chat, torn>> /\ UNCHANGED radio /\ UNCHANGED telemetry

\* Variant: the chat is opened at the index the peer has in the other list.
addDiscovered_OldIndex ==
  /\ view = "discover" /\ cursor.at \in DOMAIN found
  /\ LET id == found[cursor.at]
         idx == IndexOf(saved', id)
     IN  /\ saved' = ensureMeshContact(id)
         /\ IF idx = 0 THEN UNCHANGED <<cursor, chat>>
            ELSE cursor' = Refer(found, idx) /\ chat' = [at |-> cursor.at, who |-> id]
  /\ UNCHANGED <<found, view, torn>> /\ UNCHANGED radio /\ UNCHANGED telemetry

\* addDiscoveredMeshContact: the new contact is selected, with an index of the other list,
\* and its chat is opened.
addDiscovered ==
  /\ view = "discover" /\ cursor.at \in DOMAIN found
  /\ LET id == found[cursor.at]
         idx == IndexOf(saved', id)
     IN  /\ saved' = ensureMeshContact(id)
         /\ IF idx = 0 THEN UNCHANGED <<cursor, chat>>
            ELSE cursor' = Refer(found, idx) /\ chat' = [at |-> idx, who |-> id]
  /\ UNCHANGED <<found, view, torn>> /\ UNCHANGED radio /\ UNCHANGED telemetry

\* Indexes at or behind a removed contact no longer denote what they were set for.
Moved(r, first) == IF r.at >= first THEN [r EXCEPT !.who = None] ELSE r

\* Variant: the chat index is left as it is.
Shrink_KeepsChat(left, first) ==
  /\ saved' = left
  /\ cursor' = Refer(Listed(view, left, found), Clamp(cursor.at, left))
  /\ chat' = Moved(chat, first)
  /\ pending' = Moved(pending, first) /\ recip' = Moved(recip, first)

\* The list closes up; the cursor is clamped to it in either view, the chat is closed if
\* its index is gone, and the indexes of the telemetry stay what they are.
Shrink(left, first) ==
  /\ saved' = left
  /\ cursor' = Refer(Listed(view, left, found), Clamp(cursor.at, left))
  /\ chat' = IF chat.at > Len(left) THEN Nowhere ELSE Moved(chat, first)
  /\ pending' = Moved(pending, first) /\ recip' = Moved(recip, first)

deleteSelected ==
  /\ view = "contacts" /\ cursor.at \in DOMAIN saved
  /\ Shrink(RemoveAt(saved, cursor.at), cursor.at)
  /\ UNCHANGED <<found, view, torn, tag, asked, requests, misfiled>> /\ UNCHANGED radio

\* purgeOldMeshContacts, which the discover view offers, and the serial console.
purgeOld(old) ==
  /\ \E i \in DOMAIN saved : saved[i] \in old
  /\ Shrink(Without(saved, old),
            CHOOSE i \in DOMAIN saved : saved[i] \in old /\ \A j \in 1..(i-1) : saved[j] \notin old)
  /\ UNCHANGED <<found, view, torn, tag, asked, requests, misfiled>> /\ UNCHANGED radio

\* A row is touched, or the arrow keys move the cursor, up even from beyond the list.
Select(i) ==
  /\ i \in DOMAIN Listed(view, saved, found) \/ (i > 0 /\ i = cursor.at - 1)
  /\ cursor' = Refer(Listed(view, saved, found), i)
  /\ UNCHANGED <<saved, found, view, chat, torn>> /\ UNCHANGED radio /\ UNCHANGED telemetry

\* The cursor keeps its index when the other list comes up.
ShowList(v) ==
  /\ view' = v /\ cursor' = Refer(Listed(v, saved, found), cursor.at)
  /\ UNCHANGED <<saved, found, chat, torn>> /\ UNCHANGED radio /\ UNCHANGED telemetry

OpenChat(i) ==
  /\ i \in 0..(Len(saved) + 1) /\ chat' = Refer(saved, i)
  /\ UNCHANGED <<saved, found, view, cursor, torn>> /\ UNCHANGED radio /\ UNCHANGED telemetry

-----------------------------------------------------------------------------
(* The node. *)

\* allocateContactSlot: the oldest entry is overwritten when the table is full.  When each
\* was heard last is not kept.
Slot(n) == IF Len(n) < MaxNode THEN {Len(n) + 1} ELSE DOMAIN n

\* addContact does not look for an entry of the same contact.
addContact(n, key) ==
  {[j \in (DOMAIN n) \cup {i} |-> IF j = i THEN key ELSE n[j]] : i \in Slot(n)}

\* The saved contacts with a key go into the table when the node starts.
Begun ==
  IF started THEN node
  ELSE LET keyed == Without(saved, Manual)
       IN  SubSeq(keyed, 1, IF Len(keyed) < MaxNode THEN Len(keyed) ELSE MaxNode)

NodeBecomes(n) ==
  /\ node' = n /\ started' = TRUE
  /\ evicted' = (evicted \cup ToSet(node)) \ ToSet(n)

\* tab5MeshCoreBegin on its own: an advert is requested.
tab5MeshCoreBegin ==
  /\ ~started /\ NodeBecomes(Begun) /\ UNCHANGED up /\ UNCHANGED lists /\ UNCHANGED telemetry

\* sendLoraTextMessage to the contact of the chat.
sendDirect ==
  /\ At(saved, chat.at) \in Keys /\ up
  /\ \E n \in addContact(Begun, saved[chat.at]) : NodeBecomes(n)
  /\ UNCHANGED up /\ UNCHANGED lists /\ UNCHANGED telemetry

\* onAdvertRecv, rememberMeshDiscoveredContact: the cursor is clamped to the list of
\* discovered contacts, whichever list it is in.
HearAdvert(key) ==
  /\ started
  /\ found' = CASE IndexOf(found, key) # 0 -> found
                [] IndexOf(found, key) = 0 /\ Len(found) < MaxFound -> Append(found, key)
                [] OTHER -> Append(Tail(found), key)
  /\ cursor' = [cursor EXCEPT !.at = Clamp(@, found')]
  /\ UNCHANGED <<saved, view, chat, torn>> /\ UNCHANGED radio /\ UNCHANGED telemetry

-----------------------------------------------------------------------------
(* Telemetry. *)

\* Variant: the contact is not put into the node's table.
Introduced_Not(key) == {Begun}

\* The contact is looked up in the node's table and added if it is not there.
Introduced(key) == IF key \in ToSet(Begun) THEN {Begun} ELSE addContact(Begun, key)

\* requestSelectedMeshTelemetry with the selection at i.  sendRequest fails without a
\* free packet.
Request(i) ==
  \/ /\ At(saved, i) \in Keys
     /\ \E n \in Introduced(saved[i]) : NodeBecomes(n)
     /\ \/ UNCHANGED <<pending, tag, asked, requests>>
        \/ /\ requests < MaxRequests /\ requests' = requests + 1
           /\ pending' = Refer(saved, i) /\ tag' = requests + 1
           /\ asked' = asked \cup {[tag |-> requests + 1, key |-> saved[i]]}
  \/ /\ At(saved, i) \in Manual /\ NodeBecomes(Begun)
     /\ UNCHANGED <<pending, tag, asked, requests>>
  \/ /\ At(saved, i) = None
     /\ UNCHANGED <<node, started, evicted, pending, tag, asked, requests>>

requestTelemetry ==
  /\ view = "contacts" /\ up /\ Request(cursor.at)
  /\ UNCHANGED <<recip, misfiled, up>> /\ UNCHANGED lists

\* onContactRequest, with the share mode FULL.
HearRequest(key) ==
  /\ started /\ key \in ToSet(node) /\ IndexOf(saved, key) # 0
  /\ recip' = [at |-> IndexOf(saved, key), who |-> key]
  /\ UNCHANGED <<pending, tag, asked, requests, misfiled>> /\ UNCHANGED lists /\ UNCHANGED radio

\* Variant: the request is forgotten only once another has been sent.
AskBack_Retries ==
  /\ started /\ recip.at # 0 /\ tag = 0 /\ up
  /\ Request(recip.at) /\ recip' = IF requests' # requests THEN Nowhere ELSE recip
  /\ UNCHANGED <<misfiled, up>> /\ UNCHANGED lists

\* tab5MeshCoreLoop, 4.5 s later: only once, whether it could be sent or not.
AskBack ==
  /\ started /\ recip.at # 0 /\ tag = 0 /\ up
  /\ Request(recip.at) /\ recip' = Nowhere
  /\ UNCHANGED <<misfiled, up>> /\ UNCHANGED lists

\* Variant: the contact that was asked, wherever the list has it now.
FileUnder_Asked(key) == pending.at

\* The contact that answers, or the one that was asked if it is not saved any more.
FileUnder(key) == IF IndexOf(saved, key) # 0 THEN IndexOf(saved, key) ELSE pending.at

\* onContactResponse.  Only the answer to the last request counts, and only if the node
\* can decrypt it.
HearResponse(r) ==
  /\ asked' = asked \ {r} /\ started
  /\ IF r.key \in ToSet(node) /\ tag # 0 /\ r.tag = tag
     THEN /\ misfiled' = (misfiled \/ (IndexOf(saved, r.key) # 0
                                       /\ At(saved, FileUnder(r.key)) \notin {r.key, None}))
          /\ tag' = 0 /\ pending' = Nowhere
     ELSE UNCHANGED <<misfiled, tag, pending>>
  /\ UNCHANGED <<recip, requests>> /\ UNCHANGED lists /\ UNCHANGED radio

LoseResponse(r) ==
  /\ asked' = asked \ {r}
  /\ UNCHANGED <<pending, tag, recip, requests, misfiled>> /\ UNCHANGED lists /\ UNCHANGED radio

-----------------------------------------------------------------------------
(* The radio's configuration (module LoraLink), and resets. *)

LinkChanges ==
  /\ up' = ~up
  /\ UNCHANGED <<node, started, evicted>> /\ UNCHANGED lists /\ UNCHANGED telemetry

\* loadMeshSettings finds what was saved, and all else is as after power-up.
Restart(s) ==
  /\ saved' = s /\ found' = <<>> /\ view' = "contacts"
  /\ cursor' = Refer(s, 1) /\ chat' = Nowhere
  /\ node' = <<>> /\ started' = FALSE /\ up' = FALSE /\ evicted' = {}
  /\ pending' = Nowhere /\ tag' = 0 /\ recip' = Nowhere /\ asked' = {}
  /\ UNCHANGED <<requests, misfiled>>

Reset == Restart(saved) /\ UNCHANGED torn

\* saveMeshSettings writes the count first and then one contact after the other.
ResetDuringDelete ==
  /\ view = "contacts" /\ cursor.at \in DOMAIN saved
  /\ \E k \in 0..(Len(saved) - 1) :
       Restart([i \in 1..(Len(saved) - 1) |->
                  IF i <= k THEN RemoveAt(saved, cursor.at)[i] ELSE saved[i]])
  /\ torn' = TRUE

-----------------------------------------------------------------------------
Init ==
  /\ saved = <<>> /\ found = <<>> /\ view = "contacts"
  /\ cursor = Refer(<<>>, 1) /\ chat = Nowhere
  /\ node = <<>> /\ started = FALSE /\ up = FALSE /\ evicted = {}
  /\ pending = Nowhere /\ tag = 0 /\ recip = Nowhere /\ asked = {} /\ requests = 0
  /\ misfiled = FALSE /\ torn = FALSE /\ acts = 0

User ==
  \/ \E id \in Ids : importContact(id)
  \/ addDiscovered \/ deleteSelected
  \/ \E old \in SUBSET Ids : purgeOld(old)
  \/ \E i \in 1..(MaxContacts + MaxFound) : Select(i)
  \/ \E v \in {"contacts", "discover"} : ShowList(v)
  \/ \E i \in 0..(MaxContacts + 1) : OpenChat(i)
  \/ tab5MeshCoreBegin \/ sendDirect \/ requestTelemetry

Loop ==
  \/ \E key \in Keys : HearAdvert(key) \/ HearRequest(key)
  \/ AskBack
  \/ \E r \in asked : HearResponse(r) \/ LoseResponse(r)
  \/ LinkChanges \/ Reset \/ ResetDuringDelete

Next ==
  \/ acts < MaxActs /\ acts' = acts + 1 /\ User
  \/ UNCHANGED acts /\ Loop

Spec == Init /\ [][Next]_vars

\* The loop runs for ever.
FairSpec == Spec /\ WF_vars(AskBack /\ UNCHANGED acts)

-----------------------------------------------------------------------------
(* Properties. *)

Denotes(r) == (r.who # None /\ r.at \in DOMAIN saved) => saved[r.at] = r.who

\* The chat, the request that waits for an answer and the one to be made in return denote
\* the contact they were set for, unless one at or before it was deleted since.  (The row
\* DISCOVER of the chat denotes none, and becomes the next contact that is added.)
IndexMeansContact == Denotes(chat) /\ Denotes(pending) /\ Denotes(recip)

\* Telemetry of a saved contact is never recorded under another one, however the list has
\* changed between the request and the answer.
FiledUnderSender == ~misfiled

\* The node can decrypt the answer it waits for, unless it had to overwrite the contact.
AnswerCanBeRead ==
  (tag # 0 /\ pending.who \in Keys) => pending.who \in ToSet(node) \cup evicted

\* No contact is in the list twice, unless a reset hit a deletion.
ContactsAreUnique == ~torn => IsInjective(saved)

\* A contact that asked is asked in return, or the attempt is given up; only an
\* unanswered request of the device's own and the radio can keep it waiting.
ReciprocalEnds == recip.at # 0 ~> (recip.at = 0 \/ tag # 0 \/ ~up)

\* "UP / DOWN SELECT" (main.cpp:24615): only the user moves the selection, so that what is
\* deleted or asked is what was selected.
SelectionIsUsers == view = "contacts" => At(saved, cursor.at) = cursor.who
=============================================================================
