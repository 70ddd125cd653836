------------------------------ MODULE UsbLease ------------------------------
(***************************************************************************)
(* What the sharing of the USB host promises its users: a lease that one    *)
(* owner holds at a time (src/src/usb_host_manager.cpp), a host that is only *)
(* installed for somebody, and a client that only lives under it.  Module   *)
(* UsbWifiHandoff, with its three threads, is shown to implement it.        *)
(***************************************************************************)
CONSTANTS
  Owners,    \* UsbHostOwner, NONE included
  Nobody,    \* NONE
  Rescue     \* UTILITY, the owner that a recovery of the port puts in place

VARIABLES
  owner,      \* owner_
  installed,  \* hostInstalled_
  client,     \* is there a task registered with the host?
  up          \* no restart of the device has been asked for

lease == <<owner, installed, client, up>>

Init == owner = Nobody /\ installed = FALSE /\ client = FALSE /\ up = TRUE

\* request: an owner comes in only when there is none; its host is installed and its
\* client started at once, if they are not there already.
Acquire ==
  /\ up /\ owner' \in Owners \ {Nobody} /\ owner \in {Nobody, owner'}
  /\ installed' \in {installed, TRUE} /\ client' \in {client, installed'}

\* release: the owner goes first, the host and the client later.
Release == up /\ owner' = Nobody /\ UNCHANGED <<installed, client>>

\* A recovery takes the lease over, whoever holds it.
TakeOver == up /\ owner' = Rescue /\ UNCHANGED <<installed, client>>

ClientLeaves == up /\ client /\ ~client' /\ UNCHANGED <<owner, installed>>

\* setInstalled(false): the host goes when no client is left, and the lease with it.
Uninstall ==
  up /\ installed /\ ~client /\ ~installed' /\ owner' = Nobody /\ UNCHANGED client

Running ==
  Acquire \/ Release \/ TakeOver \/ ClientLeaves \/ Uninstall
    \/ (up /\ UNCHANGED <<owner, installed, client>>)

\* The restart clears everything.
Reset == ~up /\ up' /\ owner' = Nobody /\ ~installed' /\ ~client'

Next == (Running /\ up' \in BOOLEAN) \/ Reset

Spec == Init /\ [][Next]_lease
=============================================================================
