-------------------------------- MODULE LivePage --------------------------------
(***************************************************************************)
(* A page that follows a document while it changes: an order's tracking    *)
(* page, a vendor's queue, a conversation.  It fetches the document when   *)
(* it opens, joins the document's room on the socket, and fetches again    *)
(* whenever the room is told of a change (frontend/src/app, e.g.           *)
(* orders/[id]/page.tsx, over backend/src/realtime/realtime.gateway.ts).   *)
(* Conversations and the checkout's last page also fetch from time to time.*)
(* A connection that drops takes the room with it.  The document is known  *)
(* by its version; what the versions say is left out.                      *)
(***************************************************************************)
EXTENDS Integers

CONSTANTS
  Pages,           \* open pages that show the document
  Polls,           \* those that also fetch from time to time
  MaxVersions,     \* bound: changes of the document
  MaxDrops         \* bound: connections lost and fetches that fail

ASSUME LivePageAssumption ==
  /\ Polls \subseteq Pages
  /\ MaxVersions \in Nat /\ MaxDrops \in Nat

VARIABLES
  version,       \* of the document, on the server
  link,          \* each page's connection
  room,          \* none; a request to join that is on its way; or joined
  told,          \* events on their way to each page
  fetch,         \* the one query a page has under way
  shown,         \* the version on the page
  (* history *)
  drops,
  missed         \* pages that could not hear of a change, or lost an answer

pageVars == <<version, link, room, told, fetch, shown, drops, missed>>

FetchType == [at : {"none", "asked", "read"}, version : 0..MaxVersions]

NoFetch == [at |-> "none", version |-> 0]
Asked   == [at |-> "asked", version |-> 0]

LivePageTypeOK ==
  /\ version \in 0..MaxVersions
  /\ link \in [Pages -> {"down", "up"}]
  /\ room \in [Pages -> {"none", "joining", "joined"}]
  /\ told \in [Pages -> 0..MaxVersions]
  /\ fetch \in [Pages -> FetchType]
  /\ shown \in [Pages -> 0..MaxVersions]
  /\ drops \in 0..MaxDrops
  /\ missed \in SUBSET Pages

LivePageInit ==
  /\ version = 0
  /\ link = [p \in Pages |-> "down"] /\ room = [p \in Pages |-> "none"]
  /\ told = [p \in Pages |-> 0]
  /\ fetch = [p \in Pages |-> Asked] /\ shown = [p \in Pages |-> 0]
  /\ drops = 0 /\ missed = {}

-----------------------------------------------------------------------------
(* A change that cannot be heard is only seen by a fetch that has not been  *)
(* read yet.                                                                *)
Deaf == {p \in Pages : (link[p] = "down" \/ room[p] = "joining") /\ fetch[p].at # "asked"}

(* The document is saved, and its room told.                                *)
emitOrderStatusChanged ==
  /\ version < MaxVersions
  /\ version' = version + 1
  /\ told' = [p \in Pages |-> IF room[p] = "joined" THEN told[p] + 1 ELSE told[p]]
  /\ missed' = missed \cup Deaf
  /\ UNCHANGED <<link, room, fetch, shown, drops>>

(* Mutant: a page joins when it opens, and not when it connects again. *)
JoinOnce(p) == IF drops = 0 THEN "joining" ELSE "none"

JoinOnConnect(p) == "joining"

connect(p) ==
  /\ link[p] = "down"
  /\ link' = [link EXCEPT ![p] = "up"]
  /\ room' = [room EXCEPT ![p] = JoinOnConnect(p)]
  /\ UNCHANGED <<version, told, fetch, shown, drops, missed>>

handleOrderSubscribe(p) ==
  /\ room[p] = "joining"
  /\ room' = [room EXCEPT ![p] = "joined"]
  /\ UNCHANGED <<version, link, told, fetch, shown, drops, missed>>

(* External: the network, a new access token, a restart of the server.      *)
Disconnect(p) ==
  /\ link[p] = "up" /\ drops < MaxDrops
  /\ drops' = drops + 1
  /\ link' = [link EXCEPT ![p] = "down"]
  /\ room' = [room EXCEPT ![p] = "none"]
  /\ told' = [told EXCEPT ![p] = 0]
  /\ missed' = IF told[p] > 0 THEN missed \cup {p} ELSE missed
  /\ UNCHANGED <<version, fetch, shown>>

(* A refetch does nothing while one is under way (external, RTK Query): if  *)
(* that one was read before the change, it shows what was before.           *)
handleStatusChanged(p) ==
  /\ told[p] > 0
  /\ told' = [told EXCEPT ![p] = @ - 1]
  /\ fetch' = IF fetch[p].at = "none" THEN [fetch EXCEPT ![p] = Asked] ELSE fetch
  /\ missed' = IF fetch[p].at = "read" /\ fetch[p].version # version
                 THEN missed \cup {p} ELSE missed
  /\ UNCHANGED <<version, link, room, shown, drops>>

poll(p) ==
  /\ p \in Polls /\ fetch[p].at = "none"
  /\ fetch' = [fetch EXCEPT ![p] = Asked]
  /\ UNCHANGED <<version, link, room, told, shown, drops, missed>>

Read(p) ==
  /\ fetch[p].at = "asked"
  /\ fetch' = [fetch EXCEPT ![p] = [at |-> "read", version |-> version]]
  /\ UNCHANGED <<version, link, room, told, shown, drops, missed>>

(* A page that shows the document as it is has missed nothing.              *)
Show(p) ==
  /\ fetch[p].at = "read"
  /\ shown' = [shown EXCEPT ![p] = fetch[p].version]
  /\ fetch' = [fetch EXCEPT ![p] = NoFetch]
  /\ missed' = IF fetch[p].version = version THEN missed \ {p} ELSE missed
  /\ UNCHANGED <<version, link, room, told, drops>>

FetchFails(p) ==
  /\ fetch[p].at # "none" /\ drops < MaxDrops
  /\ drops' = drops + 1
  /\ fetch' = [fetch EXCEPT ![p] = NoFetch]
  /\ missed' = missed \cup {p}
  /\ UNCHANGED <<version, link, room, told, shown>>

LivePageNext ==
  \/ emitOrderStatusChanged
  \/ \E p \in Pages :
       \/ connect(p) \/ handleOrderSubscribe(p) \/ Disconnect(p) \/ handleStatusChanged(p)
       \/ poll(p) \/ Read(p) \/ Show(p) \/ FetchFails(p)

LivePageSpec == LivePageInit /\ [][LivePageNext]_pageVars

-----------------------------------------------------------------------------
(* Properties *)

(* A connected page never falls silently behind (orders/[id]/page.tsx:      *)
(* 251-260): with nothing on its way it shows the document as it is, unless *)
(* the change came while it was cut off or was joining, or the answer was   *)
(* lost, or the news came between a fetch's reading and its answer.         *)
PageIsCurrent ==
  \A p \in Pages \ missed :
    fetch[p].at = "none" /\ told[p] = 0 => shown[p] = version

(* No order of fetches, events and reconnections takes a page back to an    *)
(* earlier version.                                                         *)
NeverGoesBack == [][\A p \in Pages : shown'[p] >= shown[p]]_pageVars
=============================================================================
