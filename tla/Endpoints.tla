------------------------------ MODULE Endpoints ------------------------------
(***************************************************************************)
(* The endpoints of the sessions: active identities, destinations and      *)
(* packet listeners (rns/destinations.py, rns/packets.py,                  *)
(* handlers/identity.py, handlers/packets.py), over the one registry of    *)
(* destinations RNS keeps for the whole daemon.                            *)
(*                                                                         *)
(* A WebSocket frame and most REST calls are one step; the REST calls with *)
(* a body (PUT of the active identity, POST of a destination or of a       *)
(* listener) check the session, await the body and then act on the session *)
(* as it is by then.                                                       *)
(*                                                                         *)
(* A destination is inbound, and then RNS registers it, or outbound, and   *)
(* then it does not; both have the hash of their name, and a session keeps *)
(* one for each hash.                                                      *)
(*                                                                         *)
(* Left out: the validation of names, the types of destinations, the       *)
(* events, the links behind the dirty check but for their existence.       *)
(***************************************************************************)
EXTENDS Naturals

CONSTANTS Session,
          NoSession,
          Identity,     \* identities in the local store, shared by all sessions
          NoIdentity,   \* active_identity_hash is None
          Hash,         \* destination hashes clients ask for
          IdentityOf,   \* IdentityOf[h]: the identity hash h is derived from
          Request       \* REST requests in flight at the same time

ASSUME ConstantsAssumption ==
    /\ NoSession \notin Session
    /\ NoIdentity \notin Identity
    /\ IdentityOf \in [Hash -> Identity]

VARIABLES
    ended,           \* sessions whose cleanup hooks have run
    lingering,       \* ended sessions with a WebSocket that is still open
    activeIdentity,  \* activeIdentity[s]: session.active_identity_hash
    owned,           \* owned[s]: session.owned_destinations, the inbound ones
    outbound,        \* outbound[s]: and the outbound ones
    hasLinks,        \* hasLinks[s]: session.open_links is not empty
    listeners,       \* listeners[s]: session.packet_listeners
    registered,      \* inbound destinations registered with RNS.Transport
    callback,        \* callback[h]: the session whose _on_packet is set on the
                     \* registered destination h
    request          \* request[r]: what a REST request will do, and for whom

vars == <<ended, lingering, activeIdentity, owned, outbound, hasLinks,
          listeners, registered, callback, request>>

NoRequest == [op |-> "none", session |-> NoSession]

RequestState ==
    [op : {"none", "set_identity", "add", "listen", "failed"},
     session : Session \cup {NoSession}]

TypeOK ==
    /\ ended \subseteq Session
    /\ lingering \subseteq ended
    /\ activeIdentity \in [Session -> Identity \cup {NoIdentity}]
    /\ owned \in [Session -> SUBSET Hash]
    /\ outbound \in [Session -> SUBSET Hash]
    /\ hasLinks \in [Session -> BOOLEAN]
    /\ listeners \in [Session -> SUBSET Hash]
    /\ registered \subseteq Hash
    /\ callback \in [Hash -> Session \cup {NoSession}]
    /\ request \in [Request -> RequestState]

Init ==
    /\ ended = {}
    /\ lingering = {}
    /\ activeIdentity = [s \in Session |-> NoIdentity]
    /\ owned = [s \in Session |-> {}]
    /\ outbound = [s \in Session |-> {}]
    /\ hasLinks = [s \in Session |-> FALSE]
    /\ listeners = [s \in Session |-> {}]
    /\ registered = {}
    /\ callback = [h \in Hash |-> NoSession]
    /\ request = [r \in Request |-> NoRequest]

-----------------------------------------------------------------------------
\* A client of s is heard: the gate admits it, or its connection is open yet.
Heard(s) == s \notin ended \/ s \in lingering

\* _session_is_dirty
Dirty(s) == owned[s] \cup outbound[s] # {} \/ hasLinks[s]

\* Deregistering the destinations of a set also drops their callbacks.
Deregister(hashes) ==
    /\ registered' = registered \ hashes
    /\ callback' = [h \in Hash |-> IF h \in hashes THEN NoSession ELSE callback[h]]

-----------------------------------------------------------------------------
(***************************************************************************)
(* Active identity.                                                        *)
(***************************************************************************)

\* ws_set_active_identity
WsSetIdentity(s, i) ==
    /\ Heard(s)
    /\ ~Dirty(s)
    /\ activeIdentity' = [activeIdentity EXCEPT ![s] = i]
    /\ UNCHANGED <<ended, lingering, owned, outbound, hasLinks, listeners,
                   registered, callback, request>>

\* rest_clear_active_identity, ws_clear_active_identity
ClearIdentity(s) ==
    /\ Heard(s)
    /\ ~Dirty(s)
    /\ activeIdentity' = [activeIdentity EXCEPT ![s] = NoIdentity]
    /\ UNCHANGED <<ended, lingering, owned, outbound, hasLinks, listeners,
                   registered, callback, request>>

\* rest_set_active_identity: the dirty check, then the body is awaited ...
RestSetIdentityCheck(r, s) ==
    /\ request[r] = NoRequest
    /\ s \notin ended
    /\ ~Dirty(s)
    /\ request' = [request EXCEPT ![r] = [op |-> "set_identity", session |-> s]]
    /\ UNCHANGED <<ended, lingering, activeIdentity, owned, outbound,
                   hasLinks, listeners, registered, callback>>

\* ... and the identity is set, unless the body names none that can be loaded.
RestSetIdentity(r) ==
    /\ request[r].op = "set_identity"
    /\ request' = [request EXCEPT ![r] = NoRequest]
    /\ \/ \E i \in Identity :
             activeIdentity' = [activeIdentity EXCEPT ![request[r].session] = i]
       \/ UNCHANGED activeIdentity
    /\ UNCHANGED <<ended, lingering, owned, outbound, hasLinks, listeners,
                   registered, callback>>

-----------------------------------------------------------------------------
(***************************************************************************)
(* Destinations.                                                           *)
(***************************************************************************)

\* Mutation: the error of RNS is not an error of the request.
CreateInbound_Adopt(s, h) ==
    /\ registered' = registered \cup {h}
    /\ owned' = [owned EXCEPT ![s] = @ \cup {h}]
    /\ outbound' = [outbound EXCEPT ![s] = @ \ {h}]

\* RNS refuses a hash that is registered already, by whatever session.
CreateInbound(s, h) ==
    /\ h \notin registered
    /\ registered' = registered \cup {h}
    /\ owned' = [owned EXCEPT ![s] = @ \cup {h}]
    /\ outbound' = [outbound EXCEPT ![s] = @ \ {h}]

\* An outbound destination takes the place of the session's inbound one of
\* the same name, which RNS keeps.
CreateOutbound(s, h) ==
    /\ owned' = [owned EXCEPT ![s] = @ \ {h}]
    /\ outbound' = [outbound EXCEPT ![s] = @ \cup {h}]
    /\ UNCHANGED registered

\* DestinationService.create for the active identity.
CreateDestination(s, h) ==
    /\ activeIdentity[s] = IdentityOf[h]
    /\ CreateInbound(s, h) \/ CreateOutbound(s, h)

\* ws_add_destination
WsAdd(s, h) ==
    /\ Heard(s)
    /\ CreateDestination(s, h)
    /\ UNCHANGED <<ended, lingering, activeIdentity, hasLinks, listeners,
                   callback, request>>

\* rest_add_destination: an active identity is required, then the body is
\* awaited ...
RestAddCheck(r, s) ==
    /\ request[r] = NoRequest
    /\ s \notin ended
    /\ activeIdentity[s] # NoIdentity
    /\ request' = [request EXCEPT ![r] = [op |-> "add", session |-> s]]
    /\ UNCHANGED <<ended, lingering, activeIdentity, owned, outbound,
                   hasLinks, listeners, registered, callback>>

\* ... and the destination is created for the identity that is active by
\* now, or the request is refused ...
RestAdd(r) ==
    /\ request[r].op = "add"
    /\ request' = [request EXCEPT ![r] = NoRequest]
    /\ \/ \E h \in Hash : CreateDestination(request[r].session, h)
       \/ UNCHANGED <<owned, outbound, registered>>
    /\ UNCHANGED <<ended, lingering, activeIdentity, hasLinks, listeners, callback>>

\* ... or, when no identity is active any more, the handler raises, and the
\* server makes a 500 of it.
RestAddRaises(r) ==
    /\ request[r].op = "add"
    /\ activeIdentity[request[r].session] = NoIdentity
    /\ request' = [request EXCEPT ![r] = [op |-> "failed", session |-> NoSession]]
    /\ UNCHANGED <<ended, lingering, activeIdentity, owned, outbound, hasLinks,
                   listeners, registered, callback>>

RestAddFails(r) ==
    /\ request[r].op = "failed"
    /\ request' = [request EXCEPT ![r] = NoRequest]
    /\ UNCHANGED <<ended, lingering, activeIdentity, owned, outbound, hasLinks,
                   listeners, registered, callback>>

\* Mutation: the destination leaves the book, not RNS.
Remove_NoDeregister(s, h) ==
    /\ Heard(s)
    /\ h \in owned[s] \cup outbound[s]
    /\ owned' = [owned EXCEPT ![s] = @ \ {h}]
    /\ outbound' = [outbound EXCEPT ![s] = @ \ {h}]
    /\ UNCHANGED <<ended, lingering, activeIdentity, hasLinks, listeners,
                   registered, callback, request>>

\* DestinationService.remove, which leaves the listener of h alone.
Remove(s, h) ==
    /\ Heard(s)
    /\ h \in owned[s] \cup outbound[s]
    /\ owned' = [owned EXCEPT ![s] = @ \ {h}]
    /\ outbound' = [outbound EXCEPT ![s] = @ \ {h}]
    /\ Deregister({h} \cap owned[s])
    /\ UNCHANGED <<ended, lingering, activeIdentity, hasLinks, listeners, request>>

-----------------------------------------------------------------------------
(***************************************************************************)
(* Packet listeners.                                                       *)
(***************************************************************************)

\* PacketsService.listen; for a hash that is listed already it changes
\* nothing and answers ok.
StartListening(s, h) ==
    /\ h \in (owned[s] \cup outbound[s]) \ listeners[s]
    /\ callback' = [callback EXCEPT ![h] = IF h \in owned[s] THEN s ELSE @]
    /\ listeners' = [listeners EXCEPT ![s] = @ \cup {h}]

\* ws_listen
WsListen(s, h) ==
    /\ Heard(s)
    /\ StartListening(s, h)
    /\ UNCHANGED <<ended, lingering, activeIdentity, owned, outbound,
                   hasLinks, registered, request>>

\* rest_listen: the gate admits the request, its body is awaited ...
RestListenStart(r, s) ==
    /\ request[r] = NoRequest
    /\ s \notin ended
    /\ request' = [request EXCEPT ![r] = [op |-> "listen", session |-> s]]
    /\ UNCHANGED <<ended, lingering, activeIdentity, owned, outbound,
                   hasLinks, listeners, registered, callback>>

\* ... and the listener is set, or the request fails.
RestListen(r) ==
    /\ request[r].op = "listen"
    /\ request' = [request EXCEPT ![r] = NoRequest]
    /\ \/ \E h \in Hash : StartListening(request[r].session, h)
       \/ UNCHANGED <<callback, listeners>>
    /\ UNCHANGED <<ended, lingering, activeIdentity, owned, outbound,
                   hasLinks, registered>>

\* Mutation: the callback stays on the destination.
Unlisten_KeepCallback(s, h) ==
    /\ Heard(s)
    /\ h \in listeners[s]
    /\ listeners' = [listeners EXCEPT ![s] = @ \ {h}]
    /\ UNCHANGED <<ended, lingering, activeIdentity, owned, outbound,
                   hasLinks, registered, callback, request>>

\* PacketsService.unlisten
Unlisten(s, h) ==
    /\ Heard(s)
    /\ h \in listeners[s]
    /\ callback' = [callback EXCEPT ![h] = IF h \in owned[s] THEN NoSession ELSE @]
    /\ listeners' = [listeners EXCEPT ![s] = @ \ {h}]
    /\ UNCHANGED <<ended, lingering, activeIdentity, owned, outbound,
                   hasLinks, registered, request>>

-----------------------------------------------------------------------------
(***************************************************************************)
(* The end of a session, and its links (modules Sessions and Links).       *)
(***************************************************************************)

\* Mutation: the hooks run, the session stays in the registry.
EndSession_StillListed(s) ==
    /\ s \notin ended
    /\ lingering' = lingering \cup {s}
    /\ owned' = [owned EXCEPT ![s] = {}]
    /\ outbound' = [outbound EXCEPT ![s] = {}]
    /\ hasLinks' = [hasLinks EXCEPT ![s] = FALSE]
    /\ listeners' = [listeners EXCEPT ![s] = {}]
    /\ Deregister(owned[s])
    /\ UNCHANGED <<ended, activeIdentity, request>>

\* Mutation: the hook of packets leaves packet_listeners as it is.
EndSession_KeepListeners(s) ==
    /\ s \notin ended
    /\ ended' = ended \cup {s}
    /\ lingering' = lingering \cup {s}
    /\ owned' = [owned EXCEPT ![s] = {}]
    /\ outbound' = [outbound EXCEPT ![s] = {}]
    /\ hasLinks' = [hasLinks EXCEPT ![s] = FALSE]
    /\ Deregister(owned[s])
    /\ UNCHANGED <<activeIdentity, listeners, request>>

\* The hooks of packets and destinations, in this order and in one step.
EndSession(s) ==
    /\ s \notin ended
    /\ ended' = ended \cup {s}
    /\ lingering' = lingering \cup {s}
    /\ owned' = [owned EXCEPT ![s] = {}]
    /\ outbound' = [outbound EXCEPT ![s] = {}]
    /\ hasLinks' = [hasLinks EXCEPT ![s] = FALSE]
    /\ listeners' = [listeners EXCEPT ![s] = {}]
    /\ Deregister(owned[s])
    /\ UNCHANGED <<activeIdentity, request>>

Disconnect(s) ==
    /\ s \in lingering
    /\ lingering' = lingering \ {s}
    /\ UNCHANGED <<ended, activeIdentity, owned, outbound, hasLinks,
                   listeners, registered, callback, request>>

LinksChange(s) ==
    /\ Heard(s)
    /\ hasLinks' = [hasLinks EXCEPT ![s] = ~@]
    /\ UNCHANGED <<ended, lingering, activeIdentity, owned, outbound,
                   listeners, registered, callback, request>>

-----------------------------------------------------------------------------
Client(s) ==
    \/ \E i \in Identity : WsSetIdentity(s, i)
    \/ ClearIdentity(s)
    \/ \E h \in Hash : WsAdd(s, h) \/ Remove(s, h) \/ WsListen(s, h) \/ Unlisten(s, h)
    \/ \E r \in Request :
          RestSetIdentityCheck(r, s) \/ RestAddCheck(r, s) \/ RestListenStart(r, s)
    \/ EndSession(s)
    \/ Disconnect(s)
    \/ LinksChange(s)

Next ==
    \/ \E s \in Session : Client(s)
    \/ \E r \in Request :
          \/ RestSetIdentity(r) \/ RestAdd(r) \/ RestListen(r)
          \/ RestAddRaises(r) \/ RestAddFails(r)

Spec == Init /\ [][Next]_vars

-----------------------------------------------------------------------------
(***************************************************************************)
(* Properties.                                                             *)
(***************************************************************************)

\* What a session owns as inbound is registered with RNS, and nobody else
\* owns it (create, remove, cleanup_session).
OwnersAreRegistered ==
    /\ \A s \in Session : owned[s] \subseteq registered
    /\ \A s, t \in Session : owned[s] \cap owned[t] # {} => s = t

\* RNS has destination h, and it is in nobody's book.
Ownerless(h) == h \in registered /\ \A s \in Session : h \notin owned[s]

\* RNS has destination h, and no client is left who can remove it.
Stray(h) == h \in registered /\ \A s \in Session : Heard(s) => h \notin owned[s]

\* Neither a removal nor the end of a session leaves a hash behind that
\* nobody can free.  There are two ways to that: an outbound destination put
\* in the place of the inbound one, and a destination that was created for
\* the session when it had ended already (create, remove, cleanup_session).
RemovalsAndEndsFree ==
    [][\A h \in Hash :
          Stray(h)' => \/ Stray(h)
                       \/ \E s \in Session : h \in owned[s] \cap outbound'[s]
                       \/ \E s \in ended : h \in owned'[s]]_vars

\* docs/api-reference.md, "listeners only fire on destinations that belong to
\* the current session": the session that gets the packets of a destination
\* owns it and lists it, through removals, re-creations by other sessions
\* and the end of sessions, unless the destination is ownerless (listen,
\* unlisten, remove, cleanup_session).
OnlyListenersHear ==
    \A h \in Hash :
        callback[h] # NoSession =>
            Ownerless(h) \/ h \in owned[callback[h]] \cap listeners[callback[h]]

\* Session s as this module sees it: its books are owned_destinations,
\* inbound and outbound, and packet_listeners.
Life(s) == INSTANCE SessionLife WITH
    life <- IF s \in ended THEN "ended" ELSE "live",
    heard <- Heard(s),
    held <- \E r \in Request : request[r].session = s,
    booked <- owned[s] \cup outbound[s] \cup listeners[s] # {}

\* The hooks empty both books, and afterwards they are filled again only by
\* a REST request that was waiting for its body, or over a connection not
\* yet closed (cleanup_session of packets and of destinations, and the
\* handlers of identity.py and packets.py).
EndpointsWindDown ==
    /\ \A s \in Session : Life(s)!Init
    /\ [][\A s \in Session : [Life(s)!Next]_(Life(s)!vars)]_vars

-----------------------------------------------------------------------------
(***************************************************************************)
(* What the documents and comments of the code say and the code does not   *)
(* keep: TLC refutes each of these (README, section 5).                    *)
(***************************************************************************)

\* docs/api-reference.md, POST /packets/listen: "Every subsequent packet
\* delivered to that destination fires a session-only packet.received event":
\* a listener that is listed for a destination of the session is attached.
ListedIsAttached ==
    \A s \in Session : \A h \in owned[s] \cap listeners[s] : callback[h] = s

\* docs/api-reference.md, "Destinations are session-scoped: they belong to the
\* session that created them and are automatically deregistered from RNS when
\* that session ends": once nobody acts for an ended session any more, none
\* of its destinations is registered.
EndedSessionsOwnNothing ==
    \A s \in Session :
        ~Heard(s) /\ (\A r \in Request : request[r].session # s)
            => owned[s] \cap registered = {}

\* docs/api-reference.md, PUT /session/active-identity, "409 Conflict if the
\* session already owns any destinations or open links": the identity of such
\* a session does not change.
DirtyKeepsIdentity ==
    [][\A s \in Session : Dirty(s) => activeIdentity'[s] = activeIdentity[s]]_vars

\* docs/api-reference.md, POST /destinations, "Requires an active identity on
\* the session. Responds 409 Conflict": a request that finds none is refused,
\* it does not make the handler raise.
NoIdentityIsRefused == \A r \in Request : request[r].op # "failed"
=============================================================================
