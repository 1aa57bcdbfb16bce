------------------------------ MODULE Sessions ------------------------------
(***************************************************************************)
(* Sessions and the WebSocket connections attached to them: the session    *)
(* registry (auth/session.py), the REST gate (auth/middleware.py), the     *)
(* login and logout handlers (handlers/auth.py) and the WebSocket handler  *)
(* (server.py, ws/connection.py, ws/hub.py).                               *)
(*                                                                         *)
(* Everything here runs on one asyncio loop: a handler runs undisturbed    *)
(* from one await to the next, so a step of the model is the code between  *)
(* two awaits.  The four cleanup hooks of a session contain no await, so   *)
(* taking a session out of the registry and running its hooks is one step. *)
(*                                                                         *)
(* Handlers spawn tasks and register callbacks with RNS that hold the      *)
(* session object and outlive the frame or the request they come from;     *)
(* they are the background of the session.                                 *)
(*                                                                         *)
(* Left out: tokens and ids (a session stands for both, they are fresh     *)
(* random strings), message payloads, the delivery of events.              *)
(***************************************************************************)
EXTENDS Naturals

CONSTANTS Session,      \* session objects a run may create
          Anon,         \* the one SessionRegistry.anonymous() returns
          NoSession,    \* conn.session is None
          Conn,         \* WebSocket connections, each opened at most once
          Request,      \* REST requests in flight at the same time
          Reaper,       \* the reaper task
          AuthEnabled,  \* config.auth.enabled
          Inactivity,   \* config.auth.session_inactivity_timeout, in ticks
          MaxLifetime   \* config.auth.session_max_lifetime, in ticks

ASSUME ConstantsAssumption ==
    /\ Anon \in Session
    /\ NoSession \notin Session
    /\ Reaper \notin Session
    /\ AuthEnabled \in BOOLEAN
    /\ Inactivity \in Nat
    /\ MaxLifetime \in Nat

VARIABLES
    created,     \* sessions that exist or have existed
    registered,  \* sessions in _by_token and _by_id
    idle,        \* idle[s]: ticks since last_seen_at, up to Inactivity + 1
    age,         \* age[s]: ticks since created_at, up to MaxLifetime + 1
    owned,       \* owned[s]: s holds destinations, links, listeners or transfers
    background,  \* background[s]: tasks or RNS callbacks hold s
    wsState,     \* wsState[c]: where the handler of connection c is
    wsSession,   \* wsSession[c]: conn.session
    wsClosed,    \* wsClosed[c]: ws.closed
    reqSession,  \* reqSession[r]: the session request r was admitted with
    tdState,     \* tdState[a]: where the _teardown run by a is
    tdSession,   \* tdSession[a]: the session it tears down
    tdLeft,      \* tdLeft[a]: connections it has still to close
    expired      \* the rest of the list computed by sweep_once

registryVars == <<created, registered, idle, age>>
bookVars == <<owned, background>>
wsVars == <<wsState, wsSession, wsClosed>>
tdVars == <<tdState, tdSession, tdLeft>>
vars == <<created, registered, idle, age, owned, background,
          wsState, wsSession, wsClosed, reqSession,
          tdState, tdSession, tdLeft, expired>>

\* A teardown is run by the reaper or by the one logout that popped the
\* session, which is named by that session.
Ender == Session \cup {Reaper}

\* The handler is between conn.attach and conn.detach.
AttachedStates == {"open", "busy", "logout", "revoking", "leaving"}

WsStates == {"unused", "auth", "rejecting", "rejected", "gone"}
                \cup AttachedStates

TypeOK ==
    /\ created \in SUBSET Session
    /\ registered \in SUBSET created
    /\ idle \in [Session -> 0 .. Inactivity + 1]
    /\ age \in [Session -> 0 .. MaxLifetime + 1]
    /\ owned \in [Session -> BOOLEAN]
    /\ background \in [Session -> BOOLEAN]
    /\ wsState \in [Conn -> WsStates]
    /\ wsSession \in [Conn -> Session \cup {NoSession}]
    /\ \A c \in Conn : wsState[c] \in AttachedStates <=> wsSession[c] # NoSession
    /\ wsClosed \in [Conn -> BOOLEAN]
    /\ reqSession \in [Request -> Session \cup {NoSession}]
    /\ tdState \in [Ender -> {"idle", "notify", "close"}]
    /\ tdSession \in [Ender -> Session \cup {NoSession}]
    /\ tdLeft \in [Ender -> SUBSET Conn]
    /\ expired \in SUBSET Session

Init ==
    /\ created = {}
    /\ registered = {}
    /\ idle = [s \in Session |-> 0]
    /\ age = [s \in Session |-> 0]
    /\ owned = [s \in Session |-> FALSE]
    /\ background = [s \in Session |-> FALSE]
    /\ wsState = [c \in Conn |-> "unused"]
    /\ wsSession = [c \in Conn |-> NoSession]
    /\ wsClosed = [c \in Conn |-> FALSE]
    /\ reqSession = [r \in Request |-> NoSession]
    /\ tdState = [a \in Ender |-> "idle"]
    /\ tdSession = [a \in Ender |-> NoSession]
    /\ tdLeft = [a \in Ender |-> {}]
    /\ expired = {}

-----------------------------------------------------------------------------
(***************************************************************************)
(* Registry.                                                               *)
(***************************************************************************)

\* session.touch()
Touch(s) == idle' = [idle EXCEPT ![s] = 0]

\* session.ws_connections: attach and detach keep it equal to the
\* connections whose .session is s.
AttachedTo(s) == {c \in Conn : wsSession[c] = s}

\* Mutation: the lifetime limit is not looked at.
IsExpired_IdleOnly(s) == s # Anon /\ idle[s] > Inactivity

\* _is_expired at the current time.
IsExpired(s) ==
    /\ s # Anon
    /\ idle[s] > Inactivity \/ age[s] > MaxLifetime

\* rest_login with auth enabled: a fresh session with a fresh token.
Login(s) ==
    /\ AuthEnabled
    /\ s \notin created \cup {Anon}
    /\ created' = created \cup {s}
    /\ registered' = registered \cup {s}
    /\ UNCHANGED <<idle, age, bookVars, wsVars, reqSession, tdVars, expired>>

\* anonymous(): create the shared session on first use, touch it always.
UseAnonymous ==
    /\ ~AuthEnabled
    /\ created' = created \cup {Anon}
    /\ registered' = registered \cup {Anon}
    /\ Touch(Anon)
    /\ UNCHANGED age

\* Mutation: a token keeps working after its session was popped.
UseToken_StaleToken(s) ==
    /\ AuthEnabled
    /\ s \in created
    /\ Touch(s)
    /\ UNCHANGED <<created, registered, age>>

\* get_by_token for a token that is still in the registry.
UseToken(s) ==
    /\ AuthEnabled
    /\ s \in registered
    /\ Touch(s)
    /\ UNCHANGED <<created, registered, age>>

\* One unit of the clock time.time() reads.
Tick ==
    /\ \E s \in registered : idle[s] <= Inactivity \/ age[s] <= MaxLifetime
    /\ idle' = [s \in Session |->
                  IF s \in registered /\ idle[s] <= Inactivity
                  THEN idle[s] + 1 ELSE idle[s]]
    /\ age' = [s \in Session |->
                  IF s \in registered /\ age[s] <= MaxLifetime
                  THEN age[s] + 1 ELSE age[s]]
    /\ UNCHANGED <<created, registered, bookVars, wsVars, reqSession,
                   tdVars, expired>>

-----------------------------------------------------------------------------
(***************************************************************************)
(* Ending a session.  revoke and sweep_once take the session out of both   *)
(* maps and enter _teardown, which runs the hooks before its first await,  *)
(* then sends auth.session.ended (an await), then closes the attached      *)
(* connections one after the other (an await each).                        *)
(***************************************************************************)

\* Mutation: auth.session.ended goes out before the hooks run.
EnterTeardown_NotifyFirst(a, s) ==
    /\ registered' = registered \ {s}
    /\ tdState' = [tdState EXCEPT ![a] = "notify"]
    /\ tdSession' = [tdSession EXCEPT ![a] = s]
    /\ UNCHANGED <<created, age, bookVars, tdLeft>>

\* Pop the session and run _teardown up to its first await.  What holds
\* the session object goes on holding it.
EnterTeardown(a, s) ==
    /\ registered' = registered \ {s}
    /\ owned' = [owned EXCEPT ![s] = FALSE]
    /\ tdState' = [tdState EXCEPT ![a] = "notify"]
    /\ tdSession' = [tdSession EXCEPT ![a] = s]
    /\ UNCHANGED <<created, age, background, tdLeft>>

\* auth.session.ended is out: take list(s.ws_connections).
TeardownNotified(a) ==
    /\ tdState[a] = "notify"
    /\ tdState' = [tdState EXCEPT ![a] = "close"]
    /\ tdLeft' = [tdLeft EXCEPT ![a] = AttachedTo(tdSession[a])]
    /\ UNCHANGED <<registryVars, bookVars, wsVars, reqSession,
                   tdSession, expired>>

\* Mutation: _teardown forgets to close the connection.
TeardownCloseOne_Skip(a, c) ==
    /\ tdState[a] = "close"
    /\ c \in tdLeft[a]
    /\ tdLeft' = [tdLeft EXCEPT ![a] = @ \ {c}]
    /\ UNCHANGED <<registryVars, bookVars, wsVars,
                   reqSession, tdState, tdSession, expired>>

\* Mutation: _teardown waits until the handler of the connection is gone.
TeardownCloseOne_AwaitHandler(a, c) ==
    /\ tdState[a] = "close"
    /\ c \in tdLeft[a]
    /\ wsClosed' = [wsClosed EXCEPT ![c] = TRUE]
    /\ tdLeft' = [tdLeft EXCEPT ![a] = IF wsState[c] = "gone" THEN @ \ {c} ELSE @]
    /\ UNCHANGED <<registryVars, bookVars, wsState, wsSession,
                   reqSession, tdState, tdSession, expired>>

\* conn.close(code=4001): ws.closed is set before the close handshake is
\* awaited; closing a connection that is closed already does nothing.
TeardownCloseOne(a, c) ==
    /\ tdState[a] = "close"
    /\ c \in tdLeft[a]
    /\ wsClosed' = [wsClosed EXCEPT ![c] = TRUE]
    /\ tdLeft' = [tdLeft EXCEPT ![a] = @ \ {c}]
    /\ UNCHANGED <<registryVars, bookVars, wsState, wsSession,
                   reqSession, tdState, tdSession, expired>>

TeardownDone(a) ==
    /\ tdState[a] = "close"
    /\ tdLeft[a] = {}
    /\ tdState' = [tdState EXCEPT ![a] = "idle"]
    /\ UNCHANGED <<registryVars, bookVars, wsVars, reqSession,
                   tdSession, tdLeft, expired>>

\* sweep_once: the list is computed once, its first session is popped and
\* its hooks run in the same step; the others wait for their turn.
SweepStart ==
    /\ tdState[Reaper] = "idle"
    /\ expired = {}
    /\ \E s \in registered :
          /\ IsExpired(s)
          /\ expired' = {t \in registered : IsExpired(t)} \ {s}
          /\ EnterTeardown(Reaper, s)
    /\ UNCHANGED <<idle, wsVars, reqSession>>

\* The next session of the list, whatever happened to it in the meantime.
SweepNext ==
    /\ tdState[Reaper] = "idle"
    /\ \E s \in expired :
          /\ expired' = expired \ {s}
          /\ EnterTeardown(Reaper, s)
    /\ UNCHANGED <<idle, wsVars, reqSession>>

\* rest_logout: middleware and handler run without an await up to the pop.
RestLogout(s) ==
    /\ AuthEnabled
    /\ s \in registered \ {Anon}
    /\ Touch(s)
    /\ EnterTeardown(s, s)
    /\ UNCHANGED <<wsVars, reqSession, expired>>

-----------------------------------------------------------------------------
(***************************************************************************)
(* REST requests that keep the session object across an await.             *)
(***************************************************************************)

\* auth_middleware admits the request; the handler awaits its body.
RestStart(r, s) ==
    /\ reqSession[r] = NoSession
    /\ IF AuthEnabled THEN UseToken(s) ELSE s = Anon /\ UseAnonymous
    /\ reqSession' = [reqSession EXCEPT ![r] = s]
    /\ UNCHANGED <<bookVars, wsVars, tdVars, expired>>

\* What a handler that holds s may leave behind: something s owns, and
\* tasks (handlers/links.py, create_task) or callbacks (rns/resources.py,
\* rns/links.py, rns/packets.py) that still hold s.
Leaves(s) ==
    \E creates, spawns \in BOOLEAN :
        /\ owned' = [owned EXCEPT ![s] = @ \/ creates]
        /\ background' = [background EXCEPT ![s] = @ \/ spawns]

\* The handler goes on with request["session"].
RestFinish(r) ==
    /\ reqSession[r] # NoSession
    /\ Leaves(reqSession[r])
    /\ reqSession' = [reqSession EXCEPT ![r] = NoSession]
    /\ UNCHANGED <<registryVars, wsVars, tdVars, expired>>

\* A task or a callback in the background enters something in the books
\* of its session, registered or not.
BackgroundCreates(s) ==
    /\ background[s]
    /\ owned' = [owned EXCEPT ![s] = TRUE]
    /\ UNCHANGED <<background, registryVars, wsVars, reqSession, tdVars, expired>>

\* The last task is done, and RNS has no callback left to make.
BackgroundEnds(s) ==
    /\ background[s]
    /\ background' = [background EXCEPT ![s] = FALSE]
    /\ UNCHANGED <<owned, registryVars, wsVars, reqSession, tdVars, expired>>

-----------------------------------------------------------------------------
(***************************************************************************)
(* WebSocket connections.                                                  *)
(***************************************************************************)

\* _ws_handler up to its first await: register with the hub; with auth
\* disabled attach to the anonymous session, else wait for the auth frame.
WsConnect(c) ==
    /\ wsState[c] = "unused"
    /\ IF AuthEnabled
       THEN /\ wsState' = [wsState EXCEPT ![c] = "auth"]
            /\ UNCHANGED <<registryVars, wsSession>>
       ELSE /\ UseAnonymous
            /\ wsState' = [wsState EXCEPT ![c] = "open"]
            /\ wsSession' = [wsSession EXCEPT ![c] = Anon]
    /\ UNCHANGED <<bookVars, wsClosed, reqSession, tdVars, expired>>

\* A first frame with a token in the registry: look up, touch and attach
\* without an await.
WsAuthenticate(c, s) ==
    /\ wsState[c] = "auth"
    /\ ~wsClosed[c]
    /\ UseToken(s)
    /\ wsState' = [wsState EXCEPT ![c] = "open"]
    /\ wsSession' = [wsSession EXCEPT ![c] = s]
    /\ UNCHANGED <<bookVars, wsClosed, reqSession, tdVars, expired>>

\* Timeout, unusable first frame or unknown token: _reject sends
\* auth.session.rejected (an await) ...
WsReject(c) ==
    /\ wsState[c] = "auth"
    /\ wsState' = [wsState EXCEPT ![c] = "rejecting"]
    /\ UNCHANGED <<registryVars, bookVars, wsSession, wsClosed, reqSession,
                   tdVars, expired>>

\* ... and closes the socket (an await).
WsRejectClose(c) ==
    /\ wsState[c] = "rejecting"
    /\ wsState' = [wsState EXCEPT ![c] = "rejected"]
    /\ wsClosed' = [wsClosed EXCEPT ![c] = TRUE]
    /\ UNCHANGED <<registryVars, bookVars, wsSession, reqSession, tdVars, expired>>

\* ws.receive() says that the peer closed during the handshake: nothing to
\* detach, unregister.
WsHandshakeLost(c) ==
    /\ wsState[c] = "auth"
    /\ wsClosed[c]
    /\ wsState' = [wsState EXCEPT ![c] = "gone"]
    /\ UNCHANGED <<registryVars, bookVars, wsSession, wsClosed, reqSession,
                   tdVars, expired>>

\* A frame is read: touch the session and enter the handler, which awaits.
WsFrame(c) ==
    /\ wsState[c] = "open"
    /\ ~wsClosed[c]
    /\ Touch(wsSession[c])
    /\ wsState' = [wsState EXCEPT ![c] = "busy"]
    /\ UNCHANGED <<created, registered, age, bookVars, wsSession,
                   wsClosed, reqSession, tdVars, expired>>

\* The handler finishes on conn.session; what it spawned goes on.
WsFrameDone(c) ==
    /\ wsState[c] = "busy"
    /\ Leaves(wsSession[c])
    /\ wsState' = [wsState EXCEPT ![c] = "open"]
    /\ UNCHANGED <<registryVars, wsSession, wsClosed, reqSession, tdVars, expired>>

\* ws_logout on a session that may be revoked: the reply is sent first.
WsLogout(c) ==
    /\ wsState[c] = "open"
    /\ ~wsClosed[c]
    /\ wsSession[c] # Anon
    /\ Touch(wsSession[c])
    /\ wsState' = [wsState EXCEPT ![c] = "logout"]
    /\ UNCHANGED <<created, registered, age, bookVars, wsSession,
                   wsClosed, reqSession, tdVars, expired>>

\* ... then revoke(token): nothing to do when the token is gone already.
WsRevoke(c) ==
    LET s == wsSession[c] IN
    /\ wsState[c] = "logout"
    /\ IF s \in registered
       THEN /\ EnterTeardown(s, s)
            /\ wsState' = [wsState EXCEPT ![c] = "revoking"]
       ELSE /\ wsState' = [wsState EXCEPT ![c] = "open"]
            /\ UNCHANGED <<created, registered, age, bookVars, tdVars>>
    /\ UNCHANGED <<idle, wsSession, wsClosed, reqSession, expired>>

\* The awaited revoke returns and the handler goes back to its frames.
WsRevoked(c) ==
    /\ wsState[c] = "revoking"
    /\ tdState[wsSession[c]] = "idle"
    /\ wsState' = [wsState EXCEPT ![c] = "open"]
    /\ UNCHANGED <<registryVars, bookVars, wsSession, wsClosed,
                   reqSession, tdVars, expired>>

\* The peer closes, or the heartbeat gives it up.
PeerClose(c) ==
    /\ wsState[c] \notin {"unused", "gone"}
    /\ ~wsClosed[c]
    /\ wsClosed' = [wsClosed EXCEPT ![c] = TRUE]
    /\ UNCHANGED <<registryVars, bookVars, wsState, wsSession,
                   reqSession, tdVars, expired>>

\* The frame loop ends: auth.session.disconnected is sent (an await) ...
WsLeave(c) ==
    /\ wsState[c] = "open"
    /\ wsClosed[c]
    /\ wsState' = [wsState EXCEPT ![c] = "leaving"]
    /\ UNCHANGED <<registryVars, bookVars, wsSession, wsClosed,
                   reqSession, tdVars, expired>>

\* Mutation: the finally block forgets conn.detach().
WsGone_StillAttached(c) ==
    /\ wsState[c] \in {"leaving", "rejected"}
    /\ wsState' = [wsState EXCEPT ![c] = "gone"]
    /\ UNCHANGED <<registryVars, bookVars, wsSession, wsClosed, reqSession,
                   tdVars, expired>>

\* ... then, as after a rejection, detach and unregister.
WsGone(c) ==
    /\ wsState[c] \in {"leaving", "rejected"}
    /\ wsState' = [wsState EXCEPT ![c] = "gone"]
    /\ wsSession' = [wsSession EXCEPT ![c] = NoSession]
    /\ UNCHANGED <<registryVars, bookVars, wsClosed, reqSession, tdVars, expired>>

-----------------------------------------------------------------------------
Teardown(a) ==
    \/ TeardownNotified(a)
    \/ \E c \in Conn : TeardownCloseOne(a, c)
    \/ TeardownDone(a)

Sweep == SweepStart \/ SweepNext

\* What the loop does for c without waiting for the peer.
WsProceed(c) ==
    \/ WsRejectClose(c)
    \/ WsHandshakeLost(c)
    \/ WsFrameDone(c)
    \/ WsRevoke(c)
    \/ WsRevoked(c)
    \/ WsLeave(c)
    \/ WsGone(c)

WsPeer(c) ==
    \/ WsConnect(c)
    \/ \E s \in Session : WsAuthenticate(c, s)
    \/ WsFrame(c)
    \/ WsLogout(c)
    \/ PeerClose(c)

Next ==
    \/ Tick
    \/ Sweep
    \/ \E s \in Session : Login(s) \/ RestLogout(s)
    \/ \E s \in Session : BackgroundCreates(s) \/ BackgroundEnds(s)
    \/ \E r \in Request : RestFinish(r) \/ \E s \in Session : RestStart(r, s)
    \/ \E a \in Ender : Teardown(a)
    \/ \E c \in Conn : WsPeer(c) \/ WsProceed(c) \/ WsReject(c)

\* Time passes, the reaper loop never stops, and every await of a teardown
\* or of a WebSocket handler returns: a send to a dead peer is ended by the
\* heartbeat, the close handshake and the auth frame by their timeouts, a
\* frame's handler by the timeouts in it.  Clients give some of those: the
\* code passes any number on, and an infinite one (JSON Infinity) is left
\* out here.  Neither a client nor the background is assumed to do anything.
Fairness ==
    /\ WF_vars(Tick)
    /\ WF_vars(Sweep)
    /\ \A a \in Ender : WF_vars(Teardown(a))
    /\ \A c \in Conn : WF_vars(WsProceed(c)) /\ WF_vars(WsReject(c))

Spec == Init /\ [][Next]_vars

FairSpec == Spec /\ Fairness

-----------------------------------------------------------------------------
(***************************************************************************)
(* Properties.                                                             *)
(***************************************************************************)

\* Session s as its services see it.
Life(s) == INSTANCE SessionLife WITH
    life <- IF s \in registered THEN "live"
            ELSE IF s \in created THEN "ended" ELSE "none",
    heard <- \/ s \notin created \/ s \in registered
             \/ \E c \in AttachedTo(s) : ~wsClosed[c],
    held <- \/ AttachedTo(s) # {} \/ background[s]
            \/ \E r \in Request : reqSession[r] = s,
    booked <- owned[s]

\* Sessions end once and for all: however attaches, frames, requests and
\* what they spawn interleave with revocations and sweeps, an ended session
\* is heard no more than it was, and gets something to own only from the
\* handlers, tasks and callbacks that held it before, or that those left
\* behind (get_by_token, _teardown, _ws_handler).
SessionsWindDown ==
    /\ \A s \in Session : Life(s)!Init
    /\ [][\A s \in Session : [Life(s)!Next]_(Life(s)!vars)]_vars

\* Some teardown of s has run its hooks and has connections to close yet.
BeingTornDown(s) ==
    \E a \in Ender : tdState[a] # "idle" /\ tdSession[a] = s

\* An open connection belongs to a session that is registered, or whose
\* teardown is still under way: no teardown finishes and leaves a client
\* talking to a dead session, however connects, logouts, sweeps and closes
\* interleave with its awaits (auth/session.py, _teardown and its callers).
NoOrphanConnection ==
    \A c \in Conn :
        wsSession[c] # NoSession /\ ~wsClosed[c] =>
            wsSession[c] \in registered \/ BeingTornDown(wsSession[c])

\* The anonymous session, once created, stays registered: neither the
\* reaper nor a logout ever takes it (_is_expired, ws_logout, rest_logout).
AnonymousStays ==
    [][(Anon \in registered => Anon \in registered')]_vars

\* A named session does not outlive session_max_lifetime for ever, however
\* busy its clients keep it and however long other teardowns take
\* (sweep_once, _reap_loop).
LifetimeEnforced ==
    \A s \in Session \ {Anon} : s \in registered ~> s \notin registered

\* When a session has ended, its connections are detached from it in the
\* end (_teardown, then the finally block of _ws_handler).
EndedSessionDrains ==
    \A s \in Session \ {Anon} :
        s \in created \ registered ~> AttachedTo(s) = {}

\* A closed connection is let go: whoever closes it, the peer, the
\* heartbeat, a rejection or a teardown, the one its own logout awaits
\* included, its handler comes to the end of its finally block and the hub
\* forgets it (_ws_handler, ws_logout, _teardown).
ClosedIsLetGo == \A c \in Conn : wsClosed[c] ~> wsState[c] = "gone"

\* The reaper tears down no session but one that is registered and past a
\* limit at that moment: docs/config.md, "Seconds of inactivity before a
\* session is reaped" (sweep_once acts on a list computed several awaits ago).
ReapsOnlyExpired ==
    [][tdState[Reaper] = "idle" /\ tdState'[Reaper] = "notify"
          => /\ tdSession'[Reaper] \in registered
             /\ IsExpired(tdSession'[Reaper])]_vars
=============================================================================
