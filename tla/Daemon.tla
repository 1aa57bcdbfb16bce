------------------------------- MODULE Daemon -------------------------------
(***************************************************************************)
(* The daemon from the start of the asyncio loop to its end (server.py,    *)
(* cli.py, rns/service.py), with the clients of one session that send      *)
(* packets (module Packets), announce destinations and request paths       *)
(* (rns/announces.py, rns/paths.py and their handlers), and with the       *)
(* announcements RNS reports.  Events travel as in module Bridge.          *)
(*                                                                         *)
(* cli.py starts RNS before the loop and stops it after the loop has       *)
(* ended.  The reaper, the start of the resource service and the sites     *)
(* touch no state of this module; aiohttp's shutdown of its handlers is    *)
(* external and taken as one step.                                         *)
(***************************************************************************)
EXTENDS Packets, FiniteSets

CONSTANTS Announcement,  \* announcements, sent by a client or received
          PathRequest,   \* path requests of clients
          MaxCalls       \* bound on the calls clients make

ASSUME DaemonAssumption ==
    /\ Announcement = Public
    /\ PathRequest \cap (Public \cup Packet) = {}
    /\ Subject = Packet \cup Announcement \cup PathRequest
    /\ MaxCalls \in Nat

VARIABLE stage   \* how far _on_startup, the shutdown and main have come

vars == <<loop, mainLoop, buffer, at, ready, hub, attached, closed, sending,
          delivered, sessionState, pc, receipt, callbacks, pending, stage>>

Stages == {"starting", "set", "taken", "serving", "stopping", "deaf",
           "cleared", "ended", "exited", "closed"}

TypeOK == BridgeTypeOK /\ PacketsTypeOK /\ stage \in Stages

Init == BridgeInit /\ PacketsInit /\ stage = "starting"

-----------------------------------------------------------------------------
(***************************************************************************)
(* Start and shutdown.                                                     *)
(***************************************************************************)

\* _on_startup is one step of the loop, but RNS threads run in between.
AssignLoop ==
    /\ stage = "starting"
    /\ SetMainLoop
    /\ stage' = "set"
    /\ UNCHANGED <<callVars, packetVars>>

TakePending ==
    /\ stage = "set"
    /\ TakeBuffer
    /\ stage' = "taken"
    /\ UNCHANGED <<callVars, packetVars>>

\* announces.start(); then the sites are opened.
StartAnnounces ==
    /\ stage = "taken"
    /\ stage' = "serving"
    /\ UNCHANGED <<bridgeVars, callVars, packetVars>>

\* A signal: the sites stop, the handlers are cancelled and the connections
\* closed.
StopServing ==
    /\ LoopFree
    /\ stage = "serving"
    /\ stage' = "stopping"
    /\ closed' = closed \cup hub
    /\ pc' = [x \in Subject |-> IF pc[x] = "idle" THEN "idle" ELSE "done"]
    /\ UNCHANGED <<loopVars, buffer, at, ready, hub, attached, sending, delivered,
                   sessionState, packetVars>>

\* _on_cleanup: announces.stop() ...
StopAnnounces ==
    /\ LoopFree
    /\ stage = "stopping"
    /\ stage' = "deaf"
    /\ UNCHANGED <<bridgeVars, callVars, packetVars>>

\* ... then clear_main_loop(); no session is torn down.
ClearLoop ==
    /\ stage = "deaf"
    /\ ClearMainLoop
    /\ stage' = "cleared"
    /\ UNCHANGED <<callVars, packetVars>>

\* run_until_complete returns; rns_service.stop(); loop.close().
EndLoop ==
    /\ LoopFree
    /\ stage = "cleared"
    /\ stage' = "ended"
    /\ loop' = "ended"
    /\ UNCHANGED <<mainLoop, buffer, at, ready, connVars, sending, delivered,
                   callVars, packetVars>>

StopRns ==
    /\ stage = "ended"
    /\ stage' = "exited"
    /\ UNCHANGED <<bridgeVars, callVars, packetVars>>

CloseLoop ==
    /\ stage = "exited"
    /\ stage' = "closed"
    /\ loop' = "closed"
    /\ UNCHANGED <<mainLoop, buffer, at, ready, connVars, sending, delivered,
                   callVars, packetVars>>

\* RNS is up; its announce handler is registered.
RnsUp == stage \notin {"exited", "closed"}

\* Mutation: announces.start() comes before set_main_loop().
Listening_Early ==
    stage \in {"starting", "set", "taken", "serving", "stopping"}

Listening == stage \in {"serving", "stopping"}

\* No step of the start or of the shutdown is under way.
Idle == stage \notin {"starting", "set", "taken", "deaf"}

-----------------------------------------------------------------------------
(***************************************************************************)
(* Announcements and path requests.                                        *)
(***************************************************************************)

\* AnnounceService.send: refused, or announced and announce.sent awaited.
Announce(a) ==
    /\ Requested(a)
    /\ \/ Goto(a, "done") /\ UNCHANGED bridgeVars
       \/ Goto(a, "emitting") /\ FanOut(Sent(a))
    /\ UNCHANGED <<sessionState, packetVars>>

\* PathsService.request_path: an error of the request, or path.request.sent
\* is awaited ...
RequestPath(q) ==
    /\ Requested(q)
    /\ \/ Goto(q, "done") /\ UNCHANGED bridgeVars
       \/ Goto(q, "emitting") /\ FanOut(Sent(q))
    /\ UNCHANGED <<sessionState, packetVars>>

\* ... then RNS is asked, and may refuse ...
AskRns(q) ==
    /\ LoopFree
    /\ pc[q] = "emitting"
    /\ ~InFlight(Sent(q))
    /\ Goto(q, "polling") \/ Goto(q, "done")
    /\ UNCHANGED <<bridgeVars, sessionState, packetVars>>

\* ... and the path is found, or the deadline is over.
PathAnswer(q) ==
    /\ LoopFree
    /\ pc[q] = "polling"
    /\ Goto(q, "done")
    /\ UNCHANGED <<bridgeVars, sessionState, packetVars>>

\* RNS calls received_announce on a thread of its own.  External.
RnsAnnounce(a) ==
    /\ at[a] = "idle"
    /\ Goes(a, "called")
    /\ UNCHANGED <<loopVars, buffer, ready, connVars, sending, delivered,
                   callVars, packetVars>>

\* received_announce: run_async.
AnnounceThread(a) ==
    /\ ReadLoop(a) \/ Submit(a) \/ Store(a)
    /\ UNCHANGED <<callVars, packetVars>>

-----------------------------------------------------------------------------
Lifecycle ==
    \/ AssignLoop \/ TakePending \/ StartAnnounces
    \/ StopServing \/ StopAnnounces \/ ClearLoop
    \/ EndLoop \/ StopRns \/ CloseLoop

\* A step of the call about x after its first.
Proceed(x) ==
    \/ x \in Packet /\ (Transmit(x) \/ Wire(x) \/ Emit(x))
    \/ x \in Packet \cup Announcement /\ Reply(x)
    \/ x \in PathRequest /\ (AskRns(x) \/ PathAnswer(x))

Begin(x) ==
    \/ x \in Packet /\ Send(x)
    \/ x \in Announcement /\ Announce(x)
    \/ x \in PathRequest /\ RequestPath(x)

\* Clients may make one more call, x, or x has been admitted.
MayCall(x) ==
    \/ pc[x] # "idle"
    \/ Cardinality({y \in Subject : pc[y] # "idle"}) < MaxCalls

Client ==
    \/ \E x \in Subject : MayCall(x) /\ (RestAdmit(x) \/ Begin(x))
    \/ \E c \in Conn : Connect(c)
    \/ EndSession

RnsThread(x) ==
    \/ x \in Packet /\ ReceiptThread(x)
    \/ x \in Announcement /\ AnnounceThread(x)

Rns ==
    \/ RnsUp /\ \E p \in Packet : RnsConclude(p)
    \/ Listening /\ \E a \in Announcement : RnsAnnounce(a)

Next ==
    \/ Lifecycle
    \/ /\ \/ stage = "serving" /\ Client
          \/ Idle /\ (LoopTurn \/ \E x \in Subject : Proceed(x))
          \/ \E x \in Subject : RnsThread(x)
          \/ Rns
       /\ UNCHANGED stage

\* The loop runs what is ready, a send ends by itself or by the heartbeat, a
\* path is not polled for ever, RNS threads go on, and RNS ends every receipt
\* by a proof or a timeout while it is up.  No client, no body of a request
\* and no signal must come; the timeouts that clients name are finite.
Fairness ==
    /\ WF_vars(Idle /\ LoopTurn /\ UNCHANGED stage)
    /\ \A c \in Conn :
          WF_vars(Idle /\ LoopFree /\ SendDone(c) /\ UNCHANGED <<callVars, packetVars, stage>>)
    /\ \A x \in Subject :
          /\ WF_vars(Idle /\ Proceed(x) /\ UNCHANGED stage)
          /\ WF_vars(RnsThread(x) /\ UNCHANGED stage)
    /\ \A p \in Packet : WF_vars(RnsUp /\ RnsConclude(p) /\ UNCHANGED stage)

Spec == Init /\ [][Next]_vars

FairSpec == Spec /\ Fairness

-----------------------------------------------------------------------------
(***************************************************************************)
(* Properties.                                                             *)
(***************************************************************************)

\* A receipt that can still call back is in the session's book, where the
\* cleanup hook finds it - also for a send that was under way when the
\* session ended (pending_receipts, cleanup_session).
OpenReceiptIsBooked ==
    \A p \in Packet : callbacks[p] /\ receipt[p] = "SENT" => p \in pending

\* While there is a loop to run it, no event is kept back: nothing would take
\* it out again (set_main_loop, run_async, on_startup).
NothingStranded == mainLoop => buffer = <<>>

\* What an RNS thread reports reaches every client it is for, unless the
\* client goes away or the daemon is shut down first, which closes the
\* connection (run_async, hub, send_json).
ReportsArrive ==
    \A c \in Conn, x \in Subject :
        at[x] = "called" /\ c \in Targets(Reported(x)) \ closed
            ~> c \in closed \/ \E i \in 1 .. Len(delivered[c]) :
                                  delivered[c][i] = Reported(x)

\* Every call whose request has come in ends, be the connection dead or
\* alive, the session ended or not; no deadline bounds the wait for the body
\* of a REST request (send, request_path, the hub's sends).
CallsEnd == \A x \in Subject : pc[x] \notin {"idle", "admitted"} ~> pc[x] = "done"

\* A receipt whose callbacks were set in time leaves the session's book, by
\* its callback or by the hook; one that RNS concludes before stays there as
\* long as the session lives (pending_receipts).
BookIsCleared ==
    \A p \in Packet :
        callbacks[p] /\ receipt[p] = "SENT" ~> p \notin pending \/ loop # "running"

\* The session as this module sees it, with pending_receipts as its book.
Life == INSTANCE SessionLife WITH
    life <- sessionState,
    heard <- sessionState = "live" \/ attached \ closed # {},
    held <- \E x \in Subject : pc[x] \notin {"idle", "done"},
    booked <- pending # {}

\* The hook empties the book, and afterwards only a send that was under way,
\* or comes in over a connection not yet closed, adds to it: no callback and
\* no late proof does (cleanup_session, send).
PacketsWindDown == Life!Spec

\* What the connections are told, with the order that is documented.
Feed == INSTANCE ClientFeed WITH
    Client <- Conn,
    Before <- {<<Sent(p), Reported(p)>> : p \in Packet},
    told <- delivered,
    gone <- closed

\* However threads and loop interleave, and though RNS may prove a packet
\* before packet.sent is handed to the hub, no client is told an event twice
\* or the end of a packet before packet.sent, and none is told anything once
\* its connection has closed (run_async, send, _fanout, send_json).
ClientsAreToldInOrder == Feed!Spec

\* docs/api-reference.md: sending "fires packet.sent and later
\* packet.receipt.delivered or packet.receipt.failed".  Written out, this is
\* what ClientsAreToldInOrder says of the two events of a packet.
ReceiptAfterSent ==
    \A c \in Conn, p \in Packet :
        \A i, j \in 1 .. Len(delivered[c]) :
            delivered[c][i] = Sent(p) /\ delivered[c][j] = Reported(p) => i < j
=============================================================================
