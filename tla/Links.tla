------------------------------- MODULE Links -------------------------------
(***************************************************************************)
(* The links of one session: the open pipeline of REST and WebSocket       *)
(* callers, the per-destination cache session.open_links, the callbacks    *)
(* RNS makes from its own threads, close, identify and the cleanup hook    *)
(* (rns/links.py, handlers/links.py).                                      *)
(*                                                                         *)
(* An open call creates at most one cache entry (_LinkEntry) and one       *)
(* RNS.Link, so the call, its entry, its link and its client id share one  *)
(* name.  A step on the asyncio loop is the code between two awaits; the   *)
(* threads of RNS run between any two Python statements, so where a loop   *)
(* step and a callback touch the same data the step is cut in two and      *)
(* LoopFree keeps the other coroutines out of the gap.                     *)
(*                                                                         *)
(* Left out: what makes a request invalid or an RNS constructor raise (that *)
(* they do is a choice), snapshots, inbound packets and remote              *)
(* identification (they change no state of this module), the attached       *)
(* resource callbacks.                                                      *)
(***************************************************************************)
EXTENDS Naturals

CONSTANTS Open,     \* open calls (link.open frames and POST /links requests)
          NoOpen,   \* no entry, no link, no client id
          Dest,     \* destination hashes
          Target    \* Target[o]: the destination hash call o asks for

ASSUME ConstantsAssumption ==
    /\ NoOpen \notin Open
    /\ Target \in [Open -> Dest]

VARIABLES
    sessionState,  \* "live", or "ended" once the cleanup hook has run
    connected,     \* a WebSocket of the session still dispatches frames
    openLinks,     \* session.open_links: the entry cached per destination
    kind,          \* kind[o]: "ws" or "rest"
    auto,          \* auto[o]: auto_identify
    awaits,        \* awaits[o]: await_established (ignored on WebSocket)
    pc,            \* pc[o]: where the coroutine of call o is
    uses,          \* uses[o]: the cached entry a reusing WebSocket call found
    outcome,       \* outcome[o]: how call o ended
    link,          \* link[o]: status of the RNS.Link of o, "none" before
    wired,         \* wired[o]: its callbacks are set
    openClientId,  \* openClientId[o]: entry.open_client_id
    suppress,      \* suppress[o]: entry.suppress_initial_established
    identified,    \* identified[o]: entry.identified
    estDue,        \* estDue[o]: progress of an RNS thread reporting ACTIVE
    taken,         \* taken[o]: the client id that thread has read
    closeDue,      \* closeDue[o]: progress of an RNS thread reporting CLOSED
    echoes,        \* echoes[o]: link.established events that carry id o
    announced      \* announced[o]: link.established was sent for link o

sessionVars == <<sessionState, connected>>
callVars == <<kind, auto, awaits, pc, uses, outcome>>
entryVars == <<openClientId, suppress, identified>>
reportVars == <<estDue, taken, closeDue>>
rnsVars == <<link, wired, estDue, taken, closeDue>>
eventVars == <<echoes, announced>>
vars == <<sessionState, connected, openLinks, kind, auto, awaits, pc, uses,
          outcome, link, wired, openClientId, suppress, identified, estDue,
          taken, closeDue, echoes, announced>>

\* The reasons of link_error_reason; a REST caller gets a status for each.
Failures == {"no_known_identity", "timed_out", "identify_failed",
             "invalid_request", "internal"}

\* The request is not usable: a LinkError of the pre-flight, or an exception
\* nobody expects (a timeout that is no number), which is "internal".
Refusals == {"invalid_request", "internal"}

\* _identify: identify() fails, or no identity can be loaded.
IdentifyFailures == {"identify_failed", "internal"}

Outcomes == {"none", "reused", "pending", "ok"} \cup Failures
Steps == {"idle", "admitted", "reuse", "reuse_identify", "resolving",
          "establishing", "wiring", "waiting", "giving_up", "identifying", "done"}

TypeOK ==
    /\ sessionState \in {"live", "ended"}
    /\ connected \in BOOLEAN
    /\ openLinks \in [Dest -> Open \cup {NoOpen}]
    /\ kind \in [Open -> {"none", "ws", "rest"}]
    /\ auto \in [Open -> BOOLEAN]
    /\ awaits \in [Open -> BOOLEAN]
    /\ pc \in [Open -> Steps]
    /\ uses \in [Open -> Open \cup {NoOpen}]
    /\ outcome \in [Open -> Outcomes]
    /\ \A o \in Open : pc[o] = "done" <=> outcome[o] # "none"
    /\ link \in [Open -> {"none", "PENDING", "ACTIVE", "STALE", "CLOSED"}]
    /\ wired \in [Open -> BOOLEAN]
    /\ openClientId \in [Open -> Open \cup {NoOpen}]
    /\ suppress \in [Open -> BOOLEAN]
    /\ identified \in [Open -> BOOLEAN]
    /\ estDue \in [Open -> {"no", "due", "send"}]
    /\ taken \in [Open -> Open \cup {NoOpen}]
    /\ closeDue \in [Open -> {"no", "due", "evict"}]
    /\ echoes \in [Open -> Nat]
    /\ announced \in [Open -> BOOLEAN]

Init ==
    /\ sessionState = "live"
    /\ connected = TRUE
    /\ openLinks = [d \in Dest |-> NoOpen]
    /\ kind = [o \in Open |-> "none"]
    /\ auto = [o \in Open |-> FALSE]
    /\ awaits = [o \in Open |-> FALSE]
    /\ pc = [o \in Open |-> "idle"]
    /\ uses = [o \in Open |-> NoOpen]
    /\ outcome = [o \in Open |-> "none"]
    /\ link = [o \in Open |-> "none"]
    /\ wired = [o \in Open |-> FALSE]
    /\ openClientId = [o \in Open |-> NoOpen]
    /\ suppress = [o \in Open |-> FALSE]
    /\ identified = [o \in Open |-> FALSE]
    /\ estDue = [o \in Open |-> "no"]
    /\ taken = [o \in Open |-> NoOpen]
    /\ closeDue = [o \in Open |-> "no"]
    /\ echoes = [o \in Open |-> 0]
    /\ announced = [o \in Open |-> FALSE]

-----------------------------------------------------------------------------
(***************************************************************************)
(* Helpers.                                                                *)
(***************************************************************************)

\* Call o is in the middle of a step.  The REST pipeline has no on_phase to
\* await, so it goes on at once from the lookup and from an ACTIVE link.
InStep(o) ==
    \/ pc[o] \in {"wiring", "giving_up"}
    \/ kind[o] = "rest" /\ pc[o] \in {"establishing", "identifying"}

\* No coroutine is in the middle of a step ...
LoopFree == \A o \in Open : ~InStep(o)

\* ... or none but o.
LoopRuns(o) == \A p \in Open \ {o} : ~InStep(p)

LiveStatus == {"PENDING", "ACTIVE", "STALE"}

\* _reuse_active_link finds an entry whose link is ACTIVE.
Reusable(d) ==
    /\ openLinks[d] # NoOpen
    /\ link[openLinks[d]] = "ACTIVE"

\* The open pipeline defers link.established until identify was called.
Defers(o) == auto[o] /\ (kind[o] = "ws" \/ awaits[o])

Goto(o, step) == pc' = [pc EXCEPT ![o] = step]

\* The call ends: the REST reply, or the event of the WebSocket caller.
Finish(o, result) ==
    /\ Goto(o, "done")
    /\ outcome' = [outcome EXCEPT ![o] = result]

\* link.established for link e goes out, with id as its client id.
Announce(e, id) ==
    /\ announced' = [announced EXCEPT ![e] = TRUE]
    /\ echoes' = [o \in Open |-> IF o = id THEN echoes[o] + 1 ELSE echoes[o]]

-----------------------------------------------------------------------------
(***************************************************************************)
(* Opening a link.                                                         *)
(***************************************************************************)

\* ws_open up to the acknowledgement.  A request that is not usable gets an
\* error.  A cached ACTIVE link is reused and takes the id of this call;
\* otherwise a placeholder entry is put into the cache (reserve_link_slot),
\* whatever the cache held for the destination.
WsOpen(o) ==
    LET d == Target[o] IN
    /\ LoopFree
    /\ pc[o] = "idle"
    /\ connected
    /\ kind' = [kind EXCEPT ![o] = "ws"]
    /\ \E a \in BOOLEAN : auto' = [auto EXCEPT ![o] = a]
    /\ \/ /\ Reusable(d)
          /\ openClientId' = [openClientId EXCEPT ![openLinks[d]] = o]
          /\ uses' = [uses EXCEPT ![o] = openLinks[d]]
          /\ Goto(o, "reuse")
          /\ UNCHANGED <<openLinks, outcome>>
       \/ /\ ~Reusable(d)
          /\ openLinks' = [openLinks EXCEPT ![d] = o]
          /\ openClientId' = [openClientId EXCEPT ![o] = o]
          /\ Goto(o, "resolving")
          /\ UNCHANGED <<uses, outcome>>
       \/ /\ \E failure \in Refusals : Finish(o, failure)
          /\ UNCHANGED <<openLinks, openClientId, uses>>
    /\ UNCHANGED <<sessionVars, awaits, rnsVars, suppress, identified, eventVars>>

\* ws_open after the acknowledgement of a reused link.
WsReused(o) ==
    /\ LoopFree
    /\ pc[o] = "reuse"
    /\ IF auto[o] /\ ~identified[uses[o]]
       THEN Goto(o, "reuse_identify") /\ UNCHANGED outcome
       ELSE Finish(o, "reused")
    /\ UNCHANGED <<sessionVars, openLinks, kind, auto, awaits, uses, rnsVars,
                   entryVars, eventVars>>

\* _run_identify after the "identifying" phase event.
WsReuseIdentify(o) ==
    /\ LoopFree
    /\ pc[o] = "reuse_identify"
    /\ \/ /\ identified' = [identified EXCEPT ![uses[o]] = TRUE]
          /\ Finish(o, "reused")
       \/ /\ \E failure \in IdentifyFailures : Finish(o, failure)
          /\ UNCHANGED identified
    /\ UNCHANGED <<sessionVars, openLinks, kind, auto, awaits, uses, rnsVars,
                   openClientId, suppress, eventVars>>

\* POST /links: the middleware admits the request, the body is awaited.
RestAdmit(o) ==
    /\ LoopFree
    /\ pc[o] = "idle"
    /\ sessionState = "live"
    /\ kind' = [kind EXCEPT ![o] = "rest"]
    /\ Goto(o, "admitted")
    /\ UNCHANGED <<sessionVars, openLinks, auto, awaits, uses, outcome,
                   rnsVars, entryVars, eventVars>>

\* The body is here: rest_open_link and open_link up to the path lookup.
\* Reuse clears the id of the entry (client_id is None) and may identify,
\* all without an await; a request that is not usable gets a 400 or 500.
RestOpen(o) ==
    LET d == Target[o]
        e == openLinks[d] IN
    /\ LoopFree
    /\ pc[o] = "admitted"
    /\ \E a, w \in BOOLEAN :
          /\ auto' = [auto EXCEPT ![o] = a]
          /\ awaits' = [awaits EXCEPT ![o] = w]
          /\ \/ /\ ~Reusable(d)
                /\ Goto(o, "resolving")
                /\ UNCHANGED <<openClientId, identified, outcome>>
             \/ /\ Reusable(d)
                /\ openClientId' = [openClientId EXCEPT ![e] = NoOpen]
                /\ \/ /\ identified' = [identified EXCEPT ![e] = @ \/ a]
                      /\ Finish(o, "reused")
                   \/ /\ a /\ ~identified[e]
                      /\ \E failure \in IdentifyFailures : Finish(o, failure)
                      /\ UNCHANGED identified
             \/ /\ \E failure \in Refusals : Finish(o, failure)
                /\ UNCHANGED <<openClientId, identified>>
    /\ UNCHANGED <<sessionVars, openLinks, kind, uses, rnsVars, suppress, eventVars>>

\* Mutation: an exception of RNS.Destination ends the task unanswered.
Resolve_Uncaught(o) ==
    /\ LoopFree
    /\ pc[o] = "resolving"
    /\ \/ Goto(o, "establishing") /\ UNCHANGED outcome
       \/ Finish(o, "no_known_identity")
       \/ Goto(o, "done") /\ UNCHANGED outcome
    /\ UNCHANGED <<sessionVars, openLinks, kind, auto, awaits, uses, rnsVars,
                   entryVars, eventVars>>

\* _resolve_and_construct_destination: the path lookup ends, by a path or by
\* its timeout, and the identity is known or it is not; RNS.Destination may
\* raise.  The placeholder of a failed call stays in the cache.
Resolve(o) ==
    /\ LoopFree
    /\ pc[o] = "resolving"
    /\ \/ Goto(o, "establishing") /\ UNCHANGED outcome
       \/ Finish(o, "no_known_identity")
       \/ Finish(o, "internal")
    /\ UNCHANGED <<sessionVars, openLinks, kind, auto, awaits, uses, rnsVars,
                   entryVars, eventVars>>

\* Mutation: link.established is never deferred.
CreateLink_NoDefer(o) ==
    /\ LoopRuns(o)
    /\ pc[o] = "establishing"
    /\ link' = [link EXCEPT ![o] = "PENDING"]
    /\ openLinks' = [openLinks EXCEPT ![Target[o]] = o]
    /\ Goto(o, "wiring")
    /\ UNCHANGED <<sessionVars, kind, auto, awaits, uses, outcome, wired,
                   reportVars, entryVars, eventVars>>

\* Mutation: the cache is not updated when a closed placeholder comes to life.
CreateLink_NoStore(o) ==
    /\ LoopRuns(o)
    /\ pc[o] = "establishing"
    /\ link' = [link EXCEPT ![o] = "PENDING"]
    /\ suppress' = [suppress EXCEPT ![o] = Defers(o)]
    /\ Goto(o, "wiring")
    /\ UNCHANGED <<sessionVars, openLinks, kind, auto, awaits, uses, outcome,
                   wired, reportVars, openClientId, identified, eventVars>>

\* _create_link_entry: RNS.Link(...) starts the handshake, then the entry
\* is stored, whatever the cache holds by now.
CreateLink(o) ==
    /\ LoopRuns(o)
    /\ pc[o] = "establishing"
    /\ link' = [link EXCEPT ![o] = "PENDING"]
    /\ suppress' = [suppress EXCEPT ![o] = Defers(o)]
    /\ openLinks' = [openLinks EXCEPT ![Target[o]] = o]
    /\ Goto(o, "wiring")
    /\ UNCHANGED <<sessionVars, kind, auto, awaits, uses, outcome, wired,
                   reportVars, openClientId, identified, eventVars>>

\* RNS.Link(...) raises: "internal", and there is no link.
LinkRefused(o) ==
    /\ LoopRuns(o)
    /\ pc[o] = "establishing"
    /\ Finish(o, "internal")
    /\ UNCHANGED <<sessionVars, openLinks, kind, auto, awaits, uses, rnsVars,
                   entryVars, eventVars>>

\* ... then _wire_callbacks, while RNS is already at work on the link.
WireCallbacks(o) ==
    /\ pc[o] = "wiring"
    /\ wired' = [wired EXCEPT ![o] = TRUE]
    /\ IF kind[o] = "rest" /\ ~awaits[o]
       THEN Finish(o, "pending")
       ELSE Goto(o, "waiting") /\ UNCHANGED outcome
    /\ UNCHANGED <<sessionVars, openLinks, kind, auto, awaits, uses, link,
                   reportVars, entryVars, eventVars>>

\* _wait_for_active polls an ACTIVE link.
SeeActive(o) ==
    /\ LoopFree
    /\ pc[o] = "waiting"
    /\ link[o] = "ACTIVE"
    /\ IF auto[o]
       THEN Goto(o, "identifying") /\ UNCHANGED outcome
       ELSE Finish(o, "ok")
    /\ UNCHANGED <<sessionVars, openLinks, kind, auto, awaits, uses, rnsVars,
                   entryVars, eventVars>>

\* Mutation: the wait has no deadline.
GiveUp_NoDeadline(o) ==
    /\ LoopFree
    /\ pc[o] = "waiting"
    /\ link[o] = "CLOSED"
    /\ Goto(o, "giving_up")
    /\ UNCHANGED <<sessionVars, openLinks, kind, auto, awaits, uses, outcome,
                   rnsVars, entryVars, eventVars>>

\* _wait_for_active polls a CLOSED link, or the deadline is over: the status
\* is read ...
GiveUp(o) ==
    /\ LoopFree
    /\ pc[o] = "waiting"
    /\ link[o] # "ACTIVE"
    /\ Goto(o, "giving_up")
    /\ UNCHANGED <<sessionVars, openLinks, kind, auto, awaits, uses, outcome,
                   rnsVars, entryVars, eventVars>>

\* Mutation: the link that timed out is evicted but not torn down.
TimedOut_NoTeardown(o) ==
    /\ pc[o] = "giving_up"
    /\ openLinks' = [openLinks EXCEPT ![Target[o]] = NoOpen]
    /\ Finish(o, "timed_out")
    /\ UNCHANGED <<sessionVars, kind, auto, awaits, uses, rnsVars, entryVars, eventVars>>

\* ... then the link is torn down and whatever entry the cache holds for
\* the destination is popped.
TimedOut(o) ==
    /\ pc[o] = "giving_up"
    /\ link' = [link EXCEPT ![o] = "CLOSED"]
    /\ openLinks' = [openLinks EXCEPT ![Target[o]] = NoOpen]
    /\ Finish(o, "timed_out")
    /\ UNCHANGED <<sessionVars, kind, auto, awaits, uses, wired, reportVars,
                   entryVars, eventVars>>

\* Mutation: the open pipeline does not make up for the deferred event.
Identify_NoEmit(o) ==
    /\ LoopRuns(o)
    /\ pc[o] = "identifying"
    /\ \/ identified' = [identified EXCEPT ![o] = TRUE] /\ Finish(o, "ok")
       \/ /\ \E failure \in IdentifyFailures : Finish(o, failure)
          /\ UNCHANGED identified
    /\ UNCHANGED <<sessionVars, openLinks, kind, auto, awaits, uses, rnsVars,
                   openClientId, suppress, eventVars>>

\* Mutation: the deferral ends with the attempt to identify, failed or not.
Identify_AlwaysResume(o) ==
    /\ LoopRuns(o)
    /\ pc[o] = "identifying"
    /\ suppress' = [suppress EXCEPT ![o] = FALSE]
    /\ \/ /\ identified' = [identified EXCEPT ![o] = TRUE]
          /\ Announce(o, openClientId[o])
          /\ openClientId' = [openClientId EXCEPT ![o] = NoOpen]
          /\ Finish(o, "ok")
       \/ /\ \E failure \in IdentifyFailures : Finish(o, failure)
          /\ UNCHANGED <<openClientId, identified, eventVars>>
    /\ UNCHANGED <<sessionVars, openLinks, kind, auto, awaits, uses, rnsVars>>

\* _identify (on WebSocket after the "identifying" phase event), then
\* _emit_established; there is no await between the two.  link.identify()
\* of a link that is closed by now does nothing and raises nothing.
Identify(o) ==
    /\ LoopRuns(o)
    /\ pc[o] = "identifying"
    /\ \/ /\ identified' = [identified EXCEPT ![o] = TRUE]
          /\ Announce(o, openClientId[o])
          /\ openClientId' = [openClientId EXCEPT ![o] = NoOpen]
          /\ suppress' = [suppress EXCEPT ![o] = FALSE]
          /\ Finish(o, "ok")
       \/ /\ \E failure \in IdentifyFailures : Finish(o, failure)
          /\ UNCHANGED <<entryVars, eventVars>>
    /\ UNCHANGED <<sessionVars, openLinks, kind, auto, awaits, uses, rnsVars>>

-----------------------------------------------------------------------------
(***************************************************************************)
(* Other operations of the session.                                        *)
(***************************************************************************)

\* close: tear the link down (its closed callback evicts the entry), pop the
\* entry; a placeholder is popped only.
Close(d) ==
    LET e == openLinks[d] IN
    /\ LoopFree
    /\ sessionState = "live" \/ connected
    /\ e # NoOpen
    /\ link' = IF link[e] = "none" THEN link ELSE [link EXCEPT ![e] = "CLOSED"]
    /\ openLinks' = [openLinks EXCEPT ![d] = NoOpen]
    /\ UNCHANGED <<sessionVars, callVars, wired, reportVars, entryVars, eventVars>>

\* identify on request of a client.
IdentifyLink(d) ==
    LET e == openLinks[d] IN
    /\ LoopFree
    /\ sessionState = "live" \/ connected
    /\ e # NoOpen
    /\ link[e] # "none"
    /\ identified' = [identified EXCEPT ![e] = TRUE]
    /\ UNCHANGED <<sessionVars, openLinks, callVars, rnsVars, openClientId,
                   suppress, eventVars>>

\* Mutation: the cleanup hook clears the cache but tears nothing down.
EndSession_ClearOnly ==
    /\ LoopFree
    /\ sessionState = "live"
    /\ sessionState' = "ended"
    /\ openLinks' = [d \in Dest |-> NoOpen]
    /\ UNCHANGED <<connected, callVars, rnsVars, entryVars, eventVars>>

\* Mutation: the cleanup hook leaves the entries in the cache.
EndSession_KeepCache ==
    /\ LoopFree
    /\ sessionState = "live"
    /\ sessionState' = "ended"
    /\ link' = [o \in Open |->
                  IF openLinks[Target[o]] = o /\ link[o] # "none"
                  THEN "CLOSED" ELSE link[o]]
    /\ UNCHANGED <<connected, openLinks, callVars, wired, reportVars, entryVars, eventVars>>

\* cleanup_session: every cached entry that has a link is torn down, then
\* the cache is cleared.
EndSession ==
    /\ LoopFree
    /\ sessionState = "live"
    /\ sessionState' = "ended"
    /\ link' = [o \in Open |->
                  IF openLinks[Target[o]] = o /\ link[o] # "none"
                  THEN "CLOSED" ELSE link[o]]
    /\ openLinks' = [d \in Dest |-> NoOpen]
    /\ UNCHANGED <<connected, callVars, wired, reportVars, entryVars, eventVars>>

\* The registry closes the connections after the hooks (module Sessions).
Disconnect ==
    /\ LoopFree
    /\ sessionState = "ended"
    /\ connected
    /\ connected' = FALSE
    /\ UNCHANGED <<sessionState, openLinks, callVars, rnsVars, entryVars, eventVars>>

-----------------------------------------------------------------------------
(***************************************************************************)
(* RNS: the status of a link and the threads that report it.  External, as *)
(* rns/links.py uses it.                                                   *)
(***************************************************************************)

\* The handshake completes; the same thread reports it afterwards.
RnsActive(o) ==
    /\ link[o] = "PENDING"
    /\ link' = [link EXCEPT ![o] = "ACTIVE"]
    /\ estDue' = [estDue EXCEPT ![o] = "due"]
    /\ UNCHANGED <<sessionVars, openLinks, callVars, wired, taken, closeDue,
                   entryVars, eventVars>>

\* The peer goes quiet, and is heard of again; the comment at
\* links.py:731-733 expects the second transition to be reported too.  A link
\* is stale for minutes, so by then the first report is over.
RnsStale(o) ==
    /\ link[o] = "ACTIVE"
    /\ link' = [link EXCEPT ![o] = "STALE"]
    /\ UNCHANGED <<sessionVars, openLinks, callVars, wired, reportVars,
                   entryVars, eventVars>>

RnsRecover(o) ==
    /\ link[o] = "STALE"
    /\ estDue[o] = "no"
    /\ link' = [link EXCEPT ![o] = "ACTIVE"]
    /\ estDue' = [estDue EXCEPT ![o] = "due"]
    /\ UNCHANGED <<sessionVars, openLinks, callVars, wired, taken, closeDue,
                   entryVars, eventVars>>

\* The peer closes, or RNS gives the link up.
RnsClose(o) ==
    /\ link[o] \in LiveStatus
    /\ link' = [link EXCEPT ![o] = "CLOSED"]
    /\ closeDue' = [closeDue EXCEPT ![o] = "due"]
    /\ UNCHANGED <<sessionVars, openLinks, callVars, wired, estDue, taken,
                   entryVars, eventVars>>

\* _on_established on an RNS thread: it returns if link.established is
\* deferred, or reads the client id ...  Without a callback the report is lost.
OnEstablished(o) ==
    /\ estDue[o] = "due"
    /\ IF wired[o] /\ ~suppress[o]
       THEN /\ estDue' = [estDue EXCEPT ![o] = "send"]
            /\ taken' = [taken EXCEPT ![o] = openClientId[o]]
       ELSE /\ estDue' = [estDue EXCEPT ![o] = "no"]
            /\ UNCHANGED taken
    /\ UNCHANGED <<sessionVars, openLinks, callVars, link, wired, closeDue,
                   entryVars, eventVars>>

\* Mutation: the id is echoed but not consumed.
OnEstablishedSend_KeepId(o) ==
    /\ estDue[o] = "send"
    /\ estDue' = [estDue EXCEPT ![o] = "no"]
    /\ taken' = [taken EXCEPT ![o] = NoOpen]
    /\ Announce(o, taken[o])
    /\ UNCHANGED <<sessionVars, openLinks, callVars, link, wired, closeDue, entryVars>>

\* ... consumes whatever id the entry has by now and sends the one read.
OnEstablishedSend(o) ==
    /\ estDue[o] = "send"
    /\ estDue' = [estDue EXCEPT ![o] = "no"]
    /\ taken' = [taken EXCEPT ![o] = NoOpen]
    /\ openClientId' = [openClientId EXCEPT ![o] = NoOpen]
    /\ Announce(o, taken[o])
    /\ UNCHANGED <<sessionVars, openLinks, callVars, link, wired, closeDue,
                   suppress, identified>>

\* _on_closed on an RNS thread: link.closed, then the cache is read ...
OnClosed(o) ==
    /\ closeDue[o] = "due"
    /\ closeDue' = [closeDue EXCEPT ![o] =
                      IF wired[o] /\ openLinks[Target[o]] = o THEN "evict" ELSE "no"]
    /\ UNCHANGED <<sessionVars, openLinks, callVars, link, wired, estDue, taken,
                   entryVars, eventVars>>

\* ... and the destination popped if the entry read was the link's own.
OnClosedEvict(o) ==
    /\ closeDue[o] = "evict"
    /\ closeDue' = [closeDue EXCEPT ![o] = "no"]
    /\ openLinks' = [openLinks EXCEPT ![Target[o]] = NoOpen]
    /\ UNCHANGED <<sessionVars, callVars, link, wired, estDue, taken,
                   entryVars, eventVars>>

-----------------------------------------------------------------------------
\* The coroutine of call o once its request has arrived.
OpenStep(o) ==
    \/ WsReused(o)
    \/ WsReuseIdentify(o)
    \/ Resolve(o)
    \/ CreateLink(o)
    \/ LinkRefused(o)
    \/ WireCallbacks(o)
    \/ SeeActive(o)
    \/ GiveUp(o)
    \/ TimedOut(o)
    \/ Identify(o)

\* What comes from clients, the body of an admitted request included.
Client ==
    \/ \E o \in Open : WsOpen(o) \/ RestAdmit(o) \/ RestOpen(o)
    \/ \E d \in Dest : Close(d) \/ IdentifyLink(d)
    \/ EndSession
    \/ Disconnect

RnsThread(o) ==
    \/ OnEstablished(o)
    \/ OnEstablishedSend(o)
    \/ OnClosed(o)
    \/ OnClosedEvict(o)

Rns(o) == RnsActive(o) \/ RnsStale(o) \/ RnsRecover(o) \/ RnsClose(o)

Next ==
    \/ Client
    \/ \E o \in Open : OpenStep(o) \/ Rns(o) \/ RnsThread(o)

\* The loop runs every coroutine that is ready and every poll has a
\* deadline, which the client gives and the code does not bound (taken to be
\* finite here), so a step of an open call is taken in the end; RNS threads
\* that have begun to report finish.  Nothing makes a handshake complete,
\* and nothing makes the body of an admitted request arrive.
Fairness ==
    \A o \in Open : WF_vars(OpenStep(o)) /\ WF_vars(RnsThread(o))

Spec == Init /\ [][Next]_vars

FairSpec == Spec /\ Fairness

-----------------------------------------------------------------------------
(***************************************************************************)
(* Properties.                                                             *)
(***************************************************************************)

\* The auto_identify ordering guarantee: no link.established goes out for a
\* link opened with auto_identify before identify() was called on it, with
\* the callback thread, reusing calls and reconnects racing the pipeline
\* (suppress_initial_established, _on_established, _emit_established).
IdentifyBeforeEstablished ==
    \A o \in Open : announced[o] /\ Defers(o) => identified[o]

\* A client id is echoed by at most one link.established, though several
\* calls write and two threads consume the ids (entry.open_client_id).
EchoOnce == \A o \in Open : echoes[o] <= 1

\* A call that reports a timeout leaves no half-open link behind, even if
\* the handshake completed while it gave up (_wait_for_active).
TimedOutIsClosed ==
    \A o \in Open : outcome[o] = "timed_out" => link[o] = "CLOSED"

\* No other call for the destination of o has begun.
Undisturbed(o) ==
    \A p \in Open \ {o} : Target[p] = Target[o] => pc[p] = "idle"

\* As long as no other call asks for its destination, a link that is up or
\* coming up is the one its session has cached, through closes, timeouts,
\* evictions by RNS threads and the end of the session (session.open_links).
LiveLinkIsCached ==
    \A o \in Open :
        Undisturbed(o) /\ link[o] \in LiveStatus => openLinks[Target[o]] = o

\* The cleanup hook closes every link whose place in the cache no other call
\* took: links appear later only by calls still in flight (cleanup_session).
CleanupClosesAll ==
    [][sessionState = "live" /\ sessionState' = "ended"
          => \A o \in Open : Undisturbed(o) => link'[o] \notin LiveStatus]_vars

\* The session as this module sees it, with session.open_links as its book.
Life == INSTANCE SessionLife WITH
    life <- sessionState,
    heard <- sessionState = "live" \/ connected,
    held <- \E o \in Open : pc[o] \notin {"idle", "done"},
    booked <- \E d \in Dest : openLinks[d] # NoOpen

\* Cleanup empties session.open_links, and afterwards only open calls that
\* are under way, or come in over a connection not yet closed, put a link
\* into it: no callback of RNS and no deadline does (cleanup_session,
\* _create_link_entry, _wait_for_active).
LinksWindDown == Life!Spec

\* Every open call ends, once its request has arrived: with the peer silent
\* and the session gone (_wait_for_active, _resolve_and_construct_destination).
OpenEnds == \A o \in Open : pc[o] \notin {"idle", "admitted"} ~> pc[o] = "done"

\* A link that comes up, at first or again, is reported to the session, at
\* once or, deferred, after identify() - unless its open call has failed or
\* fails.  Before the callbacks are set a report is lost (_on_established,
\* _emit_established, suppress_initial_established).
EstablishedIsReported ==
    \A o \in Open :
        wired[o] /\ estDue[o] = "due" ~> announced[o] \/ outcome[o] \in Failures

-----------------------------------------------------------------------------
(***************************************************************************)
(* What the documents and comments of the code say and the code does not   *)
(* keep: TLC refutes each of these (README, section 5).                    *)
(***************************************************************************)

\* README.md: links "are cleaned up automatically when the session ends".
EndedSessionHasNoLink ==
    sessionState = "ended" => \A o \in Open : link[o] \notin LiveStatus

\* docs/api-reference.md: "subsequent link.open calls to the same destination
\* reuse the existing Link".
OneLinkPerDestination ==
    \A o, p \in Open :
        /\ Target[o] = Target[p]
        /\ link[o] \in LiveStatus
        /\ link[p] \in LiveStatus
        => o = p

\* rns/links.py, _wait_for_active: "On timeout, tear it down, evict it from
\* the session": the entry a call that gives up evicts is its own.
GivesUpOwnEntry ==
    [][\A o \in Open :
          pc[o] = "giving_up" /\ pc'[o] = "done"
              => openLinks[Target[o]] \in {o, NoOpen}]_vars

\* rns/links.py, _on_closed: "Evict from the session cache (may already be
\* popped by close())", if the entry there "is entry": the entry a closed
\* link evicts is its own.
EvictsOwnEntry ==
    [][\A o \in Open :
          closeDue[o] = "evict" /\ closeDue'[o] = "no"
              => openLinks[Target[o]] \in {o, NoOpen}]_vars

\* docs/api-reference.md, "Terminal event: either `link.established` (the
\* link reached ACTIVE) or `link.open.failed`": a WebSocket caller whose
\* call went well is told so, unless an RNS thread is about to tell it.
OkIsAnnounced ==
    \A o \in Open :
        kind[o] = "ws" /\ outcome[o] = "ok" /\ estDue[o] = "no" => announced[o]

\* How far call o has come, as its caller sees it.
Answer(o) ==
    CASE pc[o] = "idle" -> "idle"
      [] pc[o] = "identifying" -> "confirmed"
      [] pc[o] = "done" -> outcome[o]
      [] OTHER -> "open"

Call(o) == INSTANCE OpenCall WITH
    call <- Answer(o),
    defers <- Defers(o),
    link <- link[o],
    announced <- announced[o]

\* Every open call answers truly, and once: whatever contends with it, "ok"
\* means that its link was up, a timeout that it is closed for good, and a
\* link to be identified is not announced by a call that fails (open_link,
\* continue_open_link_ws, _wait_for_active, _identify, _on_established).
OpensAnswerTruly ==
    /\ \A o \in Open : Call(o)!Init
    /\ [][\A o \in Open : [Call(o)!Next]_(Call(o)!vars)]_vars
=============================================================================
