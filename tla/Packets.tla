------------------------------ MODULE Packets ------------------------------
(***************************************************************************)
(* Sending packets for one session: the handlers, PacketsService.send, the *)
(* receipts RNS concludes from its own threads, and the cleanup hook       *)
(* (rns/packets.py, handlers/packets.py).  Listening is in Endpoints.      *)
(*                                                                         *)
(* A handler is the code between two awaits, but RNS may prove a packet    *)
(* from the moment it is sent: the step that sends it is cut where a       *)
(* callback could run, and LoopFree keeps the other coroutines out of the  *)
(* gaps.  The thread that concludes the receipt of p is named p.           *)
(*                                                                         *)
(* Left out: the validation of the request, which connection a frame came  *)
(* from, set_timeout, the texts of errors.  A packet that was sent has a   *)
(* hash.                                                                   *)
(***************************************************************************)
EXTENDS Bridge

CONSTANT Packet   \* packets clients ask to send

ASSUME PacketsAssumption == Packet \subseteq Subject \ Public

VARIABLES
    sessionState,  \* "live", or "ended" once the cleanup hooks have run
    pc,            \* pc[x]: where the call of a client that is about x is
    receipt,       \* receipt[p]: status of the PacketReceipt of p
    callbacks,     \* callbacks[p]: its callbacks are set
    pending        \* keys of session.pending_receipts

packetVars == <<receipt, callbacks, pending>>
callVars == <<sessionState, pc>>

CallSteps == {"idle", "admitted", "lookup", "transmitted", "wired", "emitting",
              "polling", "done"}

PacketsTypeOK ==
    /\ sessionState \in {"live", "ended"}
    /\ pc \in [Subject -> CallSteps]
    /\ receipt \in [Packet -> {"none", "absent", "refused", "SENT", "DELIVERED",
                             "FAILED"}]
    /\ callbacks \in [Packet -> BOOLEAN]
    /\ pending \subseteq Packet

PacketsInit ==
    /\ sessionState = "live"
    /\ pc = [x \in Subject |-> "idle"]
    /\ receipt = [p \in Packet |-> "none"]
    /\ callbacks = [p \in Packet |-> FALSE]
    /\ pending = {}

-----------------------------------------------------------------------------
(***************************************************************************)
(* Handlers.                                                               *)
(***************************************************************************)

LoopFree ==
    loop = "running" /\ \A p \in Packet : pc[p] \notin {"transmitted", "wired"}

Goto(x, step) == pc' = [pc EXCEPT ![x] = step]

\* auth_middleware admits a REST request, whose body is awaited.
RestAdmit(x) ==
    /\ LoopFree
    /\ pc[x] = "idle"
    /\ sessionState = "live"
    /\ Goto(x, "admitted")
    /\ UNCHANGED <<bridgeVars, sessionState, packetVars>>

\* The body is here, or a frame comes in over a connection that is open.
Requested(x) ==
    /\ LoopFree
    /\ pc[x] = "admitted" \/ (pc[x] = "idle" /\ attached \ closed # {})

\* send up to the path lookup, or an error of the request.
Send(p) ==
    /\ Requested(p)
    /\ Goto(p, "lookup") \/ Goto(p, "done")
    /\ UNCHANGED <<bridgeVars, sessionState, packetVars>>

\* The path is known, or it was waited for long enough.  The identity may be
\* unknown and RNS may refuse; else Packet.send has returned a receipt, None
\* or, when no interface took the packet, False, and the session's book says
\* so ...
Transmit(p) ==
    /\ LoopFree
    /\ pc[p] = "lookup"
    /\ \/ /\ Goto(p, "done")
          /\ UNCHANGED <<receipt, pending>>
       \/ /\ \E status \in {"absent", "refused", "SENT"} :
                receipt' = [receipt EXCEPT ![p] = status]
          /\ pending' = pending \cup {p}
          /\ Goto(p, "transmitted")
    /\ UNCHANGED <<bridgeVars, sessionState, callbacks>>

\* ... then the callbacks are set, which raises for False: the request fails
\* without a packet.sent ...
Wire(p) ==
    /\ pc[p] = "transmitted"
    /\ callbacks' = [callbacks EXCEPT ![p] = receipt[p] \notin {"absent", "refused"}]
    /\ Goto(p, IF receipt[p] = "refused" THEN "done" ELSE "wired")
    /\ UNCHANGED <<bridgeVars, sessionState, receipt, pending>>

\* Mutation: packet.sent goes through run_async as the callbacks do.
Emit_ThroughBridge(p) ==
    /\ pc[p] = "wired"
    /\ ready' = Append(ready, HandOver(Sent(p)))
    /\ Goto(p, "emitting")
    /\ UNCHANGED <<loopVars, buffer, at, connVars, sending, delivered,
                   sessionState, packetVars>>

\* ... and packet.sent is awaited.
Emit(p) ==
    /\ pc[p] = "wired"
    /\ FanOut(Sent(p))
    /\ Goto(p, "emitting")
    /\ UNCHANGED <<sessionState, packetVars>>

\* The fan-out is over: the reply.
Reply(p) ==
    /\ LoopFree
    /\ pc[p] = "emitting"
    /\ ~InFlight(Sent(p))
    /\ Goto(p, "done")
    /\ UNCHANGED <<bridgeVars, sessionState, packetVars>>

\* Mutation: the hook empties the book, the callbacks stay set.
EndSession_KeepCallbacks ==
    /\ LoopFree
    /\ sessionState = "live"
    /\ sessionState' = "ended"
    /\ pending' = {}
    /\ UNCHANGED <<bridgeVars, pc, receipt, callbacks>>

\* Mutation: the hook drops the callbacks, the book stays as it is.
EndSession_KeepBook ==
    /\ LoopFree
    /\ sessionState = "live"
    /\ sessionState' = "ended"
    /\ callbacks' = [p \in Packet |-> callbacks[p] /\ p \notin pending]
    /\ UNCHANGED <<bridgeVars, pc, receipt, pending>>

\* cleanup_session: the callbacks of the receipts in the book are dropped.
EndSession ==
    /\ LoopFree
    /\ sessionState = "live"
    /\ sessionState' = "ended"
    /\ callbacks' = [p \in Packet |-> callbacks[p] /\ p \notin pending]
    /\ pending' = {}
    /\ UNCHANGED <<bridgeVars, pc, receipt>>

-----------------------------------------------------------------------------
(***************************************************************************)
(* RNS threads.  The first action is external, as rns/packets.py uses it.  *)
(***************************************************************************)

\* RNS proves the packet, or its time is over; the thread will look for the
\* callback next.
RnsConclude(p) ==
    /\ receipt[p] = "SENT"
    /\ \E status \in {"DELIVERED", "FAILED"} :
          receipt' = [receipt EXCEPT ![p] = status]
    /\ Goes(p, "concluded")
    /\ UNCHANGED <<loopVars, buffer, ready, connVars, sending, delivered,
                   callVars, callbacks, pending>>

\* _on_delivered or _on_timeout is called if it is set.
EnterCallback(p) ==
    /\ at[p] = "concluded"
    /\ Goes(p, IF callbacks[p] THEN "called" ELSE "over")
    /\ UNCHANGED <<loopVars, buffer, ready, connVars, sending, delivered,
                   callVars, packetVars>>

\* Mutation: the callbacks leave the book alone.
LeaveCallback_KeepEntry(p) ==
    /\ Submit(p) \/ Store(p)
    /\ UNCHANGED <<callVars, packetVars>>

\* run_async, then the entry is popped, unless run_async raised.
LeaveCallback(p) ==
    /\ Submit(p) \/ Store(p)
    /\ pending' = IF at[p] = "submit" /\ loop = "closed" THEN pending ELSE pending \ {p}
    /\ UNCHANGED <<callVars, receipt, callbacks>>

-----------------------------------------------------------------------------
ReceiptThread(p) ==
    \/ EnterCallback(p)
    \/ ReadLoop(p) /\ UNCHANGED <<callVars, packetVars>>
    \/ LeaveCallback(p)

\* What the loop does for the connections.
LoopTurn ==
    /\ LoopFree
    /\ RunHandle \/ \E c \in Conn : SendDone(c) \/ Unregister(c)
    /\ UNCHANGED <<callVars, packetVars>>

\* A client connects and is attached while the session is registered.
Connect(c) ==
    /\ LoopFree
    /\ Register(c) \/ (sessionState = "live" /\ Attach(c)) \/ Close(c)
    /\ UNCHANGED <<callVars, packetVars>>
=============================================================================
