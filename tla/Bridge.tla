------------------------------- MODULE Bridge -------------------------------
(***************************************************************************)
(* How an event reaches the clients: from an RNS thread through            *)
(* AsyncBridge.run_async to the asyncio loop, or from a handler on the     *)
(* loop, then through the hub to the connections (async_bridge.py,         *)
(* ws/hub.py, ws/connection.py).  One session: every connection that is    *)
(* attached is attached to it.                                             *)
(*                                                                         *)
(* The loop runs what it is handed in order, and ready is the part of its  *)
(* queue that carries events.  A hand-over makes a task, the first step of *)
(* the task is the fan-out, and the tasks gather() makes for it are queued *)
(* together, so one "write" stands for all of them.                        *)
(*                                                                         *)
(* The definitions are parts of actions: Packets and Daemon say when they  *)
(* are taken.  Left out: the list of futures run_async keeps, frames that  *)
(* answer a frame, and errors of a write other than a closed connection.   *)
(***************************************************************************)
EXTENDS Naturals, Sequences

CONSTANTS Conn,      \* WebSocket connections, each opened at most once
          Subject,   \* what events are about
          Public,    \* subjects whose events go to every connection
          Capacity   \* _COROUTINES_MAX

ASSUME BridgeAssumption ==
    /\ Public \subseteq Subject
    /\ Capacity \in Nat

VARIABLES
    loop,       \* the asyncio loop: "running", "ended" or "closed"
    mainLoop,   \* AsyncBridge.main_loop is the loop, not None
    buffer,     \* AsyncBridge._pending_coroutines, by their events
    at,         \* at[x]: where the RNS thread that reports on x is
    ready,      \* the loop's queue
    hub,        \* hub._connections
    attached,   \* connections whose .session is the session
    closed,     \* connections whose ws is closed
    sending,    \* sending[c]: events that hold or wait for c._send_lock
    delivered   \* delivered[c]: events written to c, in order

connVars == <<hub, attached, closed>>
loopVars == <<loop, mainLoop>>
bridgeVars == <<loop, mainLoop, buffer, at, ready, hub, attached, closed,
                sending, delivered>>

\* A handler says that it has sent x; an RNS thread reports on x.
Sent(x) == <<"sent", x>>
Reported(x) == <<"reported", x>>

Event == {"sent", "reported"} \X Subject

ThreadSteps == {"idle", "concluded", "called", "submit", "buffer", "over"}

Handle == [step : {"handover", "task", "write"}, event : Event, to : SUBSET Conn]

BridgeTypeOK ==
    /\ loop \in {"running", "ended", "closed"}
    /\ mainLoop \in BOOLEAN
    /\ buffer \in Seq(Event) /\ Len(buffer) <= Capacity
    /\ at \in [Subject -> ThreadSteps]
    /\ ready \in Seq(Handle)
    /\ hub \subseteq Conn
    /\ attached \subseteq hub
    /\ closed \subseteq Conn
    /\ sending \in [Conn -> Seq(Event)]
    /\ delivered \in [Conn -> Seq(Event)]

\* Before on_startup; run_until_complete is running.
BridgeInit ==
    /\ loop = "running"
    /\ mainLoop = FALSE
    /\ buffer = <<>>
    /\ at = [x \in Subject |-> "idle"]
    /\ ready = <<>>
    /\ hub = {}
    /\ attached = {}
    /\ closed = {}
    /\ sending = [c \in Conn |-> <<>>]
    /\ delivered = [c \in Conn |-> <<>>]

-----------------------------------------------------------------------------
(***************************************************************************)
(* AsyncBridge.                                                            *)
(***************************************************************************)

HandOver(e) == [step |-> "handover", event |-> e, to |-> {}]
Task(e) == [step |-> "task", event |-> e, to |-> {}]
Write(e, conns) == [step |-> "write", event |-> e, to |-> conns]

Goes(x, step) == at' = [at EXCEPT ![x] = step]

\* run_async reads main_loop and asks whether it is running ...
ReadLoop(x) ==
    /\ at[x] = "called"
    /\ Goes(x, IF mainLoop /\ loop = "running" THEN "submit" ELSE "buffer")
    /\ UNCHANGED <<loopVars, buffer, ready, connVars, sending, delivered>>

\* ... and hands the coroutine to it (run_coroutine_threadsafe), which raises
\* if the loop is closed by now ...
Submit(x) ==
    /\ at[x] = "submit"
    /\ Goes(x, "over")
    /\ ready' = IF loop = "closed" THEN ready ELSE Append(ready, HandOver(Reported(x)))
    /\ UNCHANGED <<loopVars, buffer, connVars, sending, delivered>>

\* The newest n members of s.
Newest(s, n) == IF Len(s) <= n THEN s ELSE SubSeq(s, Len(s) - n + 1, Len(s))

\* Mutation: nothing is dropped.
Store_NoLimit(x) ==
    /\ at[x] = "buffer"
    /\ Goes(x, "over")
    /\ buffer' = Append(buffer, Reported(x))
    /\ UNCHANGED <<loopVars, ready, connVars, sending, delivered>>

\* ... or keeps it, and drops the oldest when there are too many.
Store(x) ==
    /\ at[x] = "buffer"
    /\ Goes(x, "over")
    /\ buffer' = Newest(Append(buffer, Reported(x)), Capacity)
    /\ UNCHANGED <<loopVars, ready, connVars, sending, delivered>>

\* set_main_loop: first the assignment ...
SetMainLoop ==
    /\ mainLoop' = TRUE
    /\ UNCHANGED <<loop, buffer, at, ready, connVars, sending, delivered>>

\* ... then what was kept is taken and handed over.
TakeBuffer ==
    /\ buffer' = <<>>
    /\ ready' = ready \o [i \in 1 .. Len(buffer) |-> HandOver(buffer[i])]
    /\ UNCHANGED <<loopVars, at, connVars, sending, delivered>>

ClearMainLoop ==
    /\ mainLoop' = FALSE
    /\ UNCHANGED <<loop, buffer, at, ready, connVars, sending, delivered>>

-----------------------------------------------------------------------------
(***************************************************************************)
(* Hub and connections.                                                    *)
(***************************************************************************)

\* broadcast or send_session: the connections are looked up once.
Targets(e) == IF e[2] \in Public THEN hub ELSE attached

\* A handler awaits broadcast or send_session.
FanOut(e) ==
    /\ ready' = Append(ready, Write(e, Targets(e)))
    /\ UNCHANGED <<loopVars, buffer, at, connVars, sending, delivered>>

\* The fan-out of e is not over, and a handler that awaits it waits.
InFlight(e) ==
    \/ \E i \in 1 .. Len(ready) : ready[i].event = e
    \/ \E c \in Conn : \E i \in 1 .. Len(sending[c]) : sending[c][i] = e

\* Mutation: a connection that is being written to is skipped.
RunHandle_NoWait ==
    LET h == Head(ready) IN
    /\ loop = "running"
    /\ ready # <<>>
    /\ ready' = Tail(ready) \o (CASE h.step = "handover" -> <<Task(h.event)>>
                                  [] h.step = "task" -> <<Write(h.event, Targets(h.event))>>
                                  [] h.step = "write" -> <<>>)
    /\ sending' = [c \in Conn |->
          IF h.step = "write" /\ c \in h.to \ closed /\ sending[c] = <<>>
          THEN <<h.event>> ELSE sending[c]]
    /\ UNCHANGED <<loopVars, buffer, at, connVars, delivered>>

\* The loop runs the first handle: the callback of run_coroutine_threadsafe,
\* the task it made, or the writes of a fan-out, which wait for the locks of
\* the connections that are open.
RunHandle ==
    LET h == Head(ready) IN
    /\ loop = "running"
    /\ ready # <<>>
    /\ \/ /\ h.step = "handover"
          /\ ready' = Append(Tail(ready), Task(h.event))
          /\ UNCHANGED sending
       \/ /\ h.step = "task"
          /\ ready' = Append(Tail(ready), Write(h.event, Targets(h.event)))
          /\ UNCHANGED sending
       \/ /\ h.step = "write"
          /\ ready' = Tail(ready)
          /\ sending' = [c \in Conn |->
                IF c \in h.to \ closed THEN Append(sending[c], h.event)
                ELSE sending[c]]
    /\ UNCHANGED <<loopVars, buffer, at, connVars, delivered>>

\* Mutation: a write to a connection that has closed never returns.
SendDone_NoClosedCheck(c) ==
    /\ loop = "running"
    /\ sending[c] # <<>>
    /\ c \notin closed
    /\ sending' = [sending EXCEPT ![c] = Tail(@)]
    /\ delivered' = [delivered EXCEPT ![c] = Append(@, Head(sending[c]))]
    /\ UNCHANGED <<loopVars, buffer, at, ready, connVars>>

\* Mutation: there is no lock, and the writes of a connection overtake each
\* other.
SendDone_NoLock(c) ==
    /\ loop = "running"
    /\ \E i \in 1 .. Len(sending[c]) :
          /\ sending' = [sending EXCEPT ![c] = SubSeq(@, 1, i - 1) \o SubSeq(@, i + 1, Len(@))]
          /\ delivered' = IF c \in closed THEN delivered
                          ELSE [delivered EXCEPT ![c] = Append(@, sending[c][i])]
    /\ UNCHANGED <<loopVars, buffer, at, ready, connVars>>

\* send_json: the write that holds the lock of c ends, or finds c closed.
SendDone(c) ==
    /\ loop = "running"
    /\ sending[c] # <<>>
    /\ sending' = [sending EXCEPT ![c] = Tail(@)]
    /\ delivered' = IF c \in closed THEN delivered
                    ELSE [delivered EXCEPT ![c] = Append(@, Head(sending[c]))]
    /\ UNCHANGED <<loopVars, buffer, at, ready, connVars>>

\* _ws_handler: register, attach, closed by the peer, the heartbeat or a
\* teardown, and in the end detach and unregister.
Register(c) ==
    /\ c \notin hub \cup closed
    /\ hub' = hub \cup {c}
    /\ UNCHANGED <<loopVars, buffer, at, ready, attached, closed, sending, delivered>>

Attach(c) ==
    /\ c \in hub \ (attached \cup closed)
    /\ attached' = attached \cup {c}
    /\ UNCHANGED <<loopVars, buffer, at, ready, hub, closed, sending, delivered>>

Close(c) ==
    /\ c \in hub \ closed
    /\ closed' = closed \cup {c}
    /\ UNCHANGED <<loopVars, buffer, at, ready, hub, attached, sending, delivered>>

Unregister(c) ==
    /\ c \in hub \cap closed
    /\ hub' = hub \ {c}
    /\ attached' = attached \ {c}
    /\ UNCHANGED <<loopVars, buffer, at, ready, closed, sending, delivered>>
=============================================================================
