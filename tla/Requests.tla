------------------------------ MODULE Requests ------------------------------
(***************************************************************************)
(* Requests over a link: LinksService.request (rns/links.py), the future   *)
(* that RNS's callbacks settle from their own threads, and the deadline    *)
(* the service keeps itself because RNS may never call back.               *)
(*                                                                         *)
(* RNS makes at most one of the two callbacks of a request, from a thread  *)
(* of its own, before or after the deadline or never.  A callback hands    *)
(* its event to the loop, then looks at the future, then hands over        *)
(* set_result.  The asyncio loop runs what it is handed in order; ready[r] *)
(* is the part of its queue that concerns request r.                       *)
(*                                                                         *)
(* Left out: payloads, the validation of the arguments, the link itself,   *)
(* and what becomes of an event once the hub has it.                       *)
(***************************************************************************)
EXTENDS Integers, Sequences

CONSTANT Request   \* calls of LinksService.request

VARIABLES
    kind,       \* kind[r]: "ws" (await_response=False, watchdog) or "rest"
    pc,         \* pc[r]: "idle", "wait" for the future, "done"
    reply,      \* reply[r]: what the REST caller or the dispatch was told
    receipt,    \* receipt[r]: what RNS has done with the request
    callback,   \* callback[r]: its thread has yet to look at the future
    ready,      \* ready[r]: what the loop will run for r, in order
    future,     \* future[r]: state of the asyncio future
    responses,  \* responses[r]: link.request.response events given to the hub
    failures    \* failures[r]: link.request.failed events given to the hub

callerVars == <<kind, pc, reply>>
rnsVars == <<receipt, callback>>
eventVars == <<responses, failures>>
vars == <<kind, pc, reply, receipt, callback, ready, future, responses, failures>>

\* What a callback brings.
Answer == {"response", "failed"}

\* run_coroutine_threadsafe puts "task", which makes a task of send_session,
\* whose first step is "send"; call_soon_threadsafe puts "set", which wakes
\* the caller.
Handle == {"task", "send", "set", "wake"}

TypeOK ==
    /\ kind \in [Request -> {"none", "ws", "rest"}]
    /\ pc \in [Request -> {"idle", "wait", "done"}]
    /\ reply \in [Request -> {"none", "error", "timeout"} \cup Answer]
    /\ receipt \in [Request -> {"none", "open"} \cup Answer]
    /\ callback \in [Request -> BOOLEAN]
    /\ ready \in [Request -> Seq(Handle)]
    /\ future \in [Request -> {"pending", "timeout", "cancelled"} \cup Answer]
    /\ responses \in [Request -> 0 .. 1]
    /\ failures \in [Request -> 0 .. 2]

Init ==
    /\ kind = [r \in Request |-> "none"]
    /\ pc = [r \in Request |-> "idle"]
    /\ reply = [r \in Request |-> "none"]
    /\ receipt = [r \in Request |-> "none"]
    /\ callback = [r \in Request |-> FALSE]
    /\ ready = [r \in Request |-> <<>>]
    /\ future = [r \in Request |-> "pending"]
    /\ responses = [r \in Request |-> 0]
    /\ failures = [r \in Request |-> 0]

-----------------------------------------------------------------------------
(***************************************************************************)
(* The caller.                                                             *)
(***************************************************************************)

\* request up to the wait: link.request either registers the callbacks or
\* raises; await_response decides between the two ways to wait.
Send(r) ==
    /\ pc[r] = "idle"
    /\ \E k \in {"ws", "rest"} : kind' = [kind EXCEPT ![r] = k]
    /\ \/ /\ pc' = [pc EXCEPT ![r] = "wait"]
          /\ receipt' = [receipt EXCEPT ![r] = "open"]
          /\ UNCHANGED reply
       \/ /\ pc' = [pc EXCEPT ![r] = "done"]
          /\ reply' = [reply EXCEPT ![r] = "error"]
          /\ UNCHANGED receipt
    /\ UNCHANGED <<callback, ready, future, eventVars>>

\* Mutation: the watchdog reports first and looks at the future afterwards.
WatchdogFires_NoRecheck(r) ==
    /\ pc[r] = "wait"
    /\ kind[r] = "ws"
    /\ pc' = [pc EXCEPT ![r] = "done"]
    /\ future' = [future EXCEPT ![r] = IF @ = "pending" THEN "timeout" ELSE @]
    /\ failures' = [failures EXCEPT ![r] = @ + 1]
    /\ UNCHANGED <<kind, reply, rnsVars, ready, responses>>

\* Mutation: the service relies on RNS to call back.
WatchdogFires_OnlyAfterCallback(r) ==
    /\ pc[r] = "wait"
    /\ kind[r] = "ws"
    /\ receipt[r] # "open"
    /\ pc' = [pc EXCEPT ![r] = "done"]
    /\ IF future[r] = "pending"
       THEN /\ future' = [future EXCEPT ![r] = "timeout"]
            /\ failures' = [failures EXCEPT ![r] = @ + 1]
       ELSE UNCHANGED <<future, failures>>
    /\ UNCHANGED <<kind, reply, rnsVars, ready, responses>>

\* _watchdog when the deadline is over: if the future is done by now it just
\* returns, else it settles the future and reports.
WatchdogFires(r) ==
    /\ pc[r] = "wait"
    /\ kind[r] = "ws"
    /\ pc' = [pc EXCEPT ![r] = "done"]
    /\ IF future[r] = "pending"
       THEN /\ future' = [future EXCEPT ![r] = "timeout"]
            /\ failures' = [failures EXCEPT ![r] = @ + 1]
       ELSE UNCHANGED <<future, failures>>
    /\ UNCHANGED <<kind, reply, rnsVars, ready, responses>>

\* Mutation: the timeout is not caught, the caller reads the cancelled future.
RestTimesOut_Uncaught(r) ==
    /\ pc[r] = "wait"
    /\ kind[r] = "rest"
    /\ future[r] = "pending"
    /\ future' = [future EXCEPT ![r] = "cancelled"]
    /\ ready' = [ready EXCEPT ![r] = Append(@, "wake")]
    /\ UNCHANGED <<callerVars, rnsVars, eventVars>>

\* wait_for of a REST request times out and cancels the future.  With the
\* future settled and the caller not yet awake, the version of Python
\* decides whether the timeout or the result wins.
RestTimesOut(r) ==
    /\ pc[r] = "wait"
    /\ kind[r] = "rest"
    /\ pc' = [pc EXCEPT ![r] = "done"]
    /\ reply' = [reply EXCEPT ![r] = "timeout"]
    /\ future' = [future EXCEPT ![r] = IF @ = "pending" THEN "cancelled" ELSE @]
    /\ UNCHANGED <<kind, rnsVars, ready, eventVars>>

-----------------------------------------------------------------------------
(***************************************************************************)
(* RNS's callback threads.                                                 *)
(***************************************************************************)

\* _on_response or _on_failed up to run_async: RNS makes one of them.
CallBack(r) ==
    /\ receipt[r] = "open"
    /\ \E a \in Answer : receipt' = [receipt EXCEPT ![r] = a]
    /\ callback' = [callback EXCEPT ![r] = TRUE]
    /\ ready' = [ready EXCEPT ![r] = Append(@, "task")]
    /\ UNCHANGED <<callerVars, future, eventVars>>

\* Mutation: set_result is called on the thread.
Settle_OnThread(r) ==
    /\ callback[r]
    /\ callback' = [callback EXCEPT ![r] = FALSE]
    /\ IF future[r] = "pending"
       THEN /\ future' = [future EXCEPT ![r] = receipt[r]]
            /\ ready' = [ready EXCEPT ![r] = Append(@, "wake")]
       ELSE UNCHANGED <<future, ready>>
    /\ UNCHANGED <<callerVars, receipt, eventVars>>

\* ... then "if not _fut.done(): call_soon_threadsafe(set_result)".
Settle(r) ==
    /\ callback[r]
    /\ callback' = [callback EXCEPT ![r] = FALSE]
    /\ ready' = [ready EXCEPT ![r] =
                   IF future[r] = "pending" THEN Append(@, "set") ELSE @]
    /\ UNCHANGED <<callerVars, receipt, future, eventVars>>

-----------------------------------------------------------------------------
(***************************************************************************)
(* The loop runs the first handle of ready[r].                             *)
(***************************************************************************)

\* h is at the head of ready[r], and running it schedules what next holds.
Run(r, h, next) ==
    /\ ready[r] # <<>>
    /\ Head(ready[r]) = h
    /\ ready' = [ready EXCEPT ![r] = Tail(@) \o next]

StartTask(r) ==
    /\ Run(r, "task", <<"send">>)
    /\ UNCHANGED <<callerVars, rnsVars, future, eventVars>>

\* send_session begins: the hub has the event.
SendEvent(r) ==
    /\ Run(r, "send", <<>>)
    /\ IF receipt[r] = "response"
       THEN responses' = [responses EXCEPT ![r] = @ + 1] /\ UNCHANGED failures
       ELSE failures' = [failures EXCEPT ![r] = @ + 1] /\ UNCHANGED responses
    /\ UNCHANGED <<callerVars, rnsVars, future>>

\* set_result; on a future that is done by now it raises, which nobody sees.
SetResult(r) ==
    /\ Run(r, "set", IF future[r] = "pending" THEN <<"wake">> ELSE <<>>)
    /\ future' = [future EXCEPT ![r] = IF @ = "pending" THEN receipt[r] ELSE @]
    /\ UNCHANGED <<callerVars, rnsVars, eventVars>>

\* The caller wakes: a REST request is answered, a watchdog goes away.  One
\* that timed out is gone already.
Wake(r) ==
    /\ Run(r, "wake", <<>>)
    /\ pc' = [pc EXCEPT ![r] = "done"]
    /\ reply' = [reply EXCEPT ![r] =
                   IF pc[r] = "wait" /\ kind[r] = "rest" THEN future[r] ELSE @]
    /\ UNCHANGED <<kind, rnsVars, future, eventVars>>

-----------------------------------------------------------------------------
Deadline(r) == WatchdogFires(r) \/ RestTimesOut(r)

LoopStep(r) == StartTask(r) \/ SendEvent(r) \/ SetResult(r) \/ Wake(r)

Next ==
    \E r \in Request :
        Send(r) \/ CallBack(r) \/ Settle(r) \/ LoopStep(r) \/ Deadline(r)

\* Deadlines pass (a timeout that a client names is taken to be finite), a
\* callback thread that started finishes and the loop runs what it is handed.
\* Nothing makes RNS call back.
Fairness ==
    \A r \in Request :
        WF_vars(Deadline(r)) /\ WF_vars(Settle(r)) /\ WF_vars(LoopStep(r))

Spec == Init /\ [][Next]_vars

FairSpec == Spec /\ Fairness

-----------------------------------------------------------------------------
(***************************************************************************)
(* Properties.                                                             *)
(***************************************************************************)

\* A REST caller never gets an outcome whose event the hub has not been
\* given: the reply comes from a future that another thread settles in a
\* step of its own, after it handed over the event (_on_response, _on_failed).
ReplyFollowsEvent ==
    \A r \in Request :
        /\ reply[r] = "response" => responses[r] > 0
        /\ reply[r] = "failed" => failures[r] > 0

\* The watchdog does not contradict an answer that has settled the future:
\* two failure events, or a failure beside a response, appear only if the
\* deadline had passed before the callback could settle it (_watchdog).
WatchdogYields ==
    \A r \in Request :
        responses[r] + failures[r] > 1 => future[r] = "timeout"

\* A WebSocket request that was sent is answered by an event in the end, even
\* if RNS never calls back: "to keep clients from hanging forever we run our
\* own watchdog" (request).
ClientHears ==
    \A r \in Request :
        kind[r] = "ws" /\ pc[r] = "wait" ~> responses[r] + failures[r] > 0

-----------------------------------------------------------------------------
(***************************************************************************)
(* What a request promises: every request implements Exchange.             *)
(***************************************************************************)

\* The event of the callback is still on its way through the loop.
Reporting(r) == \E i \in 1 .. Len(ready[r]) : ready[r][i] \in {"task", "send"}

Owed(r) == IF Reporting(r) THEN receipt[r] ELSE "none"

Phase(r) ==
    CASE pc[r] = "idle" -> "idle"
      [] pc[r] = "done" -> "closed"
      [] pc[r] = "wait" -> IF future[r] \in Answer THEN "silenced" ELSE "open"

\* The failure the watchdog reports is told apart from the one of RNS.
Expired(r) == IF future[r] = "timeout" THEN 1 ELSE 0

Told(r) ==
    [x \in Answer \cup {"deadline"} |->
        CASE x = "response" -> responses[r]
          [] x = "failed" -> failures[r] - Expired(r)
          [] x = "deadline" -> Expired(r)]

Exchanged(r) == INSTANCE Exchange WITH
    way <- kind[r],
    phase <- Phase(r),
    owed <- Owed(r),
    told <- Told(r),
    reply <- reply[r]

\* Every request is answered truly: each report is made once, the deadline is
\* reported only if no answer has settled the future before, nothing is
\* reported of a request that was not sent, and a REST caller is told once, an
\* outcome only after its event (request, _on_response, _on_failed, _watchdog).
RequestsAnswerTruly ==
    /\ \A r \in Request : Exchanged(r)!Init
    /\ [][\A r \in Request : [Exchanged(r)!Next]_(Exchanged(r)!vars)]_vars
=============================================================================
