------------------------------ MODULE Exchange ------------------------------
(***************************************************************************)
(* What one request over a link promises the client that makes it,         *)
(* whatever RNS's threads, the deadline and the loop's queue do in the     *)
(* meantime (docs/api-reference.md, link.request; rns/links.py):           *)
(* a request that could not be sent is refused and never heard of again;   *)
(* the answer of RNS is told once, even after the deadline; a REST request *)
(* is replied to once, with an answer only when it was told; a WebSocket   *)
(* request is told of its deadline once, and not once an answer, told or   *)
(* under way, has silenced it.                                             *)
(***************************************************************************)
EXTENDS Naturals

VARIABLES
    way,       \* "none", then how the client waits: "ws" or "rest"
    phase,     \* "idle", "open", "silenced" (the answer counts, the deadline
               \* no longer does), "closed"
    owed,      \* the answer of RNS that is on its way to the client, or "none"
    told,      \* how often the client was told of what
    reply      \* the REST reply, "none" before; or that nothing was sent

vars == <<way, phase, owed, told, reply>>

Answer == {"response", "failed"}

Init ==
    /\ way = "none"
    /\ phase = "idle"
    /\ owed = "none"
    /\ told = [x \in Answer \cup {"deadline"} |-> 0]
    /\ reply = "none"

Begin ==
    /\ phase = "idle"
    /\ way' \in {"ws", "rest"}
    /\ \/ phase' = "open" /\ UNCHANGED reply
       \/ phase' = "closed" /\ reply' = "error"
    /\ UNCHANGED <<owed, told>>

\* RNS answers what was sent, once; maybe long after the deadline.
Owe ==
    /\ phase # "idle"
    /\ reply # "error"
    /\ owed = "none"
    /\ \A a \in Answer : told[a] = 0
    /\ owed' \in Answer
    /\ UNCHANGED <<way, phase, told, reply>>

Tell ==
    /\ owed \in Answer
    /\ told' = [told EXCEPT ![owed] = @ + 1]
    /\ owed' = "none"
    /\ UNCHANGED <<way, phase, reply>>

\* The answer is in time.
Silence ==
    /\ phase = "open"
    /\ \E a \in Answer : owed = a \/ told[a] > 0
    /\ phase' = "silenced"
    /\ UNCHANGED <<way, owed, told, reply>>

\* The deadline of a WebSocket request is over and nothing has silenced it.
Expire ==
    /\ phase = "open"
    /\ way = "ws"
    /\ phase' = "closed"
    /\ told' = [told EXCEPT !["deadline"] = @ + 1]
    /\ UNCHANGED <<way, owed, reply>>

\* The watchdog goes away.
Retire ==
    /\ phase = "silenced"
    /\ way = "ws"
    /\ phase' = "closed"
    /\ UNCHANGED <<way, owed, told, reply>>

Reply ==
    /\ way = "rest"
    /\ \/ phase = "silenced" /\ \E a \in Answer : told[a] > 0 /\ reply' = a
       \/ phase \in {"open", "silenced"} /\ reply' = "timeout"
    /\ phase' = "closed"
    /\ UNCHANGED <<way, owed, told>>

Next == Begin \/ Owe \/ Tell \/ Silence \/ Expire \/ Retire \/ Reply

Spec == Init /\ [][Next]_vars
=============================================================================
