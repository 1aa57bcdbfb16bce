----------------------------- MODULE ClientFeed -----------------------------
(***************************************************************************)
(* What the clients may expect of the events they are sent, however RNS    *)
(* threads, handlers, the loop's queue and the locks of the connections    *)
(* interleave (docs/api-reference.md; async_bridge.py, ws/hub.py,          *)
(* ws/connection.py): nobody is told an event twice, an event that must    *)
(* precede another does not come after it, and a connection that has       *)
(* closed is told nothing more.  An event may be missed: by a client that  *)
(* connects late, or one whose connection closes.                          *)
(***************************************************************************)
EXTENDS Naturals, Sequences

CONSTANTS Client, Event,
          Before   \* pairs <<e, f>>: e is not told after f

VARIABLES
    told,   \* told[c]: what client c was told, in order
    gone    \* clients whose connection has closed

vars == <<told, gone>>

Heard(c, e) == \E i \in 1 .. Len(told[c]) : told[c][i] = e

Init ==
    /\ told = [c \in Client |-> <<>>]
    /\ gone = {}

Tell(c, e) ==
    /\ c \notin gone
    /\ ~Heard(c, e)
    /\ \A f \in Event : <<e, f>> \in Before => ~Heard(c, f)
    /\ told' = [told EXCEPT ![c] = Append(@, e)]
    /\ UNCHANGED gone

Leave ==
    /\ gone \subseteq gone'
    /\ UNCHANGED told

Next == Leave \/ \E c \in Client, e \in Event : Tell(c, e)

Spec == Init /\ [][Next]_vars
=============================================================================
