---------------------------- MODULE SessionLife ----------------------------
(***************************************************************************)
(* What the services may expect of a session, and what its registry may    *)
(* expect of them: README.md, "Long-lived resources (destinations, links,  *)
(* packet listeners) belong to the session that created them and are       *)
(* cleaned up automatically when the session ends", and what the code makes *)
(* of it (auth/session.py, _teardown; server.py, _ws_handler).             *)
(*                                                                         *)
(* A session is created once and ends once, and the cleanup hooks empty    *)
(* the books of the services as it ends.  From then on it only winds down: *)
(* no client is heard for it that was not before, and the books can grow   *)
(* again only by handlers and callbacks that still hold the session        *)
(* object.  Sessions implements this for every session it registers; the   *)
(* services implement it with a book of theirs: Links with open_links,     *)
(* Transfers with active_transfers, Endpoints with owned_destinations and  *)
(* packet_listeners, Daemon with pending_receipts.                         *)
(***************************************************************************)
VARIABLES
    life,   \* "none", "live" while the registry knows it, "ended"
    heard,  \* a request or a frame of its clients may begin
    held,   \* a handler or callback under way holds the session object
    booked  \* a service holds something for it

vars == <<life, heard, held, booked>>

Init ==
    /\ life \in {"none", "live"}
    /\ ~booked

\* Nothing was booked before, nothing comes with the session.
Create ==
    /\ life = "none"
    /\ life' = "live"
    /\ ~booked'

\* Clients come and go, the books grow and shrink.
Serve ==
    /\ life = "live"
    /\ life' = "live"

\* The registry drops the session and runs the cleanup hooks.
End ==
    /\ life = "live"
    /\ life' = "ended"
    /\ heard' => heard
    /\ held' => held
    /\ ~booked'

\* What was under way goes on and comes to its end.
WindDown ==
    /\ life = "ended"
    /\ life' = "ended"
    /\ heard' => heard
    /\ held' => held \/ heard
    /\ booked' => booked \/ held \/ heard

Next == Create \/ Serve \/ End \/ WindDown

Spec == Init /\ [][Next]_vars
=============================================================================
