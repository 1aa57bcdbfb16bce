------------------------------ MODULE OpenCall ------------------------------
(***************************************************************************)
(* What one open of a link promises its caller, whatever other calls, RNS  *)
(* threads and the end of the session do to the cache and to the link      *)
(* meanwhile (docs/api-reference.md, link.open; rns/links.py):             *)
(* the call ends once; it dials at most one link, while it is under way,   *)
(* and a link that is closed stays closed; a call that reports "ok" has    *)
(* seen its link up, one that reports a timeout has closed it, one that    *)
(* reuses a link, finds no identity or is refused has none; and            *)
(* link.established of a link to be identified goes out only as the call   *)
(* succeeds or afterwards, so never for a call that fails.                 *)
(***************************************************************************)
VARIABLES
    call,      \* "idle", "open", "confirmed" (the link was seen up, and is
               \* identified now), or how the call ended
    defers,    \* link.established waits for identify
    link,      \* the status of the link the call dialled, "none" before
    announced  \* link.established was sent for that link

vars == <<call, defers, link, announced>>

Init ==
    /\ call = "idle"
    /\ defers = FALSE
    /\ link = "none"
    /\ announced = FALSE

Begin ==
    /\ call = "idle"
    /\ call' = "open"
    /\ UNCHANGED <<link, announced>>

\* The request is not usable.
Refuse ==
    /\ call = "idle"
    /\ call' \in {"invalid_request", "internal"}
    /\ UNCHANGED <<link, announced>>

Dial ==
    /\ call = "open"
    /\ link = "none"
    /\ link' = "PENDING"
    /\ UNCHANGED <<call, announced>>

\* The handshake, the peer, or anybody who closes the link.
LinkChanges ==
    /\ \/ link \in {"PENDING", "STALE"} /\ link' = "ACTIVE"
       \/ link = "ACTIVE" /\ link' = "STALE"
       \/ link # "none" /\ link' = "CLOSED"
    /\ UNCHANGED <<call, announced>>

Confirm ==
    /\ call = "open"
    /\ link = "ACTIVE"
    /\ defers
    /\ call' = "confirmed"
    /\ UNCHANGED <<link, announced>>

\* The call ends without a link of its own ...
EndWithout ==
    /\ call = "open"
    /\ link = "none"
    /\ call' \in {"reused", "no_known_identity", "identify_failed",
                 "invalid_request", "internal"}
    /\ UNCHANGED <<link, announced>>

\* ... with one that may come up later, or has ...
EndWith ==
    /\ call = "open"
    /\ link # "none"
    /\ ~defers
    /\ call' = "pending" \/ (link = "ACTIVE" /\ call' = "ok")
    /\ UNCHANGED <<link, announced>>

\* ... with one that did not come up in time ...
GiveUp ==
    /\ call = "open"
    /\ link # "none"
    /\ call' = "timed_out"
    /\ link' = "CLOSED"
    /\ UNCHANGED announced

\* ... or with one that is identified now, or could not be.
EndConfirmed ==
    /\ call = "confirmed"
    /\ \/ call' = "ok" /\ announced' = TRUE
       \/ call' \in {"identify_failed", "internal"} /\ UNCHANGED announced
    /\ UNCHANGED link

\* A thread of RNS reports that the link is up, at first or again.
Announce ==
    /\ link # "none"
    /\ defers => call = "ok"
    /\ announced' = TRUE
    /\ UNCHANGED <<call, link>>

\* What the caller asked for may become known until the link is dialled.
Ask == link = "none" /\ UNCHANGED <<call, link, announced>>

Next ==
    /\ \/ Begin \/ Refuse \/ Dial \/ LinkChanges \/ Confirm
       \/ EndWithout \/ EndWith \/ GiveUp \/ EndConfirmed
       \/ Announce \/ Ask
    /\ link # "none" => UNCHANGED defers

Spec == Init /\ [][Next]_vars
=============================================================================
