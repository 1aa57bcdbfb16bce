------------------------------ MODULE Shipment ------------------------------
(***************************************************************************)
(* What the transfer of one resource promises the session, whatever RNS's  *)
(* threads, the poller, deletions, the sweep and the end of the session do *)
(* in the meantime (docs/api-reference.md, resources; rns/resources.py):   *)
(* its end is reported once, as what it was, and for a sent resource after *)
(* its start; it is cancelled at most once, and what is shown as under way *)
(* when it is taken off the list is under way no longer, which a received  *)
(* resource always is while it is; a sent resource is listed once, a       *)
(* received one again at most by its end; and no upload is left or comes   *)
(* back when the end has been reported.                                    *)
(***************************************************************************)
EXTENDS Naturals

VARIABLES
    way,      \* "none", "out" for a resource that is sent, "in"
    cargo,    \* the resource: "none", "refused" if it was never sent,
              \* "TRANSFERRING", "COMPLETE" or "FAILED"
    listed,   \* the session lists the transfer
    shown,    \* ... with a status that says that it is under way
    started,  \* the session was told of its start
    told,     \* how often the session was told of its end, and which
    upload    \* "none", "file", "gone"

vars == <<way, cargo, listed, shown, started, told, upload>>

Final == {"COMPLETE", "FAILED"}

\* The file, if there is one, has gone.
Cleared == upload' = IF upload = "none" THEN "none" ELSE "gone"

Init ==
    /\ way = "none"
    /\ cargo = "none"
    /\ listed = FALSE
    /\ shown = FALSE
    /\ started = FALSE
    /\ told = [x \in Final \cup {"CANCELLED"} |-> 0]
    /\ upload = "none"

\* A client uploads the data ...
Upload ==
    /\ way = "none"
    /\ way' = "out"
    /\ upload' = "file"
    /\ UNCHANGED <<cargo, listed, started, told>>

\* ... and it is sent, ...
Depart ==
    /\ way \in {"none", "out"}
    /\ cargo = "none"
    /\ way' = "out"
    /\ cargo' = "TRANSFERRING"
    /\ listed' = TRUE
    /\ shown' = TRUE
    /\ UNCHANGED <<started, told, upload>>

\* ... or cannot be: either nothing is left of it, or the list keeps it.
Refuse ==
    /\ way \in {"none", "out"}
    /\ cargo = "none"
    /\ way' = "out"
    /\ cargo' = "refused"
    /\ \/ Cleared /\ UNCHANGED listed
       \/ listed' = TRUE /\ UNCHANGED upload
    /\ UNCHANGED <<started, told>>

\* A resource comes in.
Arrive ==
    /\ way = "none"
    /\ way' = "in"
    /\ cargo' = "TRANSFERRING"
    /\ UNCHANGED <<listed, started, told, upload>>

\* The start is told once, of a received resource before anything else.  It
\* is shown as what it is, a sent one as what it was when send looked.
Start ==
    /\ cargo \in {"TRANSFERRING"} \cup Final
    /\ ~started
    /\ started' = TRUE
    /\ \A x \in Final : told[x] = 0
    /\ \/ /\ way = "in"
          /\ told["CANCELLED"] = 0
          /\ listed' = TRUE
          /\ shown' <=> cargo = "TRANSFERRING"
       \/ way = "out" /\ UNCHANGED listed
    /\ UNCHANGED <<way, cargo, told, upload>>

Conclude ==
    /\ cargo = "TRANSFERRING"
    /\ cargo' \in Final
    /\ UNCHANGED <<way, listed, started, told, upload>>

\* The end is told once, as what it was.  The end of a received resource puts
\* it back on the list.
Report ==
    /\ cargo \in Final
    /\ \A x \in Final : told[x] = 0
    /\ told' = [told EXCEPT ![cargo] = @ + 1]
    /\ \/ way = "in" /\ listed' = TRUE
       \/ way = "out" /\ started /\ upload # "file" /\ UNCHANGED listed
    /\ UNCHANGED <<way, cargo, started, upload>>

\* What leaves the list is stopped, ...
Leave ==
    /\ listed
    /\ ~listed'
    /\ cargo' = IF cargo = "TRANSFERRING" THEN "FAILED" ELSE cargo
    /\ UNCHANGED <<way, started>>

\* ... because the client deletes it while it is shown as under way, ...
Cancel ==
    /\ shown
    /\ Leave
    /\ told["CANCELLED"] = 0
    /\ told' = [told EXCEPT !["CANCELLED"] = @ + 1]
    /\ Cleared

\* ... or because the session ends.
Remove ==
    /\ Leave
    /\ Cleared
    /\ UNCHANGED told

\* What is not shown as under way is deleted, and goes its way.
Forget ==
    /\ ~shown
    /\ listed
    /\ ~listed'
    /\ UNCHANGED <<way, cargo, started, told, upload>>

\* It is shown as something else.
Relabel == UNCHANGED <<way, cargo, listed, started, told, upload>>

\* The file is not needed any more, or is too old.
Discard ==
    /\ upload = "file"
    /\ cargo # "none"
    /\ upload' = "gone"
    /\ UNCHANGED <<way, cargo, listed, started, told>>

\* What is shown as under way, and is, stays so, but that a sent resource
\* may turn out not to have begun when its start is told.
Next ==
    /\ \/ Upload \/ Depart \/ Refuse \/ Arrive \/ Start \/ Conclude \/ Report
       \/ Cancel \/ Remove \/ Forget \/ Discard \/ Relabel
    /\ shown /\ cargo' = "TRANSFERRING" => shown' \/ started' # started

Spec == Init /\ [][Next]_vars
=============================================================================
