------------------------------ MODULE Transfers ------------------------------
(***************************************************************************)
(* The RNS.Resource transfers of one session over the links of one         *)
(* destination, one after the other: the policy that accepts or rejects    *)
(* them, sending, receiving, deleting, the retention sweep and the cleanup *)
(* hook (rns/resources.py, handlers/resources.py).                         *)
(*                                                                         *)
(* A transfer stands for its TransferState, its RNS.Resource and its files *)
(* in resources_dir.  RNS concludes a resource at any time, cancelled ones *)
(* included, and reports it: to _on_complete on a thread of its own for an *)
(* outbound transfer, to coroutines it hands to the loop for an inbound    *)
(* one; it makes the callbacks of one resource one after the other.  A     *)
(* loop step is the code between two awaits; send is cut further where a   *)
(* callback can see the state RNS.Resource() leaves behind.                *)
(*                                                                         *)
(* Left out: progress figures and the throttle, sizes, metadata, inline    *)
(* data.  The statuses in which delete takes a resource to be in flight    *)
(* are one, TRANSFERRING; the one a resource has before RNS has begun with *)
(* it is FRESH (NONE, or REJECTED, which has the same number); CORRUPT and *)
(* a rejection by the peer are FAILED.  Of the links that are up beside    *)
(* the cached one it matters only whether there is one (stray); how they   *)
(* come about is the subject of module Links.                              *)
(***************************************************************************)
EXTENDS Integers

CONSTANTS Transfer,      \* transfers a run may see, each sent or received once
          DefaultAccept  \* config.resources.default_auto_accept

ASSUME ConstantsAssumption == DefaultAccept \in BOOLEAN

VARIABLES
    sessionState,  \* "live", or "ended" once the cleanup hook has run
    reachable,     \* a connection not closed yet, a handler or an open call
                   \* has the session object, ended or not
    slot,          \* session.open_links[d]: none, a placeholder, a link at
                   \* some point of attach_link, a link
    linkUp,        \* the link is ACTIVE
    stray,         \* a link that has lost its place in the cache may be up,
                   \* and accepts resources
    policy,        \* session.link_resource_policy[d]
    strategy,      \* the resource strategy of the link
    active,        \* keys of session.active_transfers
    xfer           \* xfer[t]: the transfer, see TransferRecord

linkVars == <<reachable, slot, linkUp, stray, policy, strategy>>
vars == <<sessionState, reachable, slot, linkUp, stray, policy, strategy,
          active, xfer>>

Ended == {"COMPLETE", "FAILED"}
Underway == {"FRESH", "TRANSFERRING"}

\* attach_link: the link is there, its strategy is set, _on_resource_started
\* is set, _on_resource_concluded is set as well.
Wiring == {"created", "accepting", "started"}
Accepting == {"accepting", "started", "wired"}

TransferRecord ==
    [dir : {"none", "in", "out"},
     status : {"none", "PENDING", "CANCELLED"} \cup Underway \cup Ended,
     res : {"none"} \cup Underway \cup Ended,  \* status of the RNS.Resource
     handle : BOOLEAN,                   \* state.resource is set
     seen : {"none"} \cup Underway \cup Ended,  \* status that send has read
     watched : BOOLEAN,                  \* RNS knows whom to tell of its end
     start : {"none", "due", "sending", "done"},  \* _on_receive_started
     ending : {"none", "due", "handed", "sending", "lost"},  \* report of its end
     poller : BOOLEAN,                   \* state.poller_task is running
     temp : {"none", "file", "expired"},   \* received file at temp_path
     upload : {"none", "file", "gone"},    \* uploaded file
     send : {"idle", "uploading", "created", "assigning", "starting",
             "waiting", "done"},
     reply : {"none", "error", "started", "timeout", "CANCELLED"}
                 \cup Underway \cup Ended,  \* what the caller of send was told
     done : BOOLEAN,                     \* done_event is set
     started : BOOLEAN,                  \* resource.started was sent
     successes : 0 .. 1,                 \* resource.sent, resource.completed
     failures : 0 .. 2]                  \* resource.failed

TypeOK ==
    /\ sessionState \in {"live", "ended"}
    /\ reachable \in BOOLEAN
    /\ slot \in {"none", "reserved"} \cup Wiring \cup Accepting
    /\ linkUp \in BOOLEAN
    /\ stray \in BOOLEAN
    /\ policy \in {"unset", "accept", "reject"}
    /\ strategy \in {"ACCEPT_NONE", "ACCEPT_ALL"}
    /\ active \subseteq Transfer
    /\ xfer \in [Transfer -> TransferRecord]

Init ==
    /\ sessionState = "live"
    /\ reachable = TRUE
    /\ slot = "none"
    /\ linkUp = FALSE
    /\ stray = FALSE
    /\ policy = "unset"
    /\ strategy = "ACCEPT_NONE"
    /\ active = {}
    /\ xfer = [t \in Transfer |->
                 [dir |-> "none", status |-> "none", res |-> "none",
                  handle |-> FALSE, seen |-> "none", watched |-> FALSE,
                  start |-> "none", ending |-> "none",
                  poller |-> FALSE, temp |-> "none", upload |-> "none",
                  send |-> "idle", reply |-> "none", done |-> FALSE,
                  started |-> FALSE, successes |-> 0, failures |-> 0]]

-----------------------------------------------------------------------------
(***************************************************************************)
(* Helpers.                                                                *)
(***************************************************************************)

\* No coroutine is between RNS.Link() or RNS.Resource() and what follows.
LoopFree ==
    /\ slot \notin Wiring
    /\ \A t \in Transfer : xfer[t].send \notin {"created", "assigning"}

Unused(t) == xfer[t].dir = "none"

\* Mutation: a transfer that has failed is cancelled again.
InFlight_NotCancelled(t) == xfer[t].status \notin {"CANCELLED", "COMPLETE"}

\* The statuses in which delete cancels first.
InFlight(t) == xfer[t].status \in {"PENDING", "TRANSFERRING"}

\* The poller goes on after the conclusion: it belongs to the state that was
\* deleted, the conclusion made one of its own.
PollsOn(t) == xfer[t].poller /\ t \notin active

Unlink(file, gone) == IF file = "none" THEN "none" ELSE gone

\* RNS is done with the resource, and reports it if it knows to whom.
Concluded(x, result) ==
    [x EXCEPT !.res = result, !.ending = IF x.watched THEN "due" ELSE "lost"]

\* state.resource.cancel(): RNS ends a resource under way.
CancelResource(x) ==
    IF x.handle /\ x.res \in Underway THEN Concluded(x, "FAILED") ELSE x

-----------------------------------------------------------------------------
(***************************************************************************)
(* The link and its policy.                                                *)
(***************************************************************************)

\* The link in the cache, if there is one, loses its place: it is closed, or
\* stays up.
LosesPlace ==
    /\ stray' \in {stray, stray \/ strategy = "ACCEPT_ALL"}
    /\ linkUp' = FALSE
    /\ strategy' = "ACCEPT_NONE"

\* link.open leaves a placeholder, or the entry of the link goes: closed by
\* the client or by RNS, the open failed, or another link's end evicts it.
SlotChanges ==
    /\ LoopFree
    /\ \/ slot' = "none"
       \/ slot' = "reserved" /\ reachable /\ ~linkUp
    /\ LosesPlace
    /\ UNCHANGED <<sessionState, reachable, policy, active, xfer>>

\* _create_link_entry, for an ended session too: RNS.Link() ...
CreateLink ==
    /\ LoopFree
    /\ reachable
    /\ slot' = "created"
    /\ LosesPlace
    /\ UNCHANGED <<sessionState, reachable, policy, active, xfer>>

Strategy(accept) == IF accept THEN "ACCEPT_ALL" ELSE "ACCEPT_NONE"

\* Mutation: the policy the session has set is not looked up.
AttachLink_Default ==
    /\ slot = "created"
    /\ slot' = "accepting"
    /\ strategy' = Strategy(DefaultAccept)
    /\ UNCHANGED <<sessionState, reachable, linkUp, stray, policy, active, xfer>>

\* ... then attach_link: the strategy, ...
AttachLink ==
    /\ slot = "created"
    /\ slot' = "accepting"
    /\ strategy' = Strategy(IF policy = "unset" THEN DefaultAccept
                            ELSE policy = "accept")
    /\ UNCHANGED <<sessionState, reachable, linkUp, stray, policy, active, xfer>>

\* ... and one callback after the other, while RNS is at work on the link.
SetCallback ==
    /\ \/ slot = "accepting" /\ slot' = "started"
       \/ slot = "started" /\ slot' = "wired"
    /\ UNCHANGED <<sessionState, reachable, linkUp, stray, policy, strategy,
                   active, xfer>>

\* set_link_policy, for a link or a placeholder.
SetPolicy ==
    /\ LoopFree
    /\ reachable
    /\ slot # "none"
    /\ \E accept \in BOOLEAN :
          /\ policy' = IF accept THEN "accept" ELSE "reject"
          /\ strategy' = IF slot = "wired" THEN Strategy(accept) ELSE strategy
    /\ UNCHANGED <<sessionState, reachable, slot, linkUp, stray, active, xfer>>

-----------------------------------------------------------------------------
(***************************************************************************)
(* Sending.                                                                *)
(***************************************************************************)

\* rest_send_resource streams the request body into a file.
Upload(t) ==
    /\ LoopFree
    /\ Unused(t)
    /\ sessionState = "live"
    /\ xfer' = [xfer EXCEPT ![t].dir = "out", ![t].send = "uploading",
                            ![t].upload = "file"]
    /\ UNCHANGED <<sessionState, linkVars, active>>

\* send for an upload, or for the bytes of a resource.send frame, up to the
\* constructor of RNS.Resource.
Send(t) ==
    /\ LoopFree
    /\ reachable
    /\ Unused(t) \/ xfer[t].send = "uploading"
    /\ linkUp
    /\ active' = active \cup {t}
    /\ xfer' = [xfer EXCEPT ![t].dir = "out", ![t].send = "created",
                            ![t].status = "PENDING", ![t].res = "FRESH",
                            ![t].watched = TRUE]
    /\ UNCHANGED <<sessionState, linkVars>>

\* The link is gone, or RNS refuses: the transfer and the upload go too.
SendRefused(t) ==
    /\ LoopFree
    /\ reachable
    /\ Unused(t) \/ xfer[t].send = "uploading"
    /\ xfer' = [xfer EXCEPT ![t].dir = "out", ![t].send = "done",
                            ![t].reply = "error",
                            ![t].upload = Unlink(@, "gone")]
    /\ UNCHANGED <<sessionState, linkVars, active>>

\* The upload cannot be opened: send fails after it put the transfer into
\* active_transfers, and nobody takes it or the upload away.
SendOpenFails(t) ==
    /\ LoopFree
    /\ reachable
    /\ xfer[t].send = "uploading"
    /\ linkUp
    /\ active' = active \cup {t}
    /\ xfer' = [xfer EXCEPT ![t].send = "done", ![t].reply = "error",
                            ![t].status = "PENDING"]
    /\ UNCHANGED <<sessionState, linkVars>>

\* send after the constructor: state.resource is assigned, whatever the
\* callbacks did in between, and the status of the resource is read ...
SendAssign(t) ==
    /\ xfer[t].send = "created"
    /\ xfer' = [xfer EXCEPT ![t].send = "assigning", ![t].handle = TRUE,
                            ![t].seen = xfer[t].res]
    /\ UNCHANGED <<sessionState, linkVars, active>>

\* ... and stored, even if a callback has stored a later one by now;
\* resource.started is sent.
SendStore(t) ==
    /\ xfer[t].send = "assigning"
    /\ xfer' = [xfer EXCEPT ![t].send = "starting", ![t].seen = "none",
                            ![t].status = xfer[t].seen, ![t].started = TRUE]
    /\ UNCHANGED <<sessionState, linkVars, active>>

\* ... and the caller either returns or waits for done_event.
SendStarted(t) ==
    /\ LoopFree
    /\ xfer[t].send = "starting"
    /\ \/ xfer' = [xfer EXCEPT ![t].send = "waiting"]
       \/ xfer' = [xfer EXCEPT ![t].send = "done", ![t].reply = "started"]
    /\ UNCHANGED <<sessionState, linkVars, active>>

\* done_event is set, or the wait times out.
SendReturns(t) ==
    /\ LoopFree
    /\ xfer[t].send = "waiting"
    /\ \/ /\ xfer[t].done
          /\ xfer' = [xfer EXCEPT ![t].send = "done", ![t].reply = xfer[t].status]
       \/ /\ ~xfer[t].done
          /\ xfer' = [xfer EXCEPT ![t].send = "done", ![t].reply = "timeout"]
    /\ UNCHANGED <<sessionState, linkVars, active>>

\* _on_progress, on an RNS thread.
OnProgress(t) ==
    /\ xfer[t].dir = "out"
    /\ xfer[t].res = "TRANSFERRING"
    /\ xfer' = [xfer EXCEPT ![t].status = "TRANSFERRING"]
    /\ UNCHANGED <<sessionState, linkVars, active>>

\* The event of _on_complete: resource.sent or resource.failed.
TerminalEvent(x) ==
    IF x.res = "COMPLETE"
    THEN [x EXCEPT !.successes = @ + 1]
    ELSE [x EXCEPT !.failures = @ + 1]

\* Mutation: the upload is not removed.
OnComplete_KeepUpload(t) ==
    /\ xfer[t].dir = "out"
    /\ xfer[t].ending = "due"
    /\ xfer' = [xfer EXCEPT ![t].ending = "handed", ![t].handle = FALSE,
                            ![t].status = xfer[t].res]
    /\ UNCHANGED <<sessionState, linkVars, active>>

\* Mutation: the event is sent from the RNS thread.
OnComplete_Direct(t) ==
    /\ xfer[t].dir = "out"
    /\ xfer[t].ending = "due"
    /\ xfer' = [xfer EXCEPT ![t] =
          TerminalEvent([@ EXCEPT !.ending = "none", !.status = xfer[t].res,
                                  !.handle = FALSE, !.done = TRUE,
                                  !.upload = Unlink(@, "gone")])]
    /\ UNCHANGED <<sessionState, linkVars, active>>

\* _on_complete, on an RNS thread: the upload goes, the event and the waking
\* of the waiter are handed to the loop.
OnComplete(t) ==
    /\ xfer[t].dir = "out"
    /\ xfer[t].ending = "due"
    /\ xfer' = [xfer EXCEPT ![t].ending = "handed", ![t].handle = FALSE,
                            ![t].status = xfer[t].res,
                            ![t].upload = Unlink(@, "gone")]
    /\ UNCHANGED <<sessionState, linkVars, active>>

\* ... and the loop does both.
CompletionReported(t) ==
    /\ LoopFree
    /\ xfer[t].ending = "handed"
    /\ xfer' = [xfer EXCEPT ![t] =
          TerminalEvent([@ EXCEPT !.ending = "none", !.done = TRUE])]
    /\ UNCHANGED <<sessionState, linkVars, active>>

-----------------------------------------------------------------------------
(***************************************************************************)
(* Receiving.                                                              *)
(***************************************************************************)

\* _on_receive_started: the transfer appears with the status the resource
\* has by now; resource.started is sent.
OnReceiveStarted(t) ==
    /\ LoopFree
    /\ xfer[t].start = "due"
    /\ active' = active \cup {t}
    /\ xfer' = [xfer EXCEPT ![t].start = "sending", ![t].handle = TRUE,
                            ![t].status = xfer[t].res, ![t].started = TRUE]
    /\ UNCHANGED <<sessionState, linkVars>>

\* ... and the poller is started, whatever happened during the send.
ReceiveStartedSent(t) ==
    /\ LoopFree
    /\ xfer[t].start = "sending"
    /\ xfer' = [xfer EXCEPT ![t].start = "done", ![t].poller = TRUE]
    /\ UNCHANGED <<sessionState, linkVars, active>>

\* _poll_receive_progress returns: the resource was released or has ended.
PollerReturns(t) ==
    /\ LoopFree
    /\ xfer[t].poller
    /\ ~xfer[t].handle \/ xfer[t].res \in Ended
    /\ xfer' = [xfer EXCEPT ![t].poller = FALSE]
    /\ UNCHANGED <<sessionState, linkVars, active>>

\* Mutation: a transfer that is not in active_transfers is ignored.
OnReceiveConcluded_KnownOnly(t) ==
    /\ LoopFree
    /\ xfer[t].dir = "in"
    /\ xfer[t].ending = "due"
    /\ xfer[t].start # "due"
    /\ t \in active
    /\ xfer' = [xfer EXCEPT ![t].ending = "sending", ![t].handle = TRUE,
                            ![t].status = xfer[t].res, ![t].poller = FALSE,
                            ![t].temp = IF xfer[t].res = "COMPLETE"
                                        THEN "file" ELSE "none",
                            ![t].successes = IF xfer[t].res = "COMPLETE"
                                             THEN @ + 1 ELSE @,
                            ![t].failures = IF xfer[t].res = "COMPLETE"
                                            THEN @ ELSE @ + 1]
    /\ UNCHANGED <<sessionState, linkVars, active>>

\* Mutation: a failed copy leaves the status alone.
OnReceiveConcluded_CopyStatus(t) ==
    /\ LoopFree
    /\ xfer[t].dir = "in"
    /\ xfer[t].ending = "due"
    /\ xfer[t].start # "due"
    /\ active' = active \cup {t}
    /\ \/ /\ xfer[t].res = "COMPLETE"
          /\ \E copied \in {"file", "none"} :
                xfer' = [xfer EXCEPT
                           ![t].ending = "sending", ![t].handle = TRUE,
                           ![t].poller = PollsOn(t), ![t].temp = copied,
                           ![t].status = "COMPLETE", ![t].successes = @ + 1]
       \/ /\ xfer[t].res = "FAILED"
          /\ xfer' = [xfer EXCEPT
                        ![t].ending = "sending", ![t].handle = TRUE,
                        ![t].poller = PollsOn(t), ![t].temp = "none",
                        ![t].status = "FAILED", ![t].failures = @ + 1]
    /\ UNCHANGED <<sessionState, linkVars>>

\* _on_receive_concluded, which runs after _on_receive_started if RNS called
\* for both.  A transfer that active_transfers does not hold is put there.
\* The file is copied, or the copy fails; either way a complete resource is
\* reported by resource.completed.
OnReceiveConcluded(t) ==
    /\ LoopFree
    /\ xfer[t].dir = "in"
    /\ xfer[t].ending = "due"
    /\ xfer[t].start # "due"
    /\ active' = active \cup {t}
    /\ \/ /\ xfer[t].res = "COMPLETE"
          /\ \E copied \in {"file", "none"} :
                xfer' = [xfer EXCEPT
                           ![t].ending = "sending", ![t].handle = TRUE,
                           ![t].poller = PollsOn(t), ![t].temp = copied,
                           ![t].status = IF copied = "file"
                                         THEN "COMPLETE" ELSE "FAILED",
                           ![t].successes = @ + 1]
       \/ /\ xfer[t].res = "FAILED"
          /\ xfer' = [xfer EXCEPT
                        ![t].ending = "sending", ![t].handle = TRUE,
                        ![t].poller = PollsOn(t), ![t].temp = "none",
                        ![t].status = "FAILED", ![t].failures = @ + 1]
    /\ UNCHANGED <<sessionState, linkVars>>

\* ... and, the event sent, the resource is released.
ReceiveConcludedSent(t) ==
    /\ LoopFree
    /\ xfer[t].ending = "sending"
    /\ xfer' = [xfer EXCEPT ![t].ending = "none", ![t].handle = FALSE]
    /\ UNCHANGED <<sessionState, linkVars, active>>

-----------------------------------------------------------------------------
(***************************************************************************)
(* Deleting and cleaning up.                                               *)
(***************************************************************************)

\* Mutation: the RNS.Resource is left running.
Delete_NoCancel(t) ==
    /\ LoopFree
    /\ reachable
    /\ t \in active
    /\ active' = active \ {t}
    /\ xfer' = [xfer EXCEPT ![t] =
          [@ EXCEPT !.status = IF InFlight(t) THEN "CANCELLED" ELSE @,
                    !.poller = IF InFlight(t) THEN FALSE ELSE @,
                    !.temp = "none",
                    !.upload = IF InFlight(t) THEN Unlink(@, "gone") ELSE @,
                    !.done = IF InFlight(t) THEN xfer[t].dir = "out" ELSE @,
                    !.failures = IF InFlight(t) THEN @ + 1 ELSE @]]
    /\ UNCHANGED <<sessionState, linkVars>>

\* delete, which cancels a transfer that looks to be in flight.
Delete(t) ==
    LET x == xfer[t] IN
    /\ LoopFree
    /\ reachable
    /\ t \in active
    /\ active' = active \ {t}
    /\ xfer' = [xfer EXCEPT ![t] =
          IF InFlight(t)
          THEN [CancelResource(x) EXCEPT
                  !.status = "CANCELLED", !.poller = FALSE, !.temp = "none",
                  !.upload = Unlink(@, "gone"), !.done = (x.dir = "out"),
                  !.failures = @ + 1]
          ELSE [x EXCEPT !.temp = "none"]]
    /\ UNCHANGED <<sessionState, linkVars>>

\* _sweep_once finds a file past the retention time.
SweepFile(t) ==
    /\ LoopFree
    /\ \/ /\ xfer[t].temp = "file"
          /\ xfer' = [xfer EXCEPT ![t].temp = "expired"]
       \/ /\ xfer[t].upload = "file"
          /\ xfer[t].send # "uploading"
          /\ xfer' = [xfer EXCEPT ![t].upload = "gone"]
    /\ UNCHANGED <<sessionState, linkVars, active>>

\* Mutation: active_transfers is not cleared.
EndSession_KeepBook ==
    /\ LoopFree
    /\ sessionState = "live"
    /\ sessionState' = "ended"
    /\ slot' = "none"
    /\ linkUp' = FALSE
    /\ strategy' = "ACCEPT_NONE"
    /\ UNCHANGED <<reachable, stray, policy, active, xfer>>

\* cleanup_session; the links of the cache are torn down right after it.
EndSession ==
    /\ LoopFree
    /\ sessionState = "live"
    /\ sessionState' = "ended"
    /\ slot' = "none"
    /\ linkUp' = FALSE
    /\ strategy' = "ACCEPT_NONE"
    /\ active' = {}
    /\ xfer' = [t \in Transfer |->
          IF t \in active
          THEN [CancelResource(xfer[t]) EXCEPT
                  !.handle = FALSE, !.poller = FALSE, !.temp = "none",
                  !.upload = Unlink(@, "gone")]
          ELSE xfer[t]]
    /\ UNCHANGED <<reachable, stray, policy>>

\* The last connection is closed, the last handler and open call has ended.
LetGo ==
    /\ LoopFree
    /\ sessionState = "ended"
    /\ reachable
    /\ \A t \in Transfer : xfer[t].send # "uploading"
    /\ reachable' = FALSE
    /\ UNCHANGED <<sessionState, slot, linkUp, stray, policy, strategy, active,
                   xfer>>

-----------------------------------------------------------------------------
(***************************************************************************)
(* RNS.  External, as rns/resources.py uses it.                            *)
(***************************************************************************)

\* The handshake completes, also before the link is wired, or the link goes
\* stale or comes back.
RnsLinkChanges ==
    /\ slot \in {"created"} \cup Accepting
    /\ linkUp' = ~linkUp
    /\ UNCHANGED <<sessionState, reachable, slot, stray, policy, strategy, active,
                   xfer>>

StrayCloses ==
    /\ stray
    /\ stray' = FALSE
    /\ UNCHANGED <<sessionState, reachable, slot, linkUp, policy, strategy, active,
                   xfer>>

\* The peer advertises a resource over a link that accepts it, RNS calls the
\* callbacks that are set: of the link in the cache maybe not all yet.
RnsAdvertise(t) ==
    /\ Unused(t)
    /\ \E at \in Accepting :
          /\ \/ slot = at /\ linkUp /\ strategy = "ACCEPT_ALL"
             \/ stray /\ at = "wired"
          /\ xfer' = [xfer EXCEPT ![t].dir = "in", ![t].res = "TRANSFERRING",
                                  ![t].start = IF at = "accepting" THEN "none"
                                               ELSE "due",
                                  ![t].watched = (at = "wired")]
    /\ UNCHANGED <<sessionState, linkVars, active>>

\* Whether RNS takes the callback for the end of a resource when it accepts
\* the resource or when it needs it is left open.
RnsWatch(t) ==
    /\ xfer[t].dir = "in"
    /\ xfer[t].res = "TRANSFERRING"
    /\ slot = "wired"
    /\ xfer' = [xfer EXCEPT ![t].watched = TRUE]
    /\ UNCHANGED <<sessionState, linkVars, active>>

\* The resource is queued and advertised.
RnsBegin(t) ==
    /\ xfer[t].res = "FRESH"
    /\ xfer' = [xfer EXCEPT ![t].res = "TRANSFERRING"]
    /\ UNCHANGED <<sessionState, linkVars, active>>

\* The resource is complete or has failed.
RnsConclude(t) ==
    /\ xfer[t].res \in Underway
    /\ \E r \in Ended : xfer' = [xfer EXCEPT ![t] = Concluded(@, r)]
    /\ UNCHANGED <<sessionState, linkVars, active>>

-----------------------------------------------------------------------------
\* What the loop does for t without a client.
LoopStep(t) ==
    \/ SendAssign(t)
    \/ SendStore(t)
    \/ SendStarted(t)
    \/ SendReturns(t)
    \/ CompletionReported(t)
    \/ OnReceiveStarted(t)
    \/ ReceiveStartedSent(t)
    \/ PollerReturns(t)
    \/ OnReceiveConcluded(t)
    \/ ReceiveConcludedSent(t)

Client(t) ==
    \/ Upload(t)
    \/ Send(t)
    \/ SendRefused(t)
    \/ SendOpenFails(t)
    \/ Delete(t)

Rns(t) ==
    \/ RnsAdvertise(t)
    \/ RnsWatch(t)
    \/ RnsBegin(t)
    \/ RnsConclude(t)
    \/ OnProgress(t)

Next ==
    \/ EndSession \/ LetGo
    \/ SlotChanges \/ CreateLink \/ AttachLink \/ SetCallback \/ SetPolicy
    \/ RnsLinkChanges \/ StrayCloses
    \/ \E t \in Transfer :
          LoopStep(t) \/ Client(t) \/ Rns(t) \/ OnComplete(t) \/ SweepFile(t)

\* A handle of the loop waits only for the handles before it, however often
\* others are under way, and a callback RNS has begun ends.  RNS need not
\* ever conclude a resource.
Fairness ==
    /\ WF_vars(AttachLink \/ SetCallback)
    /\ \A t \in Transfer : SF_vars(LoopStep(t)) /\ WF_vars(OnComplete(t))

Spec == Init /\ [][Next]_vars

FairSpec == Spec /\ Fairness

-----------------------------------------------------------------------------
(***************************************************************************)
(* Properties.                                                             *)
(***************************************************************************)

\* No upload outlives its transfer: once RNS is done with it and has said
\* so, the file is gone, cancelled and torn down transfers included
\* (_on_complete, cancel, cleanup_session).
UploadsAreRemoved ==
    \A t \in Transfer :
        xfer[t].res \in Ended /\ xfer[t].ending # "due"
            => xfer[t].upload # "file"

\* resource.sent never overtakes resource.started, though RNS may complete
\* the resource before its constructor returns to send (_on_complete goes
\* through the loop, which send does not leave before its own event).
StartedComesFirst ==
    \A t \in Transfer :
        xfer[t].dir = "out" /\ xfer[t].successes > 0 => xfer[t].started

\* A received transfer that was announced and is listed as COMPLETE has its
\* file, until the retention sweep takes it (_on_receive_concluded, delete,
\* open_stream).
AnnouncedIsDownloadable ==
    \A t \in active :
        /\ xfer[t].dir = "in"
        /\ xfer[t].status = "COMPLETE"
        /\ xfer[t].successes > 0
        => xfer[t].temp # "none"

\* A link accepts resources or rejects them as the session has last asked
\* for its destination, also if it asked before there was a link, or for an
\* earlier link (set_link_policy, attach_link).
PolicyIsObeyed ==
    slot \in Accepting =>
        (strategy = "ACCEPT_ALL" <=>
            policy = "accept" \/ (policy = "unset" /\ DefaultAccept))

\* A transfer RNS has concluded is reported to the session by a terminal
\* event in the end, deleted or not, in the cache or forgotten, if RNS was
\* told whom to call (_on_complete, _on_receive_concluded).
ConclusionIsReported ==
    \A t \in Transfer :
        xfer[t].res \in Ended /\ xfer[t].watched
            ~> xfer[t].successes + xfer[t].failures > 0

\* The poller of a transfer that was deleted or whose session ended stops,
\* even one started after the deletion (_poll_receive_progress).
PollerStops ==
    \A t \in Transfer :
        xfer[t].poller /\ t \notin active ~> ~xfer[t].poller

\* RNS holds a resource that is coming in, or is about to report on it.
Incoming(t) ==
    /\ xfer[t].dir = "in"
    /\ \/ xfer[t].res = "TRANSFERRING"
       \/ xfer[t].start = "due"
       \/ xfer[t].ending = "due"

\* The session as this module sees it, with active_transfers as its book.
Life == INSTANCE SessionLife WITH
    life <- sessionState,
    heard <- reachable,
    held <- \/ slot \in {"created"} \cup Accepting
            \/ stray
            \/ \E t \in Transfer : Incoming(t),
    booked <- active # {}

\* The hook empties the book.  Afterwards only who still has the session adds
\* to it: a handler or connection that has not ended, a link made for the
\* ended session or outside the cache, a resource that was coming in; no
\* report on a sent resource, no deletion, no sweep, and nothing at all once
\* these have ended (cleanup_session, _on_receive_started,
\* _on_receive_concluded, _on_complete).
TransfersWindDown == Life!Spec

-----------------------------------------------------------------------------
(***************************************************************************)
(* What the documents and comments of the code say and the code does not   *)
(* keep: TLC refutes each of these (README, section 5).                    *)
(***************************************************************************)

\* docs/api-reference.md: DELETE /resources/{transfer_id} "removes the
\* transfer from session state": one that was there does not return.
DeletedStaysDeleted ==
    [][\A t \in Transfer :
          /\ sessionState = "live"
          /\ t \notin active
          /\ xfer[t].start \in {"sending", "done"}
          => t \notin active']_vars

\* docs/api-reference.md: DELETE /resources/{transfer_id} "Cancels the
\* transfer if in flight": what it takes off the list is not under way.
DeletedIsStopped ==
    [][\A t \in Transfer :
          t \in active /\ t \notin active' => xfer'[t].res \notin Underway]_vars

\* docs/api-reference.md: "`resource.completed` - inbound transfer finished
\* successfully", "`resource.failed` - status FAILED / CORRUPT / cancelled":
\* one of them is sent for every resource that was accepted and has ended.
EveryEndIsReported ==
    \A t \in Transfer :
        xfer[t].res \in Ended ~> xfer[t].successes + xfer[t].failures > 0

-----------------------------------------------------------------------------
(***************************************************************************)
(* What a transfer promises: every transfer implements Shipment.           *)
(***************************************************************************)

\* A send that failed before RNS had the resource is refused for good.
Cargo(x) ==
    IF x.res = "none" /\ x.send = "done" THEN "refused"
    ELSE IF x.res = "FRESH" THEN "TRANSFERRING" ELSE x.res

\* The terminal event of x has been handed to the hub.
EndTold(x, end) ==
    IF x.res = end /\ x.ending \in {"none", "sending"} THEN 1 ELSE 0

\* A failure beyond the one that reports the end is that of a deletion.
Reports(x) ==
    [k \in Ended \cup {"CANCELLED"} |->
        CASE k = "COMPLETE" -> x.successes
          [] k = "FAILED" -> EndTold(x, "FAILED")
          [] k = "CANCELLED" -> x.failures - EndTold(x, "FAILED")]

Shipped(t) == INSTANCE Shipment WITH
    way <- xfer[t].dir,
    cargo <- Cargo(xfer[t]),
    listed <- t \in active,
    shown <- InFlight(t),
    started <- xfer[t].started,
    told <- Reports(xfer[t]),
    upload <- xfer[t].upload

\* Every transfer keeps its books: whatever RNS threads, deletions, the sweep
\* and the end of the session do, the end of a resource is reported once at
\* most and truly, a deleted one is stopped if it is shown as under way, a
\* sent one is never listed again (send, _on_complete, _on_receive_started,
\* _on_receive_concluded, delete, cleanup_session).
TransfersKeepBooks ==
    /\ \A t \in Transfer : Shipped(t)!Init
    /\ [][\A t \in Transfer : [Shipped(t)!Next]_(Shipped(t)!vars)]_vars
=============================================================================
