-------------------------- MODULE TransfersProofs --------------------------
(***************************************************************************)
(* Proofs about Transfers, for every set of transfers and either default   *)
(* of the accept policy.                                                   *)
(***************************************************************************)
EXTENDS Transfers, TLAPS

(***************************************************************************)
(* The invariant of one transfer x, where here says that active_transfers  *)
(* holds it.  What counts is how far its end has been reported: until then *)
(* no success was, and a failure only by a deletion, which took it out of  *)
(* active_transfers.                                                       *)
(***************************************************************************)

\* The end of x was reported to the session.
Told(x) == x.res \in Ended /\ x.ending \in {"none", "sending"}

\* Nothing has happened to x that RNS or the session could know of.
Blank(x, here) ==
    /\ ~here
    /\ x.res = "none" /\ x.ending = "none" /\ x.start = "none"
    /\ x.successes = 0 /\ x.failures = 0

\* What belongs to which direction.
Directed(x) ==
    /\ x.start # "none" => x.dir = "in"
    /\ x.ending = "handed" => x.dir = "out"
    /\ x.ending = "sending" => x.dir = "in"
    /\ x.ending # "none" => x.res \in Ended
    /\ x.ending = "lost" => x.dir = "in"
    /\ x.dir = "in" => x.res # "FRESH"
    /\ x.dir = "out" /\ x.res # "none" => x.watched
    /\ x.send # "idle" => x.dir = "out"
    /\ x.upload # "none" => x.dir = "out"

Counted(x, here) ==
    /\ ~Told(x) => x.successes = 0 /\ x.failures <= 1
    /\ here /\ (x.dir = "out" \/ x.status \in {"PENDING", "TRANSFERRING"})
          => x.failures <= (IF Told(x) THEN 1 ELSE 0)
    /\ x.start = "due" => ~Told(x) /\ x.failures = 0 /\ ~here

RecordInv(x, here) ==
    /\ x.dir = "none" \/ x.send = "uploading" => Blank(x, here)
    /\ Directed(x)
    /\ Counted(x, here)
    /\ x.send \in {"starting", "waiting"} => x.status # "PENDING"
    /\ x.dir = "out" /\ x.res # "none"
          => x.started \/ x.send \in {"created", "assigning"}
    /\ x.dir = "out" /\ x.successes > 0 => x.started
    /\ x.res \in Ended /\ x.ending # "due" => x.upload # "file"
    /\ here /\ x.dir = "in" /\ x.status = "COMPLETE" /\ x.successes > 0
          => x.temp # "none"

TransferInv(t) == RecordInv(xfer[t], t \in active)

\* What accepts resources in the cache is a link.
StrategyInv == strategy = "ACCEPT_ALL" => slot \in Accepting

IInv ==
    /\ TypeOK
    /\ \A t \in Transfer : TransferInv(t)
    /\ StrategyInv
    /\ PolicyIsObeyed

-----------------------------------------------------------------------------
\* A step about t leaves the other transfers alone.
LEMMA OthersAlone ==
  ASSUME IInv, NEW t \in Transfer, NEW r \in TransferRecord,
         xfer' = [xfer EXCEPT ![t] = r],
         active' \in {active, active \cup {t}, active \ {t}},
         RecordInv(r, t \in active')
  PROVE  /\ active' \subseteq Transfer
         /\ xfer' \in [Transfer -> TransferRecord]
         /\ \A u \in Transfer : TransferInv(u)'
<1>1. xfer \in [Transfer -> TransferRecord] /\ active \subseteq Transfer
  BY DEF IInv, TypeOK
<1>2. active' \subseteq Transfer /\ xfer' \in [Transfer -> TransferRecord]
  BY <1>1
<1>3. ASSUME NEW u \in Transfer
      PROVE  TransferInv(u)'
  <2>1. CASE u = t
    BY <1>1, <2>1 DEF TransferInv
  <2>2. CASE u # t
    <3>1. xfer'[u] = xfer[u] /\ (u \in active' <=> u \in active)
      BY <1>1, <2>2
    <3>2. RecordInv(xfer[u], u \in active)
      BY DEF IInv, TransferInv
    <3>3. RecordInv(xfer'[u], u \in active')
      BY <3>1, <3>2 DEF RecordInv, Blank, Counted
    <3> QED
      BY <3>3 DEF TransferInv
  <2> QED
    BY <2>1, <2>2
<1> QED
  BY <1>2, <1>3

\* A record stays one when a field is given a value of its own.
LEMMA Setters ==
  ASSUME NEW x \in TransferRecord
  PROVE  /\ \A v \in {"none", "in", "out"} :
               [x EXCEPT !.dir = v] \in TransferRecord
         /\ \A v \in {"none", "PENDING", "CANCELLED"} \cup Underway \cup Ended :
               [x EXCEPT !.status = v] \in TransferRecord
         /\ \A v \in {"none"} \cup Underway \cup Ended :
               [x EXCEPT !.res = v] \in TransferRecord
         /\ \A v \in BOOLEAN : [x EXCEPT !.handle = v] \in TransferRecord
         /\ \A v \in {"none"} \cup Underway \cup Ended :
               [x EXCEPT !.seen = v] \in TransferRecord
         /\ \A v \in BOOLEAN : [x EXCEPT !.watched = v] \in TransferRecord
         /\ \A v \in {"none", "due", "sending", "done"} :
               [x EXCEPT !.start = v] \in TransferRecord
         /\ \A v \in {"none", "due", "handed", "sending", "lost"} :
               [x EXCEPT !.ending = v] \in TransferRecord
         /\ \A v \in BOOLEAN : [x EXCEPT !.poller = v] \in TransferRecord
         /\ \A v \in {"none", "file", "expired"} :
               [x EXCEPT !.temp = v] \in TransferRecord
         /\ \A v \in {"none", "file", "gone"} :
               [x EXCEPT !.upload = v] \in TransferRecord
         /\ \A v \in {"idle", "uploading", "created", "assigning",
                     "starting", "waiting", "done"} :
               [x EXCEPT !.send = v] \in TransferRecord
         /\ \A v \in {"none", "error", "started", "timeout", "CANCELLED"}
                        \cup Underway \cup Ended :
               [x EXCEPT !.reply = v] \in TransferRecord
         /\ \A v \in BOOLEAN : [x EXCEPT !.done = v] \in TransferRecord
         /\ \A v \in BOOLEAN : [x EXCEPT !.started = v] \in TransferRecord
         /\ \A v \in 0 .. 1 : [x EXCEPT !.successes = v] \in TransferRecord
         /\ \A v \in 0 .. 2 : [x EXCEPT !.failures = v] \in TransferRecord
<1>1. \A v \in {"none", "in", "out"} :
      [x EXCEPT !.dir = v] \in TransferRecord
  BY DEF TransferRecord
<1>2. \A v \in {"none", "PENDING", "CANCELLED"} \cup Underway \cup Ended :
      [x EXCEPT !.status = v] \in TransferRecord
  BY DEF TransferRecord
<1>3. \A v \in {"none"} \cup Underway \cup Ended :
      [x EXCEPT !.res = v] \in TransferRecord
  BY DEF TransferRecord
<1>4. \A v \in BOOLEAN : [x EXCEPT !.handle = v] \in TransferRecord
  BY DEF TransferRecord
<1>5. \A v \in {"none"} \cup Underway \cup Ended :
      [x EXCEPT !.seen = v] \in TransferRecord
  BY DEF TransferRecord
<1>6. \A v \in {"none", "due", "sending", "done"} :
      [x EXCEPT !.start = v] \in TransferRecord
  BY DEF TransferRecord
<1>7. \A v \in {"none", "due", "handed", "sending", "lost"} :
      [x EXCEPT !.ending = v] \in TransferRecord
  BY DEF TransferRecord
<1>8. \A v \in BOOLEAN : [x EXCEPT !.poller = v] \in TransferRecord
  BY DEF TransferRecord
<1>9. \A v \in {"none", "file", "expired"} :
      [x EXCEPT !.temp = v] \in TransferRecord
  BY DEF TransferRecord
<1>10. \A v \in {"none", "file", "gone"} :
      [x EXCEPT !.upload = v] \in TransferRecord
  BY DEF TransferRecord
<1>11. \A v \in {"idle", "uploading", "created", "assigning",
      "starting", "waiting", "done"} :
      [x EXCEPT !.send = v] \in TransferRecord
  BY DEF TransferRecord
<1>12. \A v \in {"none", "error", "started", "timeout", "CANCELLED"}
               \cup Underway \cup Ended :
      [x EXCEPT !.reply = v] \in TransferRecord
  BY DEF TransferRecord
<1>13. \A v \in BOOLEAN : [x EXCEPT !.done = v] \in TransferRecord
  BY DEF TransferRecord
<1>14. \A v \in BOOLEAN : [x EXCEPT !.started = v] \in TransferRecord
  BY DEF TransferRecord
<1>15. \A v \in 0 .. 1 : [x EXCEPT !.successes = v] \in TransferRecord
  BY DEF TransferRecord
<1>16. \A v \in 0 .. 2 : [x EXCEPT !.failures = v] \in TransferRecord
  BY DEF TransferRecord
<1>17. \A v \in BOOLEAN : [x EXCEPT !.watched = v] \in TransferRecord
  BY DEF TransferRecord
<1> QED
  BY <1>1, <1>2, <1>3, <1>4, <1>5, <1>6, <1>7, <1>8, <1>9,
     <1>10, <1>11, <1>12, <1>13, <1>14, <1>15, <1>16, <1>17

LEMMA Fields ==
  ASSUME NEW x \in TransferRecord
  PROVE  /\ x.dir \in {"none", "in", "out"}
         /\ x.status \in {"none", "PENDING", "CANCELLED"} \cup Underway \cup Ended
         /\ x.res \in {"none"} \cup Underway \cup Ended
         /\ x.seen \in {"none"} \cup Underway \cup Ended
         /\ x.watched \in BOOLEAN
         /\ x.ending \in {"none", "due", "handed", "sending", "lost"}
         /\ x.upload \in {"none", "file", "gone"}
         /\ x.poller \in BOOLEAN
         /\ x.successes \in 0 .. 1 /\ x.failures \in 0 .. 2
  BY DEF TransferRecord

LEMMA ConcludedRecord ==
  ASSUME NEW x \in TransferRecord, NEW r \in Ended
  PROVE  Concluded(x, r) \in TransferRecord
  BY Setters DEF Concluded

LEMMA CancelledRecord ==
  ASSUME NEW x \in TransferRecord
  PROVE  CancelResource(x) \in TransferRecord
  BY ConcludedRecord DEF CancelResource, Ended

LEMMA CancelledFields ==
  ASSUME NEW x \in TransferRecord
  PROVE  LET c == CancelResource(x) IN
         /\ c.dir = x.dir /\ c.start = x.start /\ c.upload = x.upload
         /\ c.failures = x.failures
         /\ c # x => x.res \in Underway
  BY DEF CancelResource, Concluded, TransferRecord

\* The step is about t.
About(t) ==
    /\ xfer'[t] \in TransferRecord
    /\ xfer' = [xfer EXCEPT ![t] = xfer'[t]]
    /\ active' \in {active, active \cup {t}, active \ {t}}

\* What sending does to a transfer.
LEMMA SendAbout ==
  ASSUME IInv, NEW t \in Transfer,
         \/ Upload(t) \/ Send(t) \/ SendRefused(t) \/ SendOpenFails(t)
         \/ SendAssign(t) \/ SendStore(t) \/ SendStarted(t) \/ SendReturns(t)
  PROVE  About(t) /\ RecordInv(xfer'[t], t \in active')
<1> DEFINE x == xfer[t]
<1>0. /\ xfer \in [Transfer -> TransferRecord] /\ x \in TransferRecord
      /\ RecordInv(x, t \in active)
  BY DEF IInv, TypeOK, TransferInv
<1> USE DEF About, linkVars
<1>1. CASE Upload(t)
  <2>1. xfer'[t] \in TransferRecord
    BY <1>0, <1>1, Setters, Fields DEF Upload, Ended, Underway
  <2>2. xfer' = [xfer EXCEPT ![t] = xfer'[t]]
    BY <1>0, <1>1 DEF Upload
  <2>3. RecordInv(xfer'[t], t \in active')
    BY <1>0, <1>1, Fields
    DEF Upload, Unused, RecordInv, Blank, Directed, Counted, Told, Ended, Underway
  <2> QED
    BY <1>1, <2>1, <2>2, <2>3 DEF Upload
<1>2. CASE Send(t)
  <2>1. xfer'[t] \in TransferRecord
    BY <1>0, <1>2, Setters, Fields DEF Send, Ended, Underway
  <2>2. xfer' = [xfer EXCEPT ![t] = xfer'[t]]
    BY <1>0, <1>2 DEF Send
  <2>3. RecordInv(xfer'[t], t \in active')
    BY <1>0, <1>2, Fields
    DEF Send, Unused, RecordInv, Blank, Directed, Counted, Told, Ended, Underway
  <2> QED
    BY <1>2, <2>1, <2>2, <2>3 DEF Send
<1>3. CASE SendRefused(t)
  <2>1. xfer'[t] \in TransferRecord
    BY <1>0, <1>3, Setters, Fields DEF SendRefused, Unlink, Ended, Underway
  <2>2. xfer' = [xfer EXCEPT ![t] = xfer'[t]]
    BY <1>0, <1>3 DEF SendRefused
  <2>3. RecordInv(xfer'[t], t \in active')
    BY <1>0, <1>3, Fields
    DEF SendRefused, Unused, Unlink, RecordInv, Blank, Directed, Counted, Told, Ended, Underway
  <2> QED
    BY <1>3, <2>1, <2>2, <2>3 DEF SendRefused
<1>4. CASE SendOpenFails(t)
  <2>1. xfer'[t] \in TransferRecord
    BY <1>0, <1>4, Setters, Fields DEF SendOpenFails, Ended, Underway
  <2>2. xfer' = [xfer EXCEPT ![t] = xfer'[t]]
    BY <1>0, <1>4 DEF SendOpenFails
  <2>3. RecordInv(xfer'[t], t \in active')
    BY <1>0, <1>4, Fields
    DEF SendOpenFails, RecordInv, Blank, Directed, Counted, Told, Ended, Underway
  <2> QED
    BY <1>4, <2>1, <2>2, <2>3 DEF SendOpenFails
<1>5. CASE SendAssign(t)
  <2>1. xfer'[t] \in TransferRecord
    BY <1>0, <1>5, Setters, Fields DEF SendAssign, Ended, Underway
  <2>2. xfer' = [xfer EXCEPT ![t] = xfer'[t]]
    BY <1>0, <1>5 DEF SendAssign
  <2>3. RecordInv(xfer'[t], t \in active')
    BY <1>0, <1>5, Fields
    DEF SendAssign, RecordInv, Blank, Directed, Counted, Told, Ended, Underway
  <2> QED
    BY <1>5, <2>1, <2>2, <2>3 DEF SendAssign
<1>6. CASE SendStore(t)
  <2>1. xfer'[t] \in TransferRecord
    BY <1>0, <1>6, Setters, Fields DEF SendStore, Ended, Underway
  <2>2. xfer' = [xfer EXCEPT ![t] = xfer'[t]]
    BY <1>0, <1>6 DEF SendStore
  <2>3. RecordInv(xfer'[t], t \in active')
    BY <1>0, <1>6, Fields
    DEF SendStore, RecordInv, Blank, Directed, Counted, Told, Ended, Underway
  <2> QED
    BY <1>6, <2>1, <2>2, <2>3 DEF SendStore
<1>7. CASE SendStarted(t)
  <2>1. xfer' = [xfer EXCEPT ![t] = xfer'[t]]
    BY <1>0, <1>7 DEF SendStarted
  <2>2. x.send = "starting" /\ active' = active
    BY <1>7 DEF SendStarted
  <2>3. CASE xfer' = [xfer EXCEPT ![t].send = "waiting"]
    <3>1. xfer'[t] = [x EXCEPT !.send = "waiting"]
      BY <1>0, <1>7, <2>3 DEF SendStarted
    <3>2. [x EXCEPT !.send = "waiting"] \in TransferRecord
      BY <1>0, <2>2, Setters, Fields
    <3>3. RecordInv(xfer'[t], t \in active')
      BY <1>0, <2>2, <3>1, Fields
      DEF RecordInv, Blank, Directed, Counted, Told, Ended, Underway
    <3> QED
      BY <1>7, <2>1, <3>1, <3>2, <3>3 DEF SendStarted
  <2>4. CASE xfer' = [xfer EXCEPT ![t].send = "done", ![t].reply = "started"]
    <3>1. xfer'[t] = [x EXCEPT !.send = "done", !.reply = "started"]
      BY <1>0, <1>7, <2>4 DEF SendStarted
    <3>2. [x EXCEPT !.send = "done", !.reply = "started"] \in TransferRecord
      BY <1>0, <2>2, Setters, Fields
    <3>3. RecordInv(xfer'[t], t \in active')
      BY <1>0, <2>2, <3>1, Fields
      DEF RecordInv, Blank, Directed, Counted, Told, Ended, Underway
    <3> QED
      BY <1>7, <2>1, <3>1, <3>2, <3>3 DEF SendStarted
  <2> QED
    BY <1>7, <2>3, <2>4 DEF SendStarted
<1>8. CASE SendReturns(t)
  <2>1. xfer' = [xfer EXCEPT ![t] = xfer'[t]]
    BY <1>0, <1>8 DEF SendReturns
  <2>2. x.send = "waiting" /\ active' = active
    BY <1>8 DEF SendReturns
  <2>3. CASE x.done
    <3>1. xfer'[t] = [x EXCEPT !.send = "done", !.reply = x.status]
      BY <1>0, <1>8, <2>3 DEF SendReturns
    <3>2. [x EXCEPT !.send = "done", !.reply = x.status] \in TransferRecord
      BY <1>0, <2>2, Setters, Fields DEF RecordInv
    <3>3. RecordInv(xfer'[t], t \in active')
      BY <1>0, <2>2, <3>1, Fields
      DEF RecordInv, Blank, Directed, Counted, Told, Ended, Underway
    <3> QED
      BY <1>8, <2>1, <3>1, <3>2, <3>3 DEF SendReturns
  <2>4. CASE ~x.done
    <3>1. xfer'[t] = [x EXCEPT !.send = "done", !.reply = "timeout"]
      BY <1>0, <1>8, <2>4 DEF SendReturns
    <3>2. [x EXCEPT !.send = "done", !.reply = "timeout"] \in TransferRecord
      BY <1>0, <2>2, Setters, Fields
    <3>3. RecordInv(xfer'[t], t \in active')
      BY <1>0, <2>2, <3>1, Fields
      DEF RecordInv, Blank, Directed, Counted, Told, Ended, Underway
    <3> QED
      BY <1>8, <2>1, <3>1, <3>2, <3>3 DEF SendReturns
  <2> QED
    BY <1>8, <2>3, <2>4 DEF SendReturns
<1> QED
  BY <1>1, <1>2, <1>3, <1>4, <1>5, <1>6, <1>7, <1>8

\* What receiving does to a transfer.
LEMMA ReceiveAbout ==
  ASSUME IInv, NEW t \in Transfer,
         \/ OnReceiveStarted(t) \/ ReceiveStartedSent(t) \/ PollerReturns(t)
         \/ OnReceiveConcluded(t) \/ ReceiveConcludedSent(t)
  PROVE  About(t) /\ RecordInv(xfer'[t], t \in active')
<1> DEFINE x == xfer[t]
<1>0. /\ xfer \in [Transfer -> TransferRecord] /\ x \in TransferRecord
      /\ RecordInv(x, t \in active)
  BY DEF IInv, TypeOK, TransferInv
<1> USE DEF About, linkVars
<1>1. CASE OnReceiveStarted(t)
  <2>1. xfer'[t] \in TransferRecord
    BY <1>0, <1>1, Setters, Fields DEF OnReceiveStarted, Ended, Underway
  <2>2. xfer' = [xfer EXCEPT ![t] = xfer'[t]]
    BY <1>0, <1>1 DEF OnReceiveStarted
  <2>3. RecordInv(xfer'[t], t \in active')
    BY <1>0, <1>1, Fields
    DEF OnReceiveStarted, RecordInv, Blank, Directed, Counted, Told, Ended, Underway
  <2> QED
    BY <1>1, <2>1, <2>2, <2>3 DEF OnReceiveStarted
<1>2. CASE ReceiveStartedSent(t)
  <2>1. xfer'[t] \in TransferRecord
    BY <1>0, <1>2, Setters, Fields DEF ReceiveStartedSent, Ended, Underway
  <2>2. xfer' = [xfer EXCEPT ![t] = xfer'[t]]
    BY <1>0, <1>2 DEF ReceiveStartedSent
  <2>3. RecordInv(xfer'[t], t \in active')
    BY <1>0, <1>2, Fields
    DEF ReceiveStartedSent, RecordInv, Blank, Directed, Counted, Told, Ended, Underway
  <2> QED
    BY <1>2, <2>1, <2>2, <2>3 DEF ReceiveStartedSent
<1>3. CASE PollerReturns(t)
  <2>1. xfer'[t] \in TransferRecord
    BY <1>0, <1>3, Setters, Fields DEF PollerReturns, Ended, Underway
  <2>2. xfer' = [xfer EXCEPT ![t] = xfer'[t]]
    BY <1>0, <1>3 DEF PollerReturns
  <2>3. RecordInv(xfer'[t], t \in active')
    BY <1>0, <1>3, Fields
    DEF PollerReturns, RecordInv, Blank, Directed, Counted, Told, Ended, Underway
  <2> QED
    BY <1>3, <2>1, <2>2, <2>3 DEF PollerReturns
<1>4. CASE OnReceiveConcluded(t)
  <2> DEFINE Taken(c, st) ==
               [x EXCEPT !.ending = "sending", !.handle = TRUE, !.poller = PollsOn(t),
                         !.temp = c, !.status = st]
             Good(c, st) == [Taken(c, st) EXCEPT !.successes = x.successes + 1]
             Bad == [Taken("none", "FAILED") EXCEPT !.failures = x.failures + 1]
  <2>1. /\ x.dir = "in" /\ x.ending = "due" /\ x.start # "due"
        /\ active' = active \cup {t}
        /\ PollsOn(t) \in BOOLEAN
    BY <1>0, <1>4, Fields DEF OnReceiveConcluded, PollsOn
  <2>2. /\ x.successes = 0 /\ x.failures \in 0 .. 1
        /\ x.successes + 1 \in 0 .. 1 /\ x.failures + 1 \in 0 .. 2
    BY <1>0, <2>1, Fields DEF RecordInv, Counted, Told
  <2>3. \/ /\ x.res = "COMPLETE"
           /\ \/ xfer' = [xfer EXCEPT ![t] = Good("file", "COMPLETE")]
              \/ xfer' = [xfer EXCEPT ![t] = Good("none", "FAILED")]
        \/ x.res = "FAILED" /\ xfer' = [xfer EXCEPT ![t] = Bad]
    <3>1. CASE x.res = "COMPLETE"
      <4>1. PICK copied \in {"file", "none"} :
              xfer' = [xfer EXCEPT
                         ![t].ending = "sending", ![t].handle = TRUE,
                         ![t].poller = PollsOn(t), ![t].temp = copied,
                         ![t].status = IF copied = "file"
                                       THEN "COMPLETE" ELSE "FAILED",
                         ![t].successes = @ + 1]
        BY <1>4, <3>1 DEF OnReceiveConcluded
      <4>2. CASE copied = "file"
        BY <1>0, <3>1, <4>1, <4>2
      <4>3. CASE copied = "none"
        BY <1>0, <3>1, <4>1, <4>3
      <4> QED
        BY <4>2, <4>3
    <3>2. CASE x.res = "FAILED"
      BY <1>0, <1>4, <3>2 DEF OnReceiveConcluded
    <3> QED
      BY <1>4, <3>1, <3>2 DEF OnReceiveConcluded
  <2>4. \A c \in {"file", "none"}, st \in Ended : Taken(c, st) \in TransferRecord
    BY <1>0, <2>1, Setters
  <2>5. /\ Good("file", "COMPLETE") \in TransferRecord
        /\ Good("none", "FAILED") \in TransferRecord
        /\ Bad \in TransferRecord
    <3> HIDE DEF Taken
    <3> QED
      BY <2>2, <2>4, Setters DEF Ended, Underway
  <2>6. RecordInv(Good("file", "COMPLETE"), TRUE)
    BY <1>0, <2>1, <2>2 DEF RecordInv, Blank, Directed, Counted, Told, Ended, Underway
  <2>7. RecordInv(Good("none", "FAILED"), TRUE)
    BY <1>0, <2>1, <2>2 DEF RecordInv, Blank, Directed, Counted, Told, Ended, Underway
  <2>8. RecordInv(Bad, TRUE)
    BY <1>0, <2>1, <2>2 DEF RecordInv, Blank, Directed, Counted, Told, Ended, Underway
  <2> HIDE DEF Good, Bad
  <2> QED
    BY <1>0, <2>1, <2>3, <2>5, <2>6, <2>7, <2>8
<1>5. CASE ReceiveConcludedSent(t)
  <2>1. xfer'[t] \in TransferRecord
    BY <1>0, <1>5, Setters, Fields DEF ReceiveConcludedSent, Ended, Underway
  <2>2. xfer' = [xfer EXCEPT ![t] = xfer'[t]]
    BY <1>0, <1>5 DEF ReceiveConcludedSent
  <2>3. RecordInv(xfer'[t], t \in active')
    BY <1>0, <1>5, Fields
    DEF ReceiveConcludedSent, RecordInv, Blank, Directed, Counted, Told, Ended, Underway
  <2> QED
    BY <1>5, <2>1, <2>2, <2>3 DEF ReceiveConcludedSent
<1> QED
  BY <1>1, <1>2, <1>3, <1>4, <1>5

\* What its end, its removal and RNS do to a transfer.
LEMMA EndAbout ==
  ASSUME IInv, NEW t \in Transfer,
         \/ OnProgress(t) \/ OnComplete(t) \/ CompletionReported(t)
         \/ Delete(t) \/ SweepFile(t)
         \/ RnsAdvertise(t) \/ RnsWatch(t) \/ RnsBegin(t) \/ RnsConclude(t)
  PROVE  About(t) /\ RecordInv(xfer'[t], t \in active')
<1> DEFINE x == xfer[t]
<1>0. /\ xfer \in [Transfer -> TransferRecord] /\ x \in TransferRecord
      /\ RecordInv(x, t \in active)
  BY DEF IInv, TypeOK, TransferInv
<1> USE DEF About, linkVars
<1>1. CASE OnProgress(t)
  <2>1. xfer'[t] \in TransferRecord
    BY <1>0, <1>1, Setters, Fields DEF OnProgress, Ended, Underway
  <2>2. xfer' = [xfer EXCEPT ![t] = xfer'[t]]
    BY <1>0, <1>1 DEF OnProgress
  <2>3. RecordInv(xfer'[t], t \in active')
    BY <1>0, <1>1, Fields
    DEF OnProgress, RecordInv, Blank, Directed, Counted, Told, Ended, Underway
  <2> QED
    BY <1>1, <2>1, <2>2, <2>3 DEF OnProgress
<1>2. CASE OnComplete(t)
  <2>1. xfer'[t] \in TransferRecord
    BY <1>0, <1>2, Setters, Fields DEF OnComplete, Unlink, Ended, Underway
  <2>2. xfer' = [xfer EXCEPT ![t] = xfer'[t]]
    BY <1>0, <1>2 DEF OnComplete
  <2>3. RecordInv(xfer'[t], t \in active')
    BY <1>0, <1>2, Fields
    DEF OnComplete, Unlink, RecordInv, Blank, Directed, Counted, Told, Ended, Underway
  <2> QED
    BY <1>2, <2>1, <2>2, <2>3 DEF OnComplete
<1>3. CASE CompletionReported(t)
  <2> DEFINE Woken == [x EXCEPT !.ending = "none", !.done = TRUE]
             Good == [Woken EXCEPT !.successes = x.successes + 1]
             Bad == [Woken EXCEPT !.failures = x.failures + 1]
  <2>1. /\ x.ending = "handed" /\ active' = active
        /\ x.send \notin {"created", "assigning"}
    BY <1>3 DEF CompletionReported, LoopFree
  <2>2. /\ x.successes = 0 /\ x.failures \in 0 .. 1
        /\ x.successes + 1 \in 0 .. 1 /\ x.failures + 1 \in 0 .. 2
    BY <1>0, <2>1, Fields DEF RecordInv, Counted, Told
  <2>3. \/ xfer' = [xfer EXCEPT ![t] = Good]
        \/ xfer' = [xfer EXCEPT ![t] = Bad]
    BY <1>0, <1>3, Zenon DEF CompletionReported, TerminalEvent
  <2>4. Good \in TransferRecord /\ Bad \in TransferRecord
    <3>1. Woken \in TransferRecord
      BY <1>0, Setters
    <3> HIDE DEF Woken
    <3> QED
      BY <2>2, <3>1, Setters
  <2>5. RecordInv(Good, t \in active) /\ RecordInv(Bad, t \in active)
    BY <1>0, <2>1, <2>2 DEF RecordInv, Blank, Directed, Counted, Told, Ended, Underway
  <2> HIDE DEF Good, Bad
  <2> QED
    BY <1>0, <2>1, <2>3, <2>4, <2>5
<1>4. CASE Delete(t)
  <2> DEFINE y == CancelResource(x)
             Cancelled == [y EXCEPT !.status = "CANCELLED", !.poller = FALSE, !.temp = "none",
                                    !.upload = Unlink(@, "gone"),
                                    !.done = (x.dir = "out"), !.failures = @ + 1]
             Removed == [x EXCEPT !.temp = "none"]
  <2>1. t \in active /\ active' = active \ {t}
    BY <1>4 DEF Delete
  <2>2. xfer' = [xfer EXCEPT ![t] = IF InFlight(t) THEN Cancelled ELSE Removed]
    BY <1>0, <1>4 DEF Delete
  <2>3. CASE InFlight(t)
    <3>1. /\ y.failures \in 0 .. 1 /\ y.failures + 1 \in 0 .. 2
          /\ Unlink(y.upload, "gone") \in {"none", "gone"}
      BY <1>0, <2>1, <2>3, Fields, CancelledFields
      DEF InFlight, RecordInv, Counted, Unlink
    <3>2. y \in TransferRecord
      BY <1>0, CancelledRecord
    <3>3. Cancelled \in TransferRecord
      <4> HIDE DEF y
      <4> QED
        BY <3>1, <3>2, Setters
    <3>4. RecordInv(Cancelled, t \in active')
      BY <1>0, <2>1, <2>3, <3>1, Fields
      DEF InFlight, CancelResource, Concluded, Unlink, RecordInv, Blank, Directed,
          Counted, Told, Ended, Underway
    <3> HIDE DEF Cancelled
    <3>5. xfer' = [xfer EXCEPT ![t] = Cancelled]
      BY <2>2, <2>3
    <3> QED
      BY <1>0, <2>1, <3>3, <3>4, <3>5
  <2>4. CASE ~InFlight(t)
    <3>1. Removed \in TransferRecord
      BY <1>0, Setters
    <3>2. RecordInv(Removed, t \in active')
      BY <1>0, <2>1, Fields
      DEF RecordInv, Blank, Directed, Counted, Told, Ended, Underway
    <3> HIDE DEF Removed
    <3>3. xfer' = [xfer EXCEPT ![t] = Removed]
      BY <2>2, <2>4
    <3> QED
      BY <1>0, <2>1, <3>1, <3>2, <3>3
  <2> QED
    BY <2>3, <2>4
<1>5. CASE SweepFile(t)
  <2>1. xfer' = [xfer EXCEPT ![t] = xfer'[t]]
    BY <1>0, <1>5 DEF SweepFile
  <2>2. active' = active
    BY <1>5 DEF SweepFile
  <2>3. CASE xfer' = [xfer EXCEPT ![t].temp = "expired"]
    <3>1. xfer'[t] = [x EXCEPT !.temp = "expired"]
      BY <1>0, <1>5, <2>3 DEF SweepFile
    <3>2. [x EXCEPT !.temp = "expired"] \in TransferRecord
      BY <1>0, <2>2, Setters, Fields
    <3>3. RecordInv(xfer'[t], t \in active')
      BY <1>0, <2>2, <3>1, Fields
      DEF RecordInv, Blank, Directed, Counted, Told, Ended, Underway
    <3> QED
      BY <1>5, <2>1, <3>1, <3>2, <3>3 DEF SweepFile
  <2>4. CASE x.upload = "file" /\ xfer' = [xfer EXCEPT ![t].upload = "gone"]
    <3>1. xfer'[t] = [x EXCEPT !.upload = "gone"]
      BY <1>0, <1>5, <2>4 DEF SweepFile
    <3>2. [x EXCEPT !.upload = "gone"] \in TransferRecord
      BY <1>0, <2>2, <2>4, Setters, Fields
    <3>3. RecordInv(xfer'[t], t \in active')
      BY <1>0, <2>2, <2>4, <3>1, Fields
      DEF RecordInv, Blank, Directed, Counted, Told, Ended, Underway
    <3> QED
      BY <1>5, <2>1, <3>1, <3>2, <3>3 DEF SweepFile
  <2> QED
    BY <1>5, <2>3, <2>4 DEF SweepFile
<1>6. CASE RnsAdvertise(t)
  <2>1. x.dir = "none" /\ active' = active
    BY <1>6 DEF RnsAdvertise, Unused
  <2>2. PICK start \in {"none", "due"}, watched \in BOOLEAN :
           xfer' = [xfer EXCEPT ![t].dir = "in", ![t].res = "TRANSFERRING",
                                ![t].start = start, ![t].watched = watched]
    BY <1>6, Zenon DEF RnsAdvertise
  <2> DEFINE y == [x EXCEPT !.dir = "in", !.res = "TRANSFERRING",
                            !.start = start, !.watched = watched]
  <2>3. xfer' = [xfer EXCEPT ![t] = y] /\ xfer'[t] = y
    BY <1>0, <2>2
  <2>4. y \in TransferRecord
    BY <1>0, Setters DEF Underway
  <2>5. RecordInv(y, t \in active)
    BY <1>0, <2>1, Fields
    DEF RecordInv, Blank, Directed, Counted, Told, Ended, Underway
  <2> HIDE DEF y
  <2> QED
    BY <2>1, <2>3, <2>4, <2>5
<1>7. CASE RnsConclude(t)
  <2>1. x.res \in Underway /\ active' = active
    BY <1>7 DEF RnsConclude
  <2>2. PICK r \in Ended : xfer' = [xfer EXCEPT ![t] = Concluded(@, r)]
    BY <1>7 DEF RnsConclude
  <2>3. xfer' = [xfer EXCEPT ![t] = Concluded(x, r)] /\ xfer'[t] = Concluded(x, r)
    BY <1>0, <2>2
  <2>4. Concluded(x, r) \in TransferRecord
    BY <1>0, ConcludedRecord
  <2>5. RecordInv(Concluded(x, r), t \in active)
    BY <1>0, <2>1, Fields
    DEF Concluded, RecordInv, Blank, Directed, Counted, Told, Ended, Underway
  <2> QED
    BY <2>1, <2>3, <2>4, <2>5
<1>8. CASE RnsWatch(t)
  <2>1. xfer'[t] \in TransferRecord
    BY <1>0, <1>8, Setters DEF RnsWatch
  <2>2. xfer' = [xfer EXCEPT ![t] = xfer'[t]]
    BY <1>0, <1>8 DEF RnsWatch
  <2>3. RecordInv(xfer'[t], t \in active')
    BY <1>0, <1>8, Fields
    DEF RnsWatch, RecordInv, Blank, Directed, Counted, Told, Ended, Underway
  <2> QED
    BY <1>8, <2>1, <2>2, <2>3 DEF RnsWatch
<1>9. CASE RnsBegin(t)
  <2>1. xfer'[t] \in TransferRecord
    BY <1>0, <1>9, Setters DEF RnsBegin, Underway
  <2>2. xfer' = [xfer EXCEPT ![t] = xfer'[t]]
    BY <1>0, <1>9 DEF RnsBegin
  <2>3. RecordInv(xfer'[t], t \in active')
    BY <1>0, <1>9, Fields
    DEF RnsBegin, RecordInv, Blank, Directed, Counted, Told, Ended, Underway
  <2> QED
    BY <1>9, <2>1, <2>2, <2>3 DEF RnsBegin
<1> QED
  BY <1>1, <1>2, <1>3, <1>4, <1>5, <1>6, <1>7, <1>8, <1>9

-----------------------------------------------------------------------------
\* A step about one transfer.
TransferStep(t) ==
    LoopStep(t) \/ Client(t) \/ Rns(t) \/ OnComplete(t) \/ SweepFile(t)

\* A step that is about no transfer.
LinkStep ==
    \/ SlotChanges \/ CreateLink \/ AttachLink \/ SetCallback \/ SetPolicy
    \/ RnsLinkChanges \/ StrayCloses \/ LetGo

LEMMA StepAbout ==
  ASSUME IInv, NEW t \in Transfer, TransferStep(t)
  PROVE  About(t) /\ RecordInv(xfer'[t], t \in active')
  BY SendAbout, ReceiveAbout, EndAbout
  DEF TransferStep, LoopStep, Client, Rns

LEMMA StepKeepsLink ==
  ASSUME NEW t \in Transfer, TransferStep(t)
  PROVE  UNCHANGED <<sessionState, reachable, slot, linkUp, stray, policy, strategy>>
<1> USE DEF linkVars
<1>1. CASE LoopStep(t)
  BY <1>1 DEF LoopStep, SendAssign, SendStore, SendStarted, SendReturns,
     CompletionReported, OnReceiveStarted, ReceiveStartedSent, PollerReturns,
     OnReceiveConcluded, ReceiveConcludedSent
<1>2. CASE Client(t)
  BY <1>2 DEF Client, Upload, Send, SendRefused, SendOpenFails, Delete
<1>3. CASE Rns(t)
  BY <1>3 DEF Rns, RnsAdvertise, RnsWatch, RnsBegin, RnsConclude, OnProgress
<1>4. CASE OnComplete(t) \/ SweepFile(t)
  BY <1>4 DEF OnComplete, SweepFile
<1> QED
  BY <1>1, <1>2, <1>3, <1>4 DEF TransferStep

\* The hook makes of x what this says, if active_transfers holds it.
CleanedUp(x) ==
    [CancelResource(x) EXCEPT !.handle = FALSE, !.poller = FALSE, !.temp = "none",
                              !.upload = Unlink(@, "gone")]

LEMMA CleanupKeepsRecord ==
  ASSUME NEW x \in TransferRecord, NEW t, RecordInv(x, t \in active)
  PROVE  /\ CleanedUp(x) \in TransferRecord
         /\ RecordInv(CleanedUp(x), t \in {})
         /\ t \notin active => RecordInv(x, t \in {})
<1>1. Unlink(CancelResource(x).upload, "gone") \in {"none", "gone"}
  BY DEF Unlink
<1>2. CancelResource(x) \in TransferRecord
  BY CancelledRecord
<1>3. CleanedUp(x) \in TransferRecord
  BY <1>1, <1>2, Setters DEF CleanedUp
<1>4. RecordInv(CleanedUp(x), t \in {})
  BY Fields DEF CleanedUp, CancelResource, Concluded, Unlink, RecordInv, Blank,
     Directed, Counted, Told, Ended, Underway
<1>5. ASSUME t \notin active PROVE RecordInv(x, t \in {})
  BY <1>5 DEF RecordInv, Blank, Counted
<1> QED
  BY <1>3, <1>4, <1>5

LEMMA EndKeepsInv ==
  ASSUME IInv, EndSession
  PROVE  IInv'
<1>0. xfer \in [Transfer -> TransferRecord] /\ active \subseteq Transfer
  BY DEF IInv, TypeOK
<1>1. xfer' = [t \in Transfer |-> IF t \in active THEN CleanedUp(xfer[t]) ELSE xfer[t]]
  BY <1>0 DEF EndSession, CleanedUp
<1>2. active' = {}
  BY DEF EndSession
<1>3. ASSUME NEW t \in Transfer
      PROVE  xfer'[t] \in TransferRecord /\ RecordInv(xfer'[t], t \in active')
  <2>1. RecordInv(xfer[t], t \in active) /\ xfer[t] \in TransferRecord
    BY <1>0 DEF IInv, TransferInv
  <2>2. /\ CleanedUp(xfer[t]) \in TransferRecord
        /\ RecordInv(CleanedUp(xfer[t]), t \in {})
        /\ t \notin active => RecordInv(xfer[t], t \in {})
    BY <2>1, CleanupKeepsRecord
  <2>3. CASE t \in active
    BY <1>1, <1>2, <2>2, <2>3
  <2>4. CASE t \notin active
    BY <1>1, <1>2, <2>1, <2>2, <2>4
  <2> QED
    BY <2>3, <2>4
<1>4. xfer' \in [Transfer -> TransferRecord] /\ \A t \in Transfer : TransferInv(t)'
  BY <1>1, <1>3 DEF TransferInv
<1>5. TypeOK' /\ StrategyInv' /\ PolicyIsObeyed'
  BY <1>4 DEF EndSession, IInv, TypeOK, StrategyInv, PolicyIsObeyed, Accepting, Wiring
<1> QED
  BY <1>4, <1>5 DEF IInv

LEMMA LinkStepKeepsInv ==
  ASSUME IInv, LinkStep
  PROVE  IInv'
<1>1. active' = active /\ xfer' = xfer
  BY DEF LinkStep, SlotChanges, CreateLink, AttachLink, SetCallback, SetPolicy,
     RnsLinkChanges, StrayCloses, LetGo
<1>2. \A t \in Transfer : TransferInv(t)'
  BY <1>1 DEF IInv, TransferInv
<1>3. TypeOK' /\ StrategyInv' /\ PolicyIsObeyed'
  <2> USE ConstantsAssumption
      DEF IInv, TypeOK, StrategyInv, PolicyIsObeyed, Strategy, Wiring, Accepting
  <2>1. CASE SlotChanges
    BY <2>1 DEF SlotChanges, LosesPlace
  <2>2. CASE CreateLink
    BY <2>2 DEF CreateLink, LosesPlace
  <2>3. CASE AttachLink
    BY <2>3 DEF AttachLink
  <2>4. CASE SetPolicy
    BY <2>4 DEF SetPolicy, LoopFree
  <2>5. CASE RnsLinkChanges
    BY <2>5 DEF RnsLinkChanges
  <2>6. CASE SetCallback
    BY <2>6 DEF SetCallback
  <2>7. CASE StrayCloses
    BY <2>7 DEF StrayCloses
  <2>8. CASE LetGo
    BY <2>8 DEF LetGo
  <2> QED
    BY <2>1, <2>2, <2>3, <2>4, <2>5, <2>6, <2>7, <2>8 DEF LinkStep
<1> QED
  BY <1>2, <1>3 DEF IInv

LEMMA InitInv == Init => IInv
<1> SUFFICES ASSUME Init PROVE IInv
  OBVIOUS
<1> DEFINE x == [dir |-> "none", status |-> "none", res |-> "none", handle |-> FALSE,
                 seen |-> "none", watched |-> FALSE,
                 start |-> "none", ending |-> "none",
                 poller |-> FALSE, temp |-> "none", upload |-> "none",
                 send |-> "idle", reply |-> "none", done |-> FALSE,
                 started |-> FALSE, successes |-> 0, failures |-> 0]
<1>1. x \in TransferRecord
  BY DEF TransferRecord
<1>2. \A t \in Transfer : RecordInv(x, t \in {})
  BY DEF RecordInv, Blank, Directed, Counted, Told, Ended, Underway
<1>3. xfer = [t \in Transfer |-> x] /\ active = {}
  BY DEF Init
<1> HIDE DEF x
<1>4. TypeOK
  BY <1>1, <1>3 DEF Init, TypeOK
<1>5. \A t \in Transfer : TransferInv(t)
  BY <1>2, <1>3 DEF TransferInv
<1> QED
  BY <1>4, <1>5 DEF Init, IInv, StrategyInv, PolicyIsObeyed, Accepting

LEMMA NextInv == IInv /\ [Next]_vars => IInv'
<1> SUFFICES ASSUME IInv, [Next]_vars PROVE IInv'
  OBVIOUS
<1>1. ASSUME NEW t \in Transfer, TransferStep(t)
      PROVE  IInv'
  <2>1. About(t) /\ RecordInv(xfer'[t], t \in active')
    BY <1>1, StepAbout
  <2>2. /\ active' \subseteq Transfer
        /\ xfer' \in [Transfer -> TransferRecord]
        /\ \A u \in Transfer : TransferInv(u)'
    BY <2>1, OthersAlone DEF About
  <2> QED
    BY <1>1, <2>2, StepKeepsLink DEF IInv, TypeOK, StrategyInv, PolicyIsObeyed
<1>2. CASE UNCHANGED vars
  <2>1. \A t \in Transfer : TransferInv(t)'
    BY <1>2 DEF vars, IInv, TransferInv
  <2> QED
    BY <1>2, <2>1 DEF vars, IInv, TypeOK, StrategyInv, PolicyIsObeyed
<1> QED
  BY <1>1, <1>2, EndKeepsInv, LinkStepKeepsInv DEF Next, TransferStep, LinkStep

LEMMA Invariance == Spec => []IInv
<1> QED
  BY InitInv, NextInv, PTL DEF Spec

-----------------------------------------------------------------------------
\* Every variable keeps its type; in particular no transfer reports more than
\* one success and two failures, one of them by its deletion.
THEOREM TypeCorrect == Spec => []TypeOK
<1>1. IInv => TypeOK
  BY DEF IInv
<1> QED
  BY <1>1, Invariance, PTL

\* No upload outlives its transfer (_on_complete, cancel, cleanup_session).
THEOREM UploadsGo == Spec => []UploadsAreRemoved
<1>1. IInv => UploadsAreRemoved
  BY DEF IInv, TransferInv, RecordInv, UploadsAreRemoved
<1> QED
  BY <1>1, Invariance, PTL

\* resource.sent never overtakes resource.started (send, _on_complete).
THEOREM StartIsToldFirst == Spec => []StartedComesFirst
<1>1. IInv => StartedComesFirst
  BY DEF IInv, TransferInv, RecordInv, StartedComesFirst
<1> QED
  BY <1>1, Invariance, PTL

\* A received transfer listed as COMPLETE has its file until the sweep takes
\* it (_on_receive_concluded, delete).
THEOREM CompleteIsDownloadable == Spec => []AnnouncedIsDownloadable
<1>1. IInv => AnnouncedIsDownloadable
  BY DEF IInv, TypeOK, TransferInv, RecordInv, AnnouncedIsDownloadable
<1> QED
  BY <1>1, Invariance, PTL

\* A link obeys the last policy for its destination (set_link_policy,
\* attach_link).
THEOREM PolicyHolds == Spec => []PolicyIsObeyed
<1>1. IInv => PolicyIsObeyed
  BY DEF IInv
<1> QED
  BY <1>1, Invariance, PTL

-----------------------------------------------------------------------------
(***************************************************************************)
(* The transfers of a session implement SessionLife.                       *)
(***************************************************************************)

\* A link accepts resources, or is about to.
Linked == slot \in {"created"} \cup Accepting \/ stray

Held == Linked \/ \E t \in Transfer : Incoming(t)

\* What a step may do to the session.
Ages ==
    \/ sessionState = "live" /\ sessionState' = "live"
    \/ /\ sessionState = "live" /\ sessionState' = "ended"
       /\ reachable' => reachable
       /\ Held' => Held
       /\ active' = {}
    \/ /\ sessionState = "ended" /\ sessionState' = "ended"
       /\ reachable' => reachable
       /\ Held' => Held \/ reachable
       /\ active' # {} => active # {} \/ Held \/ reachable

\* Only a link makes a resource come in, and only a client who can reach the
\* session, or a resource that is coming in, puts a transfer into
\* active_transfers.
LEMMA StepWinds ==
  ASSUME IInv, NEW t \in Transfer, TransferStep(t)
  PROVE  /\ Incoming(t)' => Incoming(t) \/ Linked
         /\ t \in active' => t \in active \/ Incoming(t) \/ reachable
<1> DEFINE x == xfer[t]
<1>0. xfer \in [Transfer -> TransferRecord] /\ x \in TransferRecord /\ Directed(x)
  BY DEF IInv, TypeOK, TransferInv, RecordInv
<1> USE DEF Incoming
<1>1. CASE Upload(t)
  BY <1>0, <1>1 DEF Upload, Directed
<1>2. CASE Send(t)
  BY <1>0, <1>2 DEF Send, Directed
<1>3. CASE SendRefused(t)
  BY <1>0, <1>3 DEF SendRefused, Directed
<1>4. CASE SendOpenFails(t)
  BY <1>0, <1>4 DEF SendOpenFails, Directed
<1>5. CASE SendAssign(t)
  BY <1>0, <1>5 DEF SendAssign, Directed
<1>6. CASE SendStore(t)
  BY <1>0, <1>6 DEF SendStore, Directed
<1>7. CASE SendStarted(t)
  <2>1. CASE xfer' = [xfer EXCEPT ![t].send = "waiting"]
    BY <1>0, <1>7, <2>1 DEF SendStarted
  <2>2. CASE xfer' = [xfer EXCEPT ![t].send = "done", ![t].reply = "started"]
    BY <1>0, <1>7, <2>2 DEF SendStarted
  <2> QED
    BY <1>7, <2>1, <2>2 DEF SendStarted
<1>8. CASE SendReturns(t)
  <2>1. CASE xfer' = [xfer EXCEPT ![t].send = "done", ![t].reply = xfer[t].status]
    BY <1>0, <1>8, <2>1 DEF SendReturns
  <2>2. CASE xfer' = [xfer EXCEPT ![t].send = "done", ![t].reply = "timeout"]
    BY <1>0, <1>8, <2>2 DEF SendReturns
  <2> QED
    BY <1>8, <2>1, <2>2 DEF SendReturns
<1>9. CASE OnReceiveStarted(t)
  BY <1>0, <1>9 DEF OnReceiveStarted, Directed
<1>10. CASE ReceiveStartedSent(t)
  BY <1>0, <1>10 DEF ReceiveStartedSent, Directed
<1>11. CASE PollerReturns(t)
  BY <1>0, <1>11 DEF PollerReturns, Directed
<1>12. CASE OnReceiveConcluded(t)
  BY <1>0, <1>12 DEF OnReceiveConcluded, Directed
<1>13. CASE ReceiveConcludedSent(t)
  BY <1>0, <1>13 DEF ReceiveConcludedSent, Directed
<1>14. CASE OnProgress(t)
  BY <1>0, <1>14 DEF OnProgress, Directed
<1>15. CASE OnComplete(t)
  BY <1>0, <1>15 DEF OnComplete, Directed
<1>16. CASE CompletionReported(t)
  <2>1. active' = active /\ x.dir = "out" /\ x.ending = "handed"
    BY <1>0, <1>16 DEF CompletionReported, Directed
  <2>2. xfer'[t].dir = "out"
    BY <1>0, <1>16, <2>1 DEF CompletionReported, TerminalEvent
  <2> QED
    BY <2>1, <2>2
<1>17. CASE Delete(t)
  <2>1. CASE InFlight(t)
    <3> DEFINE c == CancelResource(x)
    <3>1. /\ active' = active \ {t}
          /\ xfer'[t] = [c EXCEPT !.status = "CANCELLED", !.poller = FALSE,
                                  !.temp = "none", !.upload = Unlink(@, "gone"),
                                  !.done = (x.dir = "out"), !.failures = @ + 1]
      BY <1>0, <1>17, <2>1 DEF Delete
    <3>2. /\ c \in TransferRecord
          /\ c.dir = x.dir
          /\ c # x => x.res \in Underway
      BY <1>0, CancelledRecord, CancelledFields
    <3> HIDE DEF c
    <3>3. Incoming(t)' => c.dir = "in" /\ (c = x => Incoming(t))
      BY <3>1, <3>2 DEF TransferRecord
    <3> QED
      BY <1>0, <3>1, <3>2, <3>3 DEF Directed, Underway
  <2>2. CASE ~InFlight(t)
    BY <1>0, <1>17, <2>2 DEF Delete
  <2> QED
    BY <2>1, <2>2
<1>18. CASE SweepFile(t)
  <2>1. CASE xfer' = [xfer EXCEPT ![t].temp = "expired"]
    BY <1>0, <1>18, <2>1 DEF SweepFile
  <2>2. CASE xfer' = [xfer EXCEPT ![t].upload = "gone"]
    BY <1>0, <1>18, <2>2 DEF SweepFile
  <2> QED
    BY <1>18, <2>1, <2>2 DEF SweepFile
<1>19. CASE RnsAdvertise(t)
  BY <1>0, <1>19 DEF RnsAdvertise, Linked
<1>20. CASE RnsWatch(t)
  BY <1>0, <1>20 DEF RnsWatch, Directed
<1>21. CASE RnsBegin(t)
  BY <1>0, <1>21 DEF RnsBegin, Directed
<1>22. CASE RnsConclude(t)
  <2>1. PICK r \in Ended : xfer' = [xfer EXCEPT ![t] = Concluded(@, r)]
    BY <1>22 DEF RnsConclude
  <2>2. xfer'[t] = Concluded(x, r) /\ active' = active /\ x.res \in Underway
    BY <1>0, <1>22, <2>1 DEF RnsConclude
  <2>3. xfer'[t].dir = x.dir /\ xfer'[t].start = x.start /\ xfer'[t].res = r
    BY <1>0, <2>2 DEF Concluded, TransferRecord
  <2> QED
    BY <1>0, <2>2, <2>3 DEF Directed, Underway, Ended
<1> QED
  BY <1>1, <1>2, <1>3, <1>4, <1>5, <1>6, <1>7, <1>8, <1>9, <1>10, <1>11,
     <1>12, <1>13, <1>14, <1>15, <1>16, <1>17, <1>18, <1>19, <1>20, <1>21, <1>22
  DEF TransferStep, LoopStep, Client, Rns

LEMMA LinkStepAges ==
  ASSUME IInv, LinkStep
  PROVE  /\ UNCHANGED <<sessionState, active, xfer>>
         /\ sessionState = "ended" => (reachable' => reachable)
         /\ Linked' => Linked \/ reachable
<1> USE DEF Linked
<1>1. CASE SlotChanges
  BY <1>1 DEF SlotChanges, LosesPlace, IInv, StrategyInv, Accepting
<1>2. CASE CreateLink
  BY <1>2 DEF CreateLink
<1>3. CASE AttachLink
  BY <1>3 DEF AttachLink
<1>4. CASE SetCallback
  BY <1>4 DEF SetCallback, Accepting
<1>5. CASE SetPolicy
  BY <1>5 DEF SetPolicy
<1>6. CASE RnsLinkChanges
  BY <1>6 DEF RnsLinkChanges
<1>7. CASE StrayCloses
  BY <1>7 DEF StrayCloses
<1>8. CASE LetGo
  BY <1>8 DEF LetGo
<1> QED
  BY <1>1, <1>2, <1>3, <1>4, <1>5, <1>6, <1>7, <1>8 DEF LinkStep

LEMMA NextAges ==
  ASSUME IInv, [Next]_vars
  PROVE  Ages
<1>0. sessionState \in {"live", "ended"} /\ xfer \in [Transfer -> TransferRecord]
  BY DEF IInv, TypeOK
<1>1. ASSUME NEW t \in Transfer, TransferStep(t)
      PROVE  Ages
  <2>1. About(t) /\ UNCHANGED <<sessionState, reachable>> /\ (Linked' <=> Linked)
    BY <1>1, StepAbout, StepKeepsLink DEF Linked
  <2>2. CASE sessionState = "ended"
    <3>1. /\ Incoming(t)' => Incoming(t) \/ Linked
          /\ t \in active' => t \in active \/ Incoming(t) \/ reachable
      BY <1>1, StepWinds
    <3>2. \A u \in Transfer \ {t} : xfer'[u] = xfer[u]
      BY <1>0, <2>1 DEF About
    <3>3. \A u \in Transfer : Incoming(u)' => Held
      BY <3>1, <3>2 DEF Incoming, Held
    <3>4. \A u \in active' : u \in active \/ Held \/ reachable
      BY <2>1, <3>1 DEF About, Held
    <3> QED
      BY <2>1, <2>2, <3>3, <3>4 DEF Ages, Held
  <2> QED
    BY <1>0, <2>1, <2>2 DEF Ages
<1>2. CASE EndSession
  <2>1. \A t \in Transfer : Incoming(t)' => Incoming(t)
    <3> SUFFICES ASSUME NEW t \in Transfer, Incoming(t)'
                 PROVE  Incoming(t)
      OBVIOUS
    <3>0. xfer[t] \in TransferRecord
      BY <1>0
    <3>1. CASE t \in active
      <4>1. xfer'[t] = CleanedUp(xfer[t])
        BY <1>2, <3>1 DEF EndSession, CleanedUp
      <4> DEFINE c == CancelResource(xfer[t])
      <4>2. /\ c \in TransferRecord
            /\ c.dir = xfer[t].dir
            /\ c # xfer[t] => xfer[t].res \in Underway
            /\ Directed(xfer[t])
        BY <3>0, CancelledRecord, CancelledFields DEF IInv, TransferInv, RecordInv
      <4>3. xfer'[t] = [c EXCEPT !.handle = FALSE, !.poller = FALSE, !.temp = "none",
                                 !.upload = Unlink(@, "gone")]
        BY <4>1 DEF CleanedUp
      <4> HIDE DEF c
      <4>4. c.dir = "in" /\ (c = xfer[t] => Incoming(t))
        BY <4>2, <4>3 DEF Incoming, TransferRecord
      <4> QED
        BY <4>2, <4>4 DEF Directed, Underway, Incoming
    <3>2. CASE t \notin active
      BY <1>2, <3>2 DEF EndSession, Incoming
    <3> QED
      BY <3>1, <3>2
  <2>2. Linked' => Linked
    BY <1>2 DEF EndSession, Linked, Accepting
  <2> QED
    BY <1>2, <2>1, <2>2 DEF EndSession, Ages, Held
<1>3. CASE LinkStep \/ UNCHANGED vars
  <2>1. /\ UNCHANGED <<sessionState, active, xfer>>
        /\ sessionState = "ended" => (reachable' => reachable)
        /\ Linked' => Linked \/ reachable
    BY <1>3, LinkStepAges DEF vars, Linked
  <2>2. Held' => Held \/ reachable
    BY <2>1 DEF Held, Incoming
  <2> QED
    BY <1>0, <2>1, <2>2 DEF Ages
<1> QED
  BY <1>1, <1>2, <1>3 DEF Next, TransferStep, LinkStep

\* The hook empties active_transfers, and afterwards only who still has the
\* session adds to it: a handler or connection that has not ended, a link, the
\* end of a resource that was coming in (cleanup_session, send,
\* _on_receive_started, _on_receive_concluded).
THEOREM TransfersImplementLife == Spec => TransfersWindDown
<1>1. Init => Life!Init
  BY DEF Init, Life!Init
<1>2. IInv /\ [Next]_vars => [Life!Next]_(Life!vars)
  <2> SUFFICES ASSUME IInv, [Next]_vars
               PROVE  [Life!Next]_(Life!vars)
    OBVIOUS
  <2>1. Ages
    BY NextAges
  <2> QED
    BY <2>1
    DEF Ages, Held, Linked, Life!Next, Life!vars, Life!Serve, Life!End, Life!WindDown
<1> QED
  BY Invariance, <1>1, <1>2, PTL DEF Spec, TransfersWindDown, Life!Spec
=============================================================================
