--------------------------- MODULE ShipmentProofs ---------------------------
(***************************************************************************)
(* Every transfer implements Shipment, for every set of transfers.         *)
(***************************************************************************)
EXTENDS TransfersProofs, Integers

(***************************************************************************)
(* The invariant of one transfer x beyond RecordInv.  A success is told    *)
(* exactly when the end is; of the failures one is the end's, and at most  *)
(* one that of a deletion, which comes only while x is listed (Booked).    *)
(* What is listed and under way can be cancelled: the handle of the        *)
(* resource is there, but in the gap behind the constructor, in which no   *)
(* deletion runs (Cancellable).                                            *)
(***************************************************************************)
Cancels(x) == x.failures - EndTold(x, "FAILED")

Moving == {"PENDING", "TRANSFERRING"}
Gap == {"created", "assigning"}

Booked(x, here) ==
    /\ x.successes = EndTold(x, "COMPLETE")
    /\ Cancels(x) \in 0 .. 1
    /\ here /\ (x.dir = "out" \/ x.status \in Moving) => Cancels(x) = 0

Cancellable(x, here) ==
    /\ here /\ x.res \in Underway => x.handle \/ x.send \in Gap
    /\ x.send = "assigning" /\ x.res \in Underway => x.handle

\* How far send and _on_receive_started have come.
Staged(x) ==
    /\ x.dir = "out" => x.send # "idle"
    /\ x.send \in Gap \cup {"starting", "waiting"} => x.res # "none"
    /\ x.send \in Gap => ~Told(x)
    /\ x.start # "none" => x.res # "none"
    /\ x.started => x.start \in {"sending", "done"} \/ x.send \in {"starting", "waiting", "done"}

ShipInv(x, here) == Booked(x, here) /\ Cancellable(x, here) /\ Staged(x)

SInv == IInv /\ \A t \in Transfer : ShipInv(xfer[t], t \in active)

-----------------------------------------------------------------------------
Ships(t) == [Shipped(t)!Next]_(Shipped(t)!vars)

\* x is shown as under way.
Shows(x) == x.status \in Moving

\* It stays so from x to y, if it is, unless y tells the start.
Kept(x, y) ==
    Shows(x) /\ Cargo(y) = "TRANSFERRING" => Shows(y) \/ y.started # x.started

LEMMA Shipping ==
  ASSUME NEW t \in Transfer, Kept(xfer[t], xfer'[t]),
         \/ Shipped(t)!Upload \/ Shipped(t)!Depart \/ Shipped(t)!Refuse
         \/ Shipped(t)!Arrive \/ Shipped(t)!Start \/ Shipped(t)!Conclude
         \/ Shipped(t)!Report \/ Shipped(t)!Cancel \/ Shipped(t)!Remove
         \/ Shipped(t)!Forget \/ Shipped(t)!Discard \/ Shipped(t)!Relabel
  PROVE  Ships(t)
<1>1. InFlight(t) <=> Shows(xfer[t])
  BY DEF InFlight, Shows, Moving
<1>2. InFlight(t)' <=> Shows(xfer'[t])
  BY DEF InFlight, Shows, Moving
<1>3. Shipped(t)!Next
  BY <1>1, <1>2 DEF Kept, Shipped!Next
<1> QED
  BY <1>3 DEF Ships

\* The record of t goes from x to y without the session noticing.
Alike(x, y) ==
    /\ Kept(x, y)
    /\ y.dir = x.dir /\ Cargo(y) = Cargo(x) /\ y.started = x.started
    /\ y.upload = x.upload /\ y.successes = x.successes /\ y.failures = x.failures
    /\ EndTold(y, "FAILED") = EndTold(x, "FAILED")

\* Reports depend on three numbers.
LEMMA SameReports ==
  ASSUME NEW x, NEW y, y.successes = x.successes, y.failures = x.failures,
         EndTold(y, "FAILED") = EndTold(x, "FAILED")
  PROVE  Reports(y) = Reports(x)
  BY DEF Reports

LEMMA Unnoticed ==
  ASSUME NEW t \in Transfer, Alike(xfer[t], xfer'[t]),
         t \in active' <=> t \in active
  PROVE  Ships(t)
<1>1. Reports(xfer'[t]) = Reports(xfer[t])
  BY SameReports DEF Alike
<1>2. (t \in active') = (t \in active)
  OBVIOUS
<1>3. Shipped(t)!Relabel
  BY <1>1, <1>2 DEF Alike, Shipped!Relabel
<1> QED
  BY <1>3, Shipping DEF Alike

\* What is known of a transfer.
LEMMA Known ==
  ASSUME SInv, NEW t \in Transfer
  PROVE  /\ xfer \in [Transfer -> TransferRecord] /\ xfer[t] \in TransferRecord
         /\ RecordInv(xfer[t], t \in active) /\ ShipInv(xfer[t], t \in active)
  BY DEF SInv, IInv, TypeOK, TransferInv

\* The steps of send that nobody notices.
LEMMA SendQuiet ==
  ASSUME SInv, NEW t \in Transfer,
         SendAssign(t) \/ SendStarted(t) \/ SendReturns(t)
  PROVE  ShipInv(xfer'[t], t \in active') /\ Ships(t)
<1> DEFINE x == xfer[t]
           y == xfer'[t]
<1>0. /\ xfer \in [Transfer -> TransferRecord] /\ x \in TransferRecord
      /\ RecordInv(x, t \in active) /\ ShipInv(x, t \in active)
  BY Known
<1>1. /\ active' = active
      /\ y.dir = x.dir /\ y.res = x.res /\ y.ending = x.ending /\ y.start = x.start
      /\ y.started = x.started /\ y.upload = x.upload /\ y.status = x.status
      /\ y.successes = x.successes /\ y.failures = x.failures
  BY <1>0 DEF SendAssign, SendStarted, SendReturns, TransferRecord
<1>2. \/ x.send = "created" /\ y.send = "assigning" /\ y.handle = TRUE /\ y.seen = x.res
      \/ /\ x.send \in {"starting", "waiting"} /\ y.send \in {"waiting", "done"}
         /\ y.handle = x.handle
  BY <1>0 DEF SendAssign, SendStarted, SendReturns, TransferRecord
<1>3. Cargo(y) = Cargo(x)
  BY <1>0, <1>1, <1>2 DEF Cargo, ShipInv, Staged, Gap
<1>4. EndTold(y, "FAILED") = EndTold(x, "FAILED") /\ EndTold(y, "COMPLETE") = EndTold(x, "COMPLETE")
  BY <1>1 DEF EndTold
<1>5. Told(y) <=> Told(x)
  BY <1>1 DEF Told
<1> HIDE DEF x, y
<1>6. ShipInv(y, t \in active')
  BY <1>0, <1>1, <1>2, <1>4, <1>5 DEF ShipInv, Booked, Cancels, Cancellable, Staged, Gap
<1>7. Alike(x, y)
  BY <1>1, <1>3, <1>4 DEF Alike, Kept, Shows
<1> QED
  BY <1>1, <1>6, <1>7, Unnoticed DEF x, y

\* An upload begins, a resource departs, or is refused.
LEMMA SendBegins ==
  ASSUME SInv, NEW t \in Transfer,
         Upload(t) \/ Send(t) \/ SendRefused(t) \/ SendOpenFails(t)
  PROVE  ShipInv(xfer'[t], t \in active') /\ Ships(t)
<1> DEFINE x == xfer[t]
           y == xfer'[t]
<1>0. /\ xfer \in [Transfer -> TransferRecord] /\ x \in TransferRecord
      /\ RecordInv(x, t \in active) /\ ShipInv(x, t \in active)
  BY Known
<1>1. /\ x.dir = "none" \/ x.send = "uploading"
      /\ t \notin active /\ x.res = "none" /\ x.ending = "none" /\ x.start = "none"
      /\ x.successes = 0 /\ x.failures = 0
      /\ x.dir \in {"none", "out"} /\ x.send \in {"idle", "uploading"} /\ ~x.started
      /\ x.upload \in {"none", "file", "gone"}
  BY <1>0, Fields DEF Upload, Send, SendRefused, SendOpenFails, Unused, RecordInv, Blank,
     Directed, ShipInv, Staged, TransferRecord
<1>2. /\ y.dir = "out" /\ y.ending = x.ending /\ y.start = x.start
      /\ y.started = x.started /\ y.successes = x.successes /\ y.failures = x.failures
  BY <1>0 DEF Upload, Send, SendRefused, SendOpenFails, TransferRecord, Unused,
     RecordInv, Directed
<1>3. Cargo(x) = "none"
  BY <1>1 DEF Cargo
<1>4. Reports(y) = Reports(x)
  <2>1. y.res \in {"none", "FRESH"}
    BY <1>0, <1>1 DEF Upload, Send, SendRefused, SendOpenFails, TransferRecord
  <2>2. EndTold(y, "FAILED") = EndTold(x, "FAILED")
    BY <1>1, <2>1 DEF EndTold
  <2> QED
    BY <1>2, <2>2, SameReports
<1>5. CASE Upload(t)
  <2>1. /\ x.dir = "none" /\ active' = active /\ y.res = "none" /\ y.send = "uploading"
        /\ y.upload = "file"
    BY <1>0, <1>1, <1>5 DEF Upload, TransferRecord, Unused
  <2> HIDE DEF x, y
  <2>2. ShipInv(y, t \in active')
    BY <1>1, <1>2, <2>1 DEF ShipInv, Booked, Cancels, EndTold, Cancellable, Staged, Gap, Told,
       Ended
  <2>3. Cargo(y) = "none"
    BY <2>1 DEF Cargo
  <2>4. Shipped(t)!Upload
    BY <1>2, <1>3, <1>4, <2>1, <2>3 DEF Shipped!Upload, x, y
  <2>5. Kept(x, y)
    BY <2>3 DEF Kept
  <2> QED
    BY <2>2, <2>4, <2>5, Shipping DEF x, y
<1>6. CASE Send(t)
  <2>1. /\ active' = active \cup {t} /\ y.res = "FRESH" /\ y.send = "created"
        /\ y.status = "PENDING" /\ y.upload = x.upload
    BY <1>0, <1>6 DEF Send, TransferRecord
  <2> HIDE DEF x, y
  <2>2. ShipInv(y, t \in active')
    BY <1>1, <1>2, <2>1 DEF ShipInv, Booked, Cancels, EndTold, Cancellable, Staged, Gap, Told,
       Ended, Moving
  <2>3. Cargo(y) = "TRANSFERRING"
    BY <2>1 DEF Cargo
  <2>4. InFlight(t)' = TRUE
    BY <2>1 DEF InFlight, y
  <2>5. Shipped(t)!Depart
    BY <1>1, <1>2, <1>3, <1>4, <2>1, <2>3, <2>4 DEF Shipped!Depart, x, y
  <2>6. Kept(x, y)
    BY <2>1 DEF Kept, Shows, Moving
  <2> QED
    BY <2>2, <2>5, <2>6, Shipping DEF x, y
<1>7. CASE SendRefused(t) \/ SendOpenFails(t)
  <2>1. /\ y.res = "none" /\ y.send = "done"
        /\ \/ active' = active /\ y.upload = Unlink(x.upload, "gone")
           \/ active' = active \cup {t} /\ y.upload = x.upload
    <3>1. CASE SendRefused(t)
      BY <1>0, <1>1, <3>1 DEF SendRefused, TransferRecord
    <3>2. CASE SendOpenFails(t)
      BY <1>0, <1>1, <3>2 DEF SendOpenFails, TransferRecord
    <3> QED
      BY <1>7, <3>1, <3>2
  <2> HIDE DEF x, y
  <2>2. ShipInv(y, t \in active')
    BY <1>1, <1>2, <2>1 DEF ShipInv, Booked, Cancels, EndTold, Cancellable, Staged, Gap, Told,
       Ended, Moving, Underway
  <2>3. Cargo(y) = "refused"
    BY <2>1 DEF Cargo
  <2>4. Shipped(t)!Refuse
    BY <1>1, <1>2, <1>3, <1>4, <2>1, <2>3 DEF Shipped!Refuse, Shipped!Cleared, Unlink, x, y
  <2>5. Kept(x, y)
    BY <2>3 DEF Kept
  <2> QED
    BY <2>2, <2>4, <2>5, Shipping DEF x, y
<1> QED
  BY <1>5, <1>6, <1>7

\* resource.started of a resource that is sent.
LEMMA SendStarts ==
  ASSUME SInv, NEW t \in Transfer, SendStore(t)
  PROVE  ShipInv(xfer'[t], t \in active') /\ Ships(t)
<1> DEFINE x == xfer[t]
           y == xfer'[t]
<1>0. /\ xfer \in [Transfer -> TransferRecord] /\ x \in TransferRecord
      /\ RecordInv(x, t \in active) /\ ShipInv(x, t \in active)
  BY Known
<1>1. /\ active' = active
      /\ y.dir = x.dir /\ y.res = x.res /\ y.ending = x.ending /\ y.start = x.start
      /\ y.upload = x.upload /\ y.successes = x.successes /\ y.failures = x.failures
      /\ y.handle = x.handle /\ y.started = TRUE /\ y.status = x.seen
      /\ x.send = "assigning" /\ y.send = "starting"
  BY <1>0 DEF SendStore, TransferRecord
<1>2. /\ x.dir = "out" /\ ~x.started /\ x.res \in Underway \cup Ended
      /\ ~Told(x)
  BY <1>0, <1>1, Fields DEF RecordInv, Directed, ShipInv, Staged, Gap, TransferRecord
<1>3. EndTold(y, "FAILED") = EndTold(x, "FAILED") /\ EndTold(y, "COMPLETE") = EndTold(x, "COMPLETE")
  BY <1>1 DEF EndTold
<1>4. x.successes = 0 /\ EndTold(x, "FAILED") = 0
  BY <1>0, <1>2 DEF RecordInv, Counted, EndTold, Told, Ended
<1> HIDE DEF x, y
<1>5. ShipInv(y, t \in active')
  BY <1>0, <1>1, <1>2, <1>3 DEF ShipInv, Booked, Cancels, Cancellable, Staged, Gap, Told, Moving
<1>6. Reports(y) = Reports(x) /\ \A k \in Ended : Reports(x)[k] = 0
  BY <1>1, <1>3, <1>4, SameReports DEF Reports, Ended
<1>7. Cargo(y) = Cargo(x) /\ Cargo(x) \in {"TRANSFERRING"} \cup Ended
  BY <1>1, <1>2 DEF Cargo, Underway, Ended
<1>8. Shipped(t)!Start
  BY <1>1, <1>2, <1>6, <1>7 DEF Shipped!Start, Shipped!Final, Ended, x, y
<1>9. Kept(x, y)
  BY <1>1, <1>2 DEF Kept
<1> QED
  BY <1>5, <1>8, <1>9, Shipping DEF x, y

\* Progress, the poller, and what follows after an event was sent.
LEMMA MoveQuiet ==
  ASSUME SInv, NEW t \in Transfer,
         \/ OnProgress(t) \/ ReceiveStartedSent(t) \/ PollerReturns(t)
         \/ ReceiveConcludedSent(t) \/ RnsWatch(t)
  PROVE  ShipInv(xfer'[t], t \in active') /\ Ships(t)
<1> DEFINE x == xfer[t]
           y == xfer'[t]
<1>0. /\ xfer \in [Transfer -> TransferRecord] /\ x \in TransferRecord
      /\ RecordInv(x, t \in active) /\ ShipInv(x, t \in active)
  BY Known
<1>1. /\ active' = active
      /\ y.dir = x.dir /\ y.res = x.res /\ y.started = x.started /\ y.upload = x.upload
      /\ y.successes = x.successes /\ y.failures = x.failures
      /\ y.send = x.send /\ y.seen = x.seen
  BY <1>0 DEF OnProgress, ReceiveStartedSent, PollerReturns, ReceiveConcludedSent,
     RnsWatch, TransferRecord
<1>2. \/ y.ending = x.ending /\ y.handle = x.handle
      \/ x.ending = "sending" /\ y.ending = "none"
  BY <1>0 DEF OnProgress, ReceiveStartedSent, PollerReturns, ReceiveConcludedSent,
     RnsWatch, TransferRecord
<1>3. /\ y.status = x.status \/ (x.dir = "out" /\ y.status = "TRANSFERRING")
      /\ y.start = x.start \/ (x.start = "sending" /\ y.start = "done")
  BY <1>0 DEF OnProgress, ReceiveStartedSent, PollerReturns, ReceiveConcludedSent,
     RnsWatch, TransferRecord
<1>4. x.ending = "sending" => x.res \in Ended /\ x.dir = "in"
  BY <1>0 DEF RecordInv, Directed
<1>5. /\ EndTold(y, "FAILED") = EndTold(x, "FAILED")
      /\ EndTold(y, "COMPLETE") = EndTold(x, "COMPLETE")
      /\ Told(y) <=> Told(x)
  BY <1>1, <1>2 DEF EndTold, Told
<1> HIDE DEF x, y
<1>6. Booked(y, t \in active')
  BY <1>0, <1>1, <1>3, <1>5 DEF ShipInv, Booked, Cancels
<1>7. Cancellable(y, t \in active')
  BY <1>0, <1>1, <1>2, <1>4 DEF ShipInv, Cancellable, Ended, Underway
<1>8. Staged(y)
  BY <1>0, <1>1, <1>3, <1>5 DEF ShipInv, Staged
<1>9. Alike(x, y)
  BY <1>1, <1>3, <1>5 DEF Alike, Cargo, Kept, Shows, Moving
<1> QED
  BY <1>1, <1>6, <1>7, <1>8, <1>9, Unnoticed DEF ShipInv, x, y

\* The resource begins to move: the session has been told so already.
LEMMA Begins ==
  ASSUME SInv, NEW t \in Transfer, RnsBegin(t)
  PROVE  ShipInv(xfer'[t], t \in active') /\ Ships(t)
<1> DEFINE x == xfer[t]
           y == xfer'[t]
<1>0. /\ xfer \in [Transfer -> TransferRecord] /\ x \in TransferRecord
      /\ RecordInv(x, t \in active) /\ ShipInv(x, t \in active)
  BY Known
<1>1. /\ active' = active
      /\ y.dir = x.dir /\ y.started = x.started /\ y.upload = x.upload
      /\ y.successes = x.successes /\ y.failures = x.failures
      /\ y.send = x.send /\ y.status = x.status /\ y.handle = x.handle
      /\ y.start = x.start /\ x.res = "FRESH" /\ y.res = "TRANSFERRING"
  BY <1>0 DEF RnsBegin, TransferRecord
<1> HIDE DEF x, y
<1>2. /\ EndTold(y, "FAILED") = EndTold(x, "FAILED")
      /\ EndTold(y, "COMPLETE") = EndTold(x, "COMPLETE")
      /\ ~Told(y) /\ ~Told(x)
  BY <1>1 DEF EndTold, Told, Ended
<1>3. ShipInv(y, t \in active')
  BY <1>0, <1>1, <1>2
  DEF ShipInv, Booked, Cancels, Cancellable, Staged, Underway
<1>4. Alike(x, y)
  BY <1>1, <1>2 DEF Alike, Cargo, Kept, Shows
<1> QED
  BY <1>1, <1>3, <1>4, Unnoticed DEF x, y

\* The upload goes: RNS is done with it, or it is too old.
LEMMA Discards ==
  ASSUME SInv, NEW t \in Transfer, OnComplete(t) \/ SweepFile(t)
  PROVE  ShipInv(xfer'[t], t \in active') /\ Ships(t)
<1> DEFINE x == xfer[t]
           y == xfer'[t]
<1>0. /\ xfer \in [Transfer -> TransferRecord] /\ x \in TransferRecord
      /\ RecordInv(x, t \in active) /\ ShipInv(x, t \in active)
  BY Known
<1>1. /\ active' = active
      /\ y.dir = x.dir /\ y.res = x.res /\ y.started = x.started
      /\ y.successes = x.successes /\ y.failures = x.failures
      /\ y.send = x.send /\ y.seen = x.seen /\ y.start = x.start
  BY <1>0 DEF OnComplete, SweepFile, TransferRecord
<1>2. \/ y.ending = x.ending /\ y.handle = x.handle /\ y.status = x.status
      \/ x.dir = "out" /\ x.ending = "due" /\ y.ending = "handed"
  BY <1>0 DEF OnComplete, SweepFile, TransferRecord
<1>3. \/ y.upload = x.upload
      \/ x.upload = "file" /\ y.upload = "gone" /\ (x.send # "uploading" \/ x.ending = "due")
  BY <1>0, Fields DEF OnComplete, SweepFile, Unlink, TransferRecord
<1>4. x.ending = "due" => x.res \in Ended
  BY <1>0 DEF RecordInv, Directed
<1>5. /\ EndTold(y, "FAILED") = EndTold(x, "FAILED")
      /\ EndTold(y, "COMPLETE") = EndTold(x, "COMPLETE")
      /\ Told(y) <=> Told(x)
  BY <1>1, <1>2 DEF EndTold, Told
<1>6. x.send \in {"idle", "uploading"} \cup Gap \cup {"starting", "waiting", "done"}
  BY <1>0 DEF TransferRecord, Gap
<1> HIDE DEF x, y
<1>7. Booked(y, t \in active')
  BY <1>0, <1>1, <1>2, <1>5 DEF ShipInv, Booked, Cancels
<1>8. Cancellable(y, t \in active')
  BY <1>0, <1>1, <1>2, <1>4 DEF ShipInv, Cancellable, Ended, Underway
<1>9. Staged(y)
  BY <1>0, <1>1, <1>5 DEF ShipInv, Staged
<1>12. Kept(x, y)
  BY <1>1, <1>2, <1>4 DEF Kept, Shows, Cargo, Ended
<1>10. CASE y.upload = x.upload
  <2>1. Alike(x, y)
    BY <1>1, <1>5, <1>10, <1>12 DEF Alike, Cargo
  <2> QED
    BY <1>1, <1>7, <1>8, <1>9, <2>1, Unnoticed DEF ShipInv, x, y
<1>11. CASE y.upload # x.upload
  <2>1. x.dir = "out"
    BY <1>0, <1>3, <1>11 DEF RecordInv, Directed
  <2>2. Cargo(x) # "none" /\ Cargo(y) = Cargo(x)
    BY <1>0, <1>1, <1>3, <1>4, <1>6, <1>11, <2>1 DEF Cargo, ShipInv, Staged, Ended
  <2>3. Reports(y) = Reports(x)
    BY <1>1, <1>5, SameReports
  <2>4. Shipped(t)!Discard
    BY <1>1, <1>3, <1>11, <2>2, <2>3 DEF Shipped!Discard, x, y
  <2> QED
    BY <1>7, <1>8, <1>9, <1>12, <2>4, Shipping DEF ShipInv, x, y
<1> QED
  BY <1>10, <1>11

\* The first report of the end, x to y: one report more, of what it was.
LEMMA OneMore ==
  ASSUME NEW x, NEW y, x.successes = 0, x.failures \in Int,
         EndTold(x, "FAILED") = 0, EndTold(x, "COMPLETE") = 0,
         \/ /\ x.res = "COMPLETE" /\ y.successes = 1 /\ y.failures = x.failures
            /\ EndTold(y, "FAILED") = 0
         \/ /\ x.res = "FAILED" /\ y.successes = 0 /\ y.failures = x.failures + 1
            /\ EndTold(y, "FAILED") = 1
  PROVE  /\ Reports(y) = [Reports(x) EXCEPT ![x.res] = @ + 1]
         /\ \A k \in Ended : Reports(x)[k] = 0
<1> DEFINE c == x.failures - EndTold(x, "FAILED")
<1>1. Reports(x) = [k \in Ended \cup {"CANCELLED"} |-> IF k = "CANCELLED" THEN c ELSE 0]
  BY DEF Reports, Ended
<1>2. y.failures - EndTold(y, "FAILED") = c
  <2>1. (x.failures + 1) - 1 = x.failures - 0
    OBVIOUS
  <2> QED
    BY <2>1
<1> HIDE DEF c
<1>3. Reports(y) = [k \in Ended \cup {"CANCELLED"} |->
                      IF k = "CANCELLED" THEN c ELSE IF k = x.res THEN 1 ELSE 0]
  <2>1. CASE x.res = "COMPLETE"
    BY <1>2, <2>1 DEF Reports, Ended
  <2>2. CASE x.res = "FAILED"
    BY <1>2, <2>2 DEF Reports, Ended
  <2> QED
    BY <2>1, <2>2
<1>4. x.res \in Ended
  BY DEF Ended
<1> QED
  BY <1>1, <1>3, <1>4 DEF Ended

\* A resource comes in.
LEMMA Arrives ==
  ASSUME SInv, NEW t \in Transfer, RnsAdvertise(t)
  PROVE  ShipInv(xfer'[t], t \in active') /\ Ships(t)
<1> DEFINE x == xfer[t]
           y == xfer'[t]
<1>0. /\ xfer \in [Transfer -> TransferRecord] /\ x \in TransferRecord
      /\ RecordInv(x, t \in active) /\ ShipInv(x, t \in active)
  BY Known
<1>1. /\ x.dir = "none" /\ t \notin active /\ active' = active
      /\ x.res = "none" /\ x.ending = "none" /\ x.successes = 0 /\ x.failures = 0
  BY <1>0 DEF RnsAdvertise, Unused, RecordInv, Blank
<1>2. x.send = "idle" /\ ~x.started
  BY <1>0, <1>1 DEF RecordInv, Directed, Blank, ShipInv, Staged, TransferRecord
<1>3. /\ y.dir = "in" /\ y.res = "TRANSFERRING" /\ y.started = x.started
      /\ y.ending = x.ending /\ y.send = x.send /\ y.upload = x.upload
      /\ y.successes = x.successes /\ y.failures = x.failures /\ y.status = x.status
  BY <1>0 DEF RnsAdvertise, TransferRecord
<1> HIDE DEF x, y
<1>4. ShipInv(y, t \in active')
  BY <1>1, <1>2, <1>3
  DEF ShipInv, Booked, Cancels, EndTold, Cancellable, Staged, Gap, Told, Ended
<1>5. EndTold(y, "FAILED") = EndTold(x, "FAILED")
  BY <1>1, <1>3 DEF EndTold
<1>6. Reports(y) = Reports(x)
  BY <1>3, <1>5, SameReports
<1>7. Cargo(y) = "TRANSFERRING"
  BY <1>3 DEF Cargo
<1>8. Shipped(t)!Arrive
  BY <1>1, <1>3, <1>6, <1>7 DEF Shipped!Arrive, x, y
<1>9. Kept(x, y)
  BY <1>3 DEF Kept, Shows
<1> QED
  BY <1>4, <1>8, <1>9, Shipping DEF x, y

\* resource.started of a resource that comes in.
LEMMA ReceiveStarts ==
  ASSUME SInv, NEW t \in Transfer, OnReceiveStarted(t)
  PROVE  ShipInv(xfer'[t], t \in active') /\ Ships(t)
<1> DEFINE x == xfer[t]
           y == xfer'[t]
<1>0. /\ xfer \in [Transfer -> TransferRecord] /\ x \in TransferRecord
      /\ RecordInv(x, t \in active) /\ ShipInv(x, t \in active)
  BY Known
<1>1. /\ active' = active \cup {t}
      /\ y.dir = x.dir /\ y.res = x.res /\ y.ending = x.ending /\ y.send = x.send
      /\ y.upload = x.upload /\ y.successes = x.successes /\ y.failures = x.failures
      /\ y.handle = TRUE /\ y.started = TRUE /\ y.status = x.res
      /\ x.start = "due" /\ y.start = "sending"
  BY <1>0 DEF OnReceiveStarted, TransferRecord
<1>2. /\ x.dir = "in" /\ x.send = "idle" /\ x.res \in {"TRANSFERRING"} \cup Ended
      /\ x.failures = 0 /\ ~Told(x) /\ t \notin active
  BY <1>0, <1>1, Fields DEF RecordInv, Directed, Counted, ShipInv, Staged, Underway,
     TransferRecord
<1>3. x.successes = 0 /\ EndTold(x, "FAILED") = 0
  BY <1>0, <1>2 DEF RecordInv, Counted, EndTold, Told, Ended
<1>4. ~x.started
  BY <1>0, <1>1, <1>2 DEF ShipInv, Staged
<1> HIDE DEF x, y
<1>5. EndTold(y, "FAILED") = EndTold(x, "FAILED") /\ EndTold(y, "COMPLETE") = EndTold(x, "COMPLETE")
  BY <1>1 DEF EndTold
<1>6. Cancels(y) = 0
  BY <1>1, <1>2, <1>3, <1>5 DEF Cancels
<1>7. ShipInv(y, t \in active')
  BY <1>0, <1>1, <1>2, <1>3, <1>5, <1>6
     DEF ShipInv, Booked, Cancellable, Staged, Gap, Told, Moving, Ended
<1>8. Reports(y) = Reports(x) /\ \A k \in Ended \cup {"CANCELLED"} : Reports(x)[k] = 0
  <2>1. x.failures - EndTold(x, "FAILED") = 0
    BY <1>2, <1>3
  <2> QED
    BY <1>1, <1>3, <1>5, <2>1, SameReports DEF Reports, Ended
<1>9. Cargo(y) = x.res /\ Cargo(x) = x.res
  BY <1>1, <1>2 DEF Cargo, Ended
<1>10. InFlight(t)' <=> x.res = "TRANSFERRING"
  BY <1>1, <1>2 DEF InFlight, Ended, y
<1>11. Shipped(t)!Start
  BY <1>1, <1>2, <1>4, <1>8, <1>9, <1>10 DEF Shipped!Start, Shipped!Final, Ended, x, y
<1>12. Kept(x, y)
  BY <1>1, <1>4 DEF Kept
<1> QED
  BY <1>7, <1>11, <1>12, Shipping DEF x, y

\* RNS concludes the resource.
LEMMA Concludes ==
  ASSUME SInv, NEW t \in Transfer, RnsConclude(t)
  PROVE  ShipInv(xfer'[t], t \in active') /\ Ships(t)
<1> DEFINE x == xfer[t]
           y == xfer'[t]
<1>0. /\ xfer \in [Transfer -> TransferRecord] /\ x \in TransferRecord
      /\ RecordInv(x, t \in active) /\ ShipInv(x, t \in active)
  BY Known
<1>1. /\ active' = active
      /\ y.dir = x.dir /\ y.started = x.started /\ y.upload = x.upload
      /\ y.successes = x.successes /\ y.failures = x.failures /\ y.status = x.status
      /\ y.send = x.send /\ y.start = x.start /\ y.seen = x.seen
      /\ x.res \in Underway /\ y.res \in Ended /\ y.ending \in {"due", "lost"}
  <2>1. PICK r \in Ended : xfer' = [xfer EXCEPT ![t] = Concluded(@, r)]
    BY DEF RnsConclude
  <2>2. y = Concluded(x, r) /\ active' = active /\ x.res \in Underway
    BY <1>0, <2>1 DEF RnsConclude
  <2> QED
    BY <1>0, <2>2 DEF Concluded, TransferRecord
<1> HIDE DEF x, y
<1>2. /\ EndTold(y, "FAILED") = EndTold(x, "FAILED")
      /\ EndTold(y, "COMPLETE") = EndTold(x, "COMPLETE")
  BY <1>1 DEF EndTold, Underway
<1>3. ShipInv(y, t \in active')
  BY <1>0, <1>1, <1>2
     DEF ShipInv, Booked, Cancels, Cancellable, Staged, Gap, Told, Ended, Underway
<1>4. Cargo(x) = "TRANSFERRING" /\ Cargo(y) \in Ended
  BY <1>1 DEF Cargo, Ended, Underway
<1>5. Reports(y) = Reports(x)
  BY <1>1, <1>2, SameReports
<1>6. Shipped(t)!Conclude
  BY <1>1, <1>4, <1>5 DEF Shipped!Conclude, Shipped!Final, Ended, x, y
<1>7. Kept(x, y)
  BY <1>4 DEF Kept, Ended
<1> QED
  BY <1>3, <1>6, <1>7, Shipping DEF x, y

\* The end is told, of a resource that was sent or received.
LEMMA Reported ==
  ASSUME SInv, NEW t \in Transfer, CompletionReported(t) \/ OnReceiveConcluded(t)
  PROVE  ShipInv(xfer'[t], t \in active') /\ Ships(t)
<1> DEFINE x == xfer[t]
           y == xfer'[t]
<1>0. /\ xfer \in [Transfer -> TransferRecord] /\ x \in TransferRecord
      /\ RecordInv(x, t \in active) /\ ShipInv(x, t \in active)
  BY Known
<1>1. /\ y.dir = x.dir /\ y.res = x.res /\ y.started = x.started /\ y.upload = x.upload
      /\ y.send = x.send /\ y.start = x.start /\ x.send \notin Gap
      /\ \/ /\ x.dir = "in" /\ active' = active \cup {t} /\ y.status \in Ended
            /\ x.ending = "due" /\ y.ending = "sending"
         \/ /\ x.ending = "handed" /\ active' = active /\ y.status = x.status
            /\ y.ending = "none"
  <2>1. CASE CompletionReported(t)
    BY <1>0, <2>1 DEF CompletionReported, TerminalEvent, TransferRecord, LoopFree, Gap
  <2>2. CASE OnReceiveConcluded(t)
    <3>1. /\ x.dir = "in" /\ active' = active \cup {t} /\ x.send \notin Gap
          /\ x.ending = "due"
      BY <2>2 DEF OnReceiveConcluded, LoopFree, Gap
    <3>2. y.status \in Ended /\ y.ending = "sending" /\ y.dir = x.dir /\ y.res = x.res
      BY <1>0, <2>2 DEF OnReceiveConcluded, TransferRecord, Ended
    <3>3. /\ y.started = x.started /\ y.upload = x.upload
          /\ y.send = x.send /\ y.start = x.start
      BY <1>0, <2>2 DEF OnReceiveConcluded, TransferRecord
    <3> QED
      BY <3>1, <3>2, <3>3
  <2> QED
    BY <2>1, <2>2
<1>2. /\ x.res \in Ended /\ ~Told(x) /\ x.successes = 0 /\ x.failures \in 0 .. 1
      /\ x.ending = "handed" => x.dir = "out"
      /\ x.dir = "out" => x.started /\ x.upload # "file"
  BY <1>0, <1>1, Fields DEF RecordInv, Directed, Counted, Told, Gap, Ended
<1>3. /\ x.res = "COMPLETE" => y.successes = 1 /\ y.failures = x.failures
      /\ x.res = "FAILED" => y.successes = 0 /\ y.failures = x.failures + 1
  <2>1. CASE CompletionReported(t)
    <3>1. /\ x.res = "COMPLETE" => y.successes = x.successes + 1 /\ y.failures = x.failures
          /\ x.res = "FAILED" => y.successes = x.successes /\ y.failures = x.failures + 1
      BY <1>0, <2>1 DEF CompletionReported, TerminalEvent, TransferRecord
    <3> QED
      BY <1>2, <3>1
  <2>2. CASE OnReceiveConcluded(t)
    <3>1. /\ x.res = "COMPLETE" => y.successes = x.successes + 1 /\ y.failures = x.failures
          /\ x.res = "FAILED" => y.successes = x.successes /\ y.failures = x.failures + 1
      BY <1>0, <2>2 DEF OnReceiveConcluded, TransferRecord
    <3> QED
      BY <1>2, <3>1
  <2> QED
    BY <2>1, <2>2
<1> HIDE DEF x, y
<1>4. /\ EndTold(x, "FAILED") = 0 /\ EndTold(x, "COMPLETE") = 0
      /\ EndTold(y, "FAILED") = IF x.res = "FAILED" THEN 1 ELSE 0
      /\ EndTold(y, "COMPLETE") = IF x.res = "COMPLETE" THEN 1 ELSE 0
  BY <1>1, <1>2 DEF EndTold, Told
<1>5. Cancels(x) = x.failures /\ Cancels(y) = Cancels(x)
  <2>1. x.failures - 0 = x.failures /\ (x.failures + 1) - 1 = x.failures
    BY <1>2
  <2> QED
    BY <1>2, <1>3, <1>4, <2>1 DEF Cancels, Ended
<1>6. ShipInv(y, t \in active')
  BY <1>0, <1>1, <1>2, <1>3, <1>4, <1>5
     DEF ShipInv, Booked, Cancellable, Staged, Gap, Moving, Ended, Underway
<1>7. /\ Reports(y) = [Reports(x) EXCEPT ![x.res] = @ + 1]
      /\ \A k \in Ended : Reports(x)[k] = 0
  <2>1. x.failures \in Int
    BY <1>2
  <2> QED
    BY <1>2, <1>3, <1>4, <2>1, OneMore DEF Ended
<1>8. Cargo(x) = x.res /\ Cargo(y) = x.res
  BY <1>1, <1>2 DEF Cargo, Ended
<1>9. Shipped(t)!Report
  BY <1>1, <1>2, <1>7, <1>8 DEF Shipped!Report, Shipped!Final, Ended, x, y
<1>10. Kept(x, y)
  BY <1>2, <1>8 DEF Kept, Ended
<1> QED
  BY <1>6, <1>9, <1>10, Shipping DEF x, y

\* What leaves the list is stopped: the handle is there when the loop is free.
LEMMA Stops ==
  ASSUME NEW x \in TransferRecord, Cancellable(x, TRUE), x.send \notin Gap
  PROVE  /\ CancelResource(x).res = IF x.res \in Underway THEN "FAILED" ELSE x.res
         /\ IF x.res \in Underway THEN CancelResource(x).ending \in {"due", "lost"}
            ELSE CancelResource(x).ending = x.ending
         /\ CancelResource(x) \in TransferRecord
         /\ \A f \in {"dir", "status", "seen", "start", "poller", "temp", "upload", "send",
                      "reply", "done", "started", "successes", "failures", "handle"} :
               CancelResource(x)[f] = x[f]
<1>1. CASE x.handle /\ x.res \in Underway
  <2>1. CancelResource(x) = Concluded(x, "FAILED")
    BY <1>1 DEF CancelResource
  <2>2. Concluded(x, "FAILED") \in TransferRecord
    BY ConcludedRecord DEF Ended
  <2> QED
    BY <1>1, <2>1, <2>2 DEF Concluded, TransferRecord
<1>2. CASE x.res \notin Underway
  BY <1>2 DEF CancelResource
<1> QED
  BY <1>1, <1>2 DEF Cancellable

\* A transfer is taken off the list, from x to y, by a deletion that cancels
\* it or by the end of the session.
LEMMA Leaves ==
  ASSUME SInv, NEW t \in Transfer, t \in active, t \notin active', LoopFree,
         xfer'[t].dir = xfer[t].dir, xfer'[t].start = xfer[t].start,
         xfer'[t].started = xfer[t].started, xfer'[t].send = xfer[t].send,
         xfer'[t].successes = xfer[t].successes,
         xfer'[t].res = IF xfer[t].res \in Underway THEN "FAILED" ELSE xfer[t].res,
         IF xfer[t].res \in Underway THEN xfer'[t].ending \in {"due", "lost"}
         ELSE xfer'[t].ending = xfer[t].ending,
         xfer'[t].upload = Unlink(xfer[t].upload, "gone"),
         \/ InFlight(t) /\ xfer'[t].failures = xfer[t].failures + 1
         \/ xfer'[t].failures = xfer[t].failures
  PROVE  ShipInv(xfer'[t], t \in active') /\ Ships(t)
<1> DEFINE x == xfer[t]
           y == xfer'[t]
<1>0. /\ x \in TransferRecord /\ RecordInv(x, t \in active) /\ ShipInv(x, t \in active)
  BY Known
<1>1. x.send \notin Gap /\ x.failures \in Int
  BY <1>0, Fields DEF LoopFree, Gap
<1> HIDE DEF x, y
<1>2. /\ EndTold(y, "FAILED") = EndTold(x, "FAILED")
      /\ EndTold(y, "COMPLETE") = EndTold(x, "COMPLETE")
  BY DEF EndTold, Underway, x, y
<1>3. EndTold(x, "FAILED") \in Int
  BY DEF EndTold
<1>4. Cargo(y) = IF Cargo(x) = "TRANSFERRING" THEN "FAILED" ELSE Cargo(x)
  BY DEF Cargo, Underway, x, y
<1>7. Kept(x, y)
  BY <1>4 DEF Kept
<1>8. Told(x) <=> Told(y)
  BY DEF Told, Underway, Ended, x, y
<1>5. CASE InFlight(t) /\ y.failures = x.failures + 1
  <2>1. Cancels(x) = 0
    BY <1>0, <1>5 DEF ShipInv, Booked, InFlight, Moving, x
  <2>2. Cancels(y) = 1
    <3>1. x.failures - EndTold(x, "FAILED") = 0
      BY <2>1 DEF Cancels
    <3>2. (x.failures + 1) - EndTold(x, "FAILED") = 1
      BY ONLY <1>1, <1>3, <3>1
    <3> QED
      BY <1>2, <1>5, <3>2 DEF Cancels
  <2>3. ShipInv(y, t \in active')
    BY <1>0, <1>1, <1>2, <1>8, <2>2
    DEF ShipInv, Booked, Cancellable, Staged, Gap, Underway, x, y
  <2>4. Reports(x)["CANCELLED"] = 0 /\ Reports(y) = [Reports(x) EXCEPT !["CANCELLED"] = @ + 1]
    <3>1. /\ x.failures - EndTold(x, "FAILED") = 0 /\ y.failures - EndTold(y, "FAILED") = 1
          /\ y.successes = x.successes
      BY <2>1, <2>2 DEF Cancels, x, y
    <3>2. Reports(x) = [k \in Ended \cup {"CANCELLED"} |->
                          CASE k = "COMPLETE" -> x.successes
                            [] k = "FAILED" -> EndTold(x, "FAILED")
                            [] k = "CANCELLED" -> 0]
      BY <3>1 DEF Reports, Ended
    <3>3. Reports(y) = [k \in Ended \cup {"CANCELLED"} |->
                          CASE k = "COMPLETE" -> x.successes
                            [] k = "FAILED" -> EndTold(x, "FAILED")
                            [] k = "CANCELLED" -> 1]
      BY <1>2, <3>1 DEF Reports, Ended
    <3> QED
      BY <3>2, <3>3 DEF Ended
  <2>5. Shipped(t)!Cancel
    BY <1>4, <1>5, <2>4 DEF Shipped!Cancel, Shipped!Leave, Shipped!Cleared, Unlink, x, y
  <2> QED
    BY <1>7, <2>3, <2>5, Shipping DEF x, y
<1>6. CASE y.failures = x.failures
  <2>1. Cancels(y) = Cancels(x)
    BY <1>2, <1>6 DEF Cancels
  <2>2. ShipInv(y, t \in active')
    BY <1>0, <1>1, <1>2, <1>8, <2>1
    DEF ShipInv, Booked, Cancellable, Staged, Gap, Underway, x, y
  <2>3. Reports(y) = Reports(x)
    BY <1>2, <1>6, SameReports DEF x, y
  <2>4. Shipped(t)!Remove
    BY <1>4, <1>6, <2>3 DEF Shipped!Remove, Shipped!Leave, Shipped!Cleared, Unlink, x, y
  <2> QED
    BY <1>7, <2>2, <2>4, Shipping DEF x, y
<1> QED
  BY <1>5, <1>6 DEF x, y

LEMMA Deletes ==
  ASSUME SInv, NEW t \in Transfer, Delete(t)
  PROVE  ShipInv(xfer'[t], t \in active') /\ Ships(t)
<1> DEFINE x == xfer[t]
           y == xfer'[t]
           z == CancelResource(x)
<1>0. /\ xfer \in [Transfer -> TransferRecord] /\ x \in TransferRecord
      /\ ShipInv(x, t \in active) /\ t \in active /\ t \notin active' /\ LoopFree
  BY Known DEF Delete
<1>1. Cancellable(x, TRUE) /\ x.send \notin Gap
  BY <1>0 DEF ShipInv, LoopFree, Gap, Cancellable
<1>2. CASE InFlight(t)
  <2>1. y = [z EXCEPT !.status = "CANCELLED", !.poller = FALSE, !.temp = "none",
                      !.upload = Unlink(z.upload, "gone"), !.done = (x.dir = "out"),
                      !.failures = z.failures + 1]
    BY <1>0, <1>2 DEF Delete
  <2>2. /\ z \in TransferRecord
        /\ z.res = IF x.res \in Underway THEN "FAILED" ELSE x.res
        /\ IF x.res \in Underway THEN z.ending \in {"due", "lost"} ELSE z.ending = x.ending
        /\ z.dir = x.dir /\ z.start = x.start /\ z.started = x.started /\ z.send = x.send
        /\ z.successes = x.successes /\ z.failures = x.failures /\ z.upload = x.upload
    <3> HIDE DEF x
    <3> QED
      BY <1>0, <1>1, Stops
  <2> HIDE DEF z
  <2>3. /\ y.dir = z.dir /\ y.start = z.start /\ y.started = z.started /\ y.send = z.send
        /\ y.successes = z.successes /\ y.failures = z.failures + 1 /\ y.res = z.res
        /\ y.ending = z.ending /\ y.upload = Unlink(z.upload, "gone")
    BY <2>1, <2>2 DEF TransferRecord
  <2> QED
    BY <1>0, <1>2, <2>2, <2>3, Leaves
<1>3. CASE ~InFlight(t)
  <2>2. y = [x EXCEPT !.temp = "none"]
    BY <1>0, <1>3 DEF Delete
  <2>3. /\ y.dir = x.dir /\ y.start = x.start /\ y.started = x.started /\ y.send = x.send
        /\ y.successes = x.successes /\ y.failures = x.failures /\ y.res = x.res
        /\ y.ending = x.ending /\ y.upload = x.upload /\ y.status = x.status
    BY <1>0, <2>2 DEF TransferRecord
  <2> HIDE DEF x, y
  <2>4. /\ EndTold(y, "FAILED") = EndTold(x, "FAILED")
        /\ EndTold(y, "COMPLETE") = EndTold(x, "COMPLETE")
        /\ Told(x) <=> Told(y)
    BY <2>3 DEF EndTold, Told
  <2>5. ShipInv(y, t \in active')
    BY <1>0, <1>1, <2>3, <2>4
    DEF ShipInv, Booked, Cancels, Cancellable, Staged, Gap
  <2>6. Reports(y) = Reports(x) /\ Cargo(y) = Cargo(x)
    BY <2>3, <2>4, SameReports DEF Cargo
  <2>7. Shipped(t)!Forget
    BY <1>0, <1>3, <2>3, <2>6 DEF Shipped!Forget, x, y
  <2>8. Kept(x, y)
    BY <2>3 DEF Kept, Shows
  <2> QED
    BY <2>5, <2>7, <2>8, Shipping DEF x, y
<1> QED
  BY <1>2, <1>3

\* The end of the session takes all transfers off the list.
LEMMA EndShips ==
  ASSUME SInv, NEW t \in Transfer, EndSession
  PROVE  ShipInv(xfer'[t], t \in active') /\ Ships(t)
<1> DEFINE x == xfer[t]
           y == xfer'[t]
           z == CancelResource(x)
<1>0. /\ xfer \in [Transfer -> TransferRecord] /\ x \in TransferRecord
      /\ ShipInv(x, t \in active) /\ t \notin active' /\ LoopFree
  BY Known DEF EndSession
<1>1. CASE t \in active
  <2>0. Cancellable(x, TRUE) /\ x.send \notin Gap
    BY <1>0, <1>1 DEF ShipInv, LoopFree, Gap, Cancellable
  <2>1. y = [z EXCEPT !.handle = FALSE, !.poller = FALSE, !.temp = "none",
                      !.upload = Unlink(z.upload, "gone")]
    BY <1>0, <1>1 DEF EndSession
  <2>2. /\ z \in TransferRecord
        /\ z.res = IF x.res \in Underway THEN "FAILED" ELSE x.res
        /\ IF x.res \in Underway THEN z.ending \in {"due", "lost"} ELSE z.ending = x.ending
        /\ z.dir = x.dir /\ z.start = x.start /\ z.started = x.started /\ z.send = x.send
        /\ z.successes = x.successes /\ z.failures = x.failures /\ z.upload = x.upload
    <3> HIDE DEF x
    <3> QED
      BY <1>0, <2>0, Stops
  <2> HIDE DEF z
  <2>3. /\ y.dir = z.dir /\ y.start = z.start /\ y.started = z.started /\ y.send = z.send
        /\ y.successes = z.successes /\ y.failures = z.failures /\ y.res = z.res
        /\ y.ending = z.ending /\ y.upload = Unlink(z.upload, "gone")
    BY <2>1, <2>2 DEF TransferRecord
  <2> QED
    BY <1>0, <1>1, <2>2, <2>3, Leaves
<1>2. CASE t \notin active
  <2>1. y = x
    BY <1>0, <1>2 DEF EndSession
  <2>2. Alike(x, y)
    BY <2>1 DEF Alike, Kept
  <2> QED
    BY <1>0, <1>2, <2>1, <2>2, Unnoticed
<1> QED
  BY <1>1, <1>2

-----------------------------------------------------------------------------
\* The step that is about t ships it, and leaves the others as they are.
LEMMA StepShips ==
  ASSUME SInv, NEW t \in Transfer, TransferStep(t)
  PROVE  ShipInv(xfer'[t], t \in active') /\ Ships(t)
  BY SendQuiet, SendBegins, SendStarts, MoveQuiet, Begins, Discards, Arrives,
     ReceiveStarts, Concludes, Reported, Deletes
  DEF TransferStep, LoopStep, Client, Rns

LEMMA Others ==
  ASSUME SInv, NEW u \in Transfer, xfer'[u] = xfer[u], u \in active' <=> u \in active
  PROVE  ShipInv(xfer'[u], u \in active') /\ Ships(u)
<1>1. Alike(xfer[u], xfer'[u])
  BY DEF Alike, Kept
<1>2. ShipInv(xfer'[u], u \in active')
  BY Known DEF ShipInv, Booked, Cancellable
<1> QED
  BY <1>1, <1>2, Unnoticed

LEMMA NextShips ==
  ASSUME SInv, [Next]_vars, NEW u \in Transfer
  PROVE  ShipInv(xfer'[u], u \in active') /\ Ships(u)
<1>1. ASSUME NEW t \in Transfer, TransferStep(t)
      PROVE  ShipInv(xfer'[u], u \in active') /\ Ships(u)
  <2>1. CASE u = t
    BY <1>1, <2>1, StepShips
  <2>2. CASE u # t
    <3>1. About(t)
      BY <1>1, StepAbout DEF SInv
    <3>2. xfer'[u] = xfer[u] /\ (u \in active' <=> u \in active)
      BY <2>2, <3>1, Known DEF About
    <3> QED
      BY <3>2, Others
  <2> QED
    BY <2>1, <2>2
<1>2. CASE LinkStep \/ UNCHANGED vars
  <2>1. xfer' = xfer /\ active' = active
    BY <1>2 DEF LinkStep, SlotChanges, CreateLink, AttachLink, SetCallback, SetPolicy,
       RnsLinkChanges, StrayCloses, LetGo, vars
  <2> QED
    BY <2>1, Others
<1> QED
  BY <1>1, <1>2, EndShips DEF Next, TransferStep, LinkStep

LEMMA SInvariance == Spec => []SInv
<1>1. Init => SInv
  <2> SUFFICES ASSUME Init PROVE SInv
    OBVIOUS
  <2>1. ASSUME NEW t \in Transfer PROVE ShipInv(xfer[t], t \in active)
    BY <2>1 DEF Init, ShipInv, Booked, Cancels, EndTold, Cancellable, Staged, Gap
  <2> QED
    BY <2>1, InitInv DEF SInv
<1>2. SInv /\ [Next]_vars => SInv'
  BY NextInv, NextShips DEF SInv
<1> QED
  BY <1>1, <1>2, PTL DEF Spec

\* Whatever RNS threads, deletions, the sweep and the end of the session do,
\* every transfer keeps the promises of Shipment: its end is reported once and
\* truly, a deleted one is stopped, a sent one is never listed again (send,
\* _on_complete, _on_receive_started, _on_receive_concluded, delete,
\* cleanup_session).
THEOREM TransfersShip == Spec => TransfersKeepBooks
<1>1. Init => \A t \in Transfer : Shipped(t)!Init
  <2> SUFFICES ASSUME Init, NEW t \in Transfer PROVE Shipped(t)!Init
    OBVIOUS
  <2> DEFINE x == xfer[t]
  <2>1. /\ x.dir = "none" /\ x.res = "none" /\ x.send = "idle" /\ ~x.started
        /\ x.started = FALSE /\ x.upload = "none" /\ x.successes = 0 /\ x.failures = 0
        /\ (t \in active) = FALSE /\ InFlight(t) = FALSE
    BY DEF Init, InFlight
  <2> HIDE DEF x
  <2>2. Cargo(x) = "none" /\ EndTold(x, "FAILED") = 0
    BY <2>1 DEF Cargo, EndTold
  <2>3. x.failures - EndTold(x, "FAILED") = 0
    BY <2>1, <2>2
  <2>4. Reports(x) = [k \in Ended \cup {"CANCELLED"} |-> 0]
    BY <2>1, <2>2, <2>3 DEF Reports, Ended
  <2> QED
    BY <2>1, <2>2, <2>4 DEF Shipped!Init, Shipped!Final, Ended, x
<1>2. SInv /\ [Next]_vars
        => [\A t \in Transfer : [Shipped(t)!Next]_(Shipped(t)!vars)]_vars
  BY NextShips DEF Ships
<1> QED
  BY <1>1, <1>2, SInvariance, PTL DEF Spec, TransfersKeepBooks
=============================================================================
