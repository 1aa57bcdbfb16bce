---------------------------- MODULE DaemonProofs ----------------------------
(***************************************************************************)
(* Proofs about Daemon, and with it about Bridge and Packets, for every    *)
(* set of connections, packets, announcements and path requests, and every *)
(* capacity of the buffer.                                                 *)
(***************************************************************************)
EXTENDS Daemon, TLAPS

\* The parts of a step that leave the rest of the state alone.
LEMMA NewestType ==
  ASSUME NEW S, NEW s \in Seq(S), NEW n \in Nat
  PROVE  Newest(s, n) \in Seq(S) /\ Len(Newest(s, n)) <= n
  BY DEF Newest

\* A thread that reports x in run_async.
LEMMA ThreadType ==
  ASSUME BridgeTypeOK, NEW x \in Subject, ReadLoop(x) \/ Submit(x) \/ Store(x)
  PROVE  BridgeTypeOK'
<1> USE DEF BridgeTypeOK, loopVars, connVars, Goes, ThreadSteps
<1>1. Reported(x) \in Event /\ HandOver(Reported(x)) \in Handle
  BY DEF Reported, Event, HandOver, Handle
<1>2. CASE ReadLoop(x)
  BY <1>2 DEF ReadLoop
<1>3. CASE Submit(x)
  BY <1>1, <1>3 DEF Submit
<1>4. CASE Store(x)
  <2>1. Append(buffer, Reported(x)) \in Seq(Event)
    BY <1>1
  <2>2. buffer' \in Seq(Event) /\ Len(buffer') <= Capacity
    BY <1>4, <2>1, NewestType, BridgeAssumption DEF Store
  <2> QED
    BY <1>4, <2>2 DEF Store
<1> QED
  BY <1>2, <1>3, <1>4

\* A fan-out by a handler.
LEMMA FanOutType ==
  ASSUME BridgeTypeOK, NEW e \in Event, FanOut(e)
  PROVE  BridgeTypeOK'
<1>1. Write(e, Targets(e)) \in Handle
  BY DEF Write, Targets, Handle, BridgeTypeOK
<1> QED
  BY <1>1 DEF FanOut, BridgeTypeOK, loopVars, connVars

\* What the loop does with its queue and its connections.
LEMMA LoopTurnType ==
  ASSUME BridgeTypeOK, RunHandle \/ \E c \in Conn : SendDone(c) \/ Unregister(c)
  PROVE  BridgeTypeOK'
<1> USE DEF BridgeTypeOK, loopVars, connVars
<1>1. CASE RunHandle
  <2>1. Head(ready) \in Handle /\ Tail(ready) \in Seq(Handle)
    BY <1>1 DEF RunHandle
  <2>2. Head(ready).event \in Event
    BY <2>1 DEF Handle
  <2>3. /\ Task(Head(ready).event) \in Handle
        /\ Write(Head(ready).event, Targets(Head(ready).event)) \in Handle
    BY <2>2 DEF Task, Write, Targets, Handle
  <2>4. ready' \in Seq(Handle)
    <3> DEFINE t == Task(Head(ready).event)
               w == Write(Head(ready).event, Targets(Head(ready).event))
    <3>1. ready' \in {Tail(ready), Append(Tail(ready), t), Append(Tail(ready), w)}
      BY <1>1 DEF RunHandle
    <3> HIDE DEF t, w, BridgeTypeOK
    <3>2. t \in Handle /\ w \in Handle
      BY <2>3 DEF t, w
    <3> QED
      BY <2>1, <3>1, <3>2
  <2>5. sending' \in [Conn -> Seq(Event)]
    <3> DEFINE e == Head(ready).event
               to == Head(ready).to \ closed
    <3>1. /\ sending \in [Conn -> Seq(Event)]
          /\ \/ sending' = sending
             \/ sending' = [c \in Conn |-> IF c \in to THEN Append(sending[c], e)
                                          ELSE sending[c]]
      BY <1>1 DEF RunHandle
    <3> HIDE DEF e, to, BridgeTypeOK
    <3>2. e \in Event
      BY <2>2 DEF e
    <3>3. \A c \in Conn : sending[c] \in Seq(Event) /\ Append(sending[c], e) \in Seq(Event)
      BY <3>1, <3>2
    <3> QED
      BY <3>1, <3>3
  <2> QED
    BY <1>1, <2>4, <2>5 DEF RunHandle
<1>2. ASSUME NEW c \in Conn, SendDone(c)
      PROVE  BridgeTypeOK'
  <2>1. sending[c] \in Seq(Event) /\ sending[c] # <<>>
    BY <1>2 DEF SendDone
  <2>2. Head(sending[c]) \in Event /\ Tail(sending[c]) \in Seq(Event)
    BY <2>1
  <2>3. sending' \in [Conn -> Seq(Event)]
    <3> HIDE DEF BridgeTypeOK
    <3>1. sending \in [Conn -> Seq(Event)] /\ sending' = [sending EXCEPT ![c] = Tail(@)]
      BY <1>2 DEF SendDone, BridgeTypeOK
    <3> QED
      BY <2>2, <3>1
  <2>4. delivered' \in [Conn -> Seq(Event)]
    <3> HIDE DEF BridgeTypeOK
    <3>1. /\ delivered \in [Conn -> Seq(Event)]
          /\ \/ delivered' = delivered
             \/ delivered' = [delivered EXCEPT ![c] = Append(@, Head(sending[c]))]
      BY <1>2 DEF SendDone, BridgeTypeOK
    <3>2. Append(delivered[c], Head(sending[c])) \in Seq(Event)
      BY <2>2, <3>1
    <3> QED
      BY <3>1, <3>2
  <2> QED
    BY <1>2, <2>3, <2>4 DEF SendDone
<1>3. ASSUME NEW c \in Conn, Unregister(c)
      PROVE  BridgeTypeOK'
  BY <1>3 DEF Unregister
<1> QED
  BY <1>1, <1>2, <1>3

LEMMA ConnectType ==
  ASSUME BridgeTypeOK, NEW c \in Conn, Register(c) \/ Attach(c) \/ Close(c)
  PROVE  BridgeTypeOK'
  BY DEF BridgeTypeOK, Register, Attach, Close, loopVars, connVars

-----------------------------------------------------------------------------
LEMMA InitType == Init => TypeOK
<1> SUFFICES ASSUME Init PROVE TypeOK
  OBVIOUS
<1>1. BridgeTypeOK
  <2>1. buffer \in Seq(Event) /\ Len(buffer) <= Capacity /\ ready \in Seq(Handle)
    BY BridgeAssumption DEF Init, BridgeInit
  <2>2. sending \in [Conn -> Seq(Event)] /\ delivered \in [Conn -> Seq(Event)]
    <3>1. <<>> \in Seq(Event)
      OBVIOUS
    <3> QED
      BY <3>1 DEF Init, BridgeInit
  <2> QED
    BY <2>1, <2>2 DEF Init, BridgeInit, BridgeTypeOK, ThreadSteps
<1>2. PacketsTypeOK /\ stage \in Stages
  BY DEF Init, PacketsInit, PacketsTypeOK, CallSteps, Stages
<1> QED
  BY <1>1, <1>2 DEF TypeOK

\* A step of PacketsService.send.
SendStep(p) == Send(p) \/ Transmit(p) \/ Wire(p) \/ Emit(p) \/ Reply(p)

LEMMA SendType ==
  ASSUME TypeOK, NEW p \in Packet, SendStep(p), UNCHANGED stage
  PROVE  TypeOK'
<1> USE DEF TypeOK, PacketsTypeOK, Goto, CallSteps, packetVars
<1>0. p \in Subject
  BY PacketsAssumption
<1>1. CASE Send(p)
  BY <1>0, <1>1 DEF Send, BridgeTypeOK, bridgeVars
<1>2. CASE Transmit(p)
  BY <1>0, <1>2 DEF Transmit, BridgeTypeOK, bridgeVars
<1>3. CASE Wire(p)
  BY <1>0, <1>3 DEF Wire, BridgeTypeOK, bridgeVars
<1>4. CASE Emit(p)
  <2>1. Sent(p) \in Event
    BY <1>0 DEF Sent, Event
  <2> QED
    BY <1>0, <1>4, <2>1, FanOutType DEF Emit
<1>5. CASE Reply(p)
  BY <1>0, <1>5 DEF Reply, BridgeTypeOK, bridgeVars
<1> QED
  BY <1>1, <1>2, <1>3, <1>4, <1>5 DEF SendStep

LEMMA ReceiptThreadType ==
  ASSUME TypeOK, NEW p \in Packet, ReceiptThread(p), UNCHANGED stage
  PROVE  TypeOK'
<1> USE DEF TypeOK, PacketsTypeOK, callVars, packetVars
<1>0. p \in Subject
  BY PacketsAssumption
<1>1. CASE EnterCallback(p)
  BY <1>0, <1>1 DEF EnterCallback, BridgeTypeOK, Goes, ThreadSteps, loopVars, connVars
<1>2. CASE ReadLoop(p) /\ UNCHANGED <<callVars, packetVars>>
  BY <1>0, <1>2, ThreadType
<1>3. CASE LeaveCallback(p)
  <2>1. BridgeTypeOK'
    BY <1>0, <1>3, ThreadType DEF LeaveCallback
  <2> QED
    BY <1>3, <2>1 DEF LeaveCallback
<1> QED
  BY <1>1, <1>2, <1>3 DEF ReceiptThread

\* The start and the shutdown.
LEMMA LifecycleType ==
  ASSUME TypeOK, Lifecycle
  PROVE  TypeOK'
<1> USE DEF TypeOK, PacketsTypeOK, callVars, packetVars, Stages
<1>1. CASE AssignLoop \/ ClearLoop
  BY <1>1 DEF AssignLoop, ClearLoop, SetMainLoop, ClearMainLoop, BridgeTypeOK, connVars
<1>2. CASE TakePending
  <2>1. \A i \in 1 .. Len(buffer) : HandOver(buffer[i]) \in Handle
    BY DEF BridgeTypeOK, HandOver, Handle
  <2>2. [i \in 1 .. Len(buffer) |-> HandOver(buffer[i])] \in Seq(Handle)
    BY <2>1 DEF BridgeTypeOK
  <2>3. /\ ready' \in Seq(Handle)
        /\ buffer' \in Seq(Event) /\ Len(buffer') <= Capacity
    BY <1>2, <2>2, BridgeAssumption DEF TakePending, TakeBuffer, BridgeTypeOK
  <2> QED
    BY <1>2, <2>3 DEF TakePending, TakeBuffer, BridgeTypeOK, loopVars, connVars
<1>3. CASE StartAnnounces \/ StopAnnounces \/ StopRns
  BY <1>3 DEF StartAnnounces, StopAnnounces, StopRns, BridgeTypeOK, bridgeVars
<1>4. CASE StopServing
  BY <1>4 DEF StopServing, BridgeTypeOK, CallSteps, loopVars
<1>5. CASE EndLoop \/ CloseLoop
  BY <1>5 DEF EndLoop, CloseLoop, BridgeTypeOK, connVars
<1> QED
  BY <1>1, <1>2, <1>3, <1>4, <1>5 DEF Lifecycle

\* Calls of clients other than sends of packets.
LEMMA CallType ==
  ASSUME TypeOK, UNCHANGED stage, NEW x \in Subject,
         \/ RestAdmit(x) \/ Announce(x) \/ RequestPath(x)
         \/ AskRns(x) \/ PathAnswer(x) \/ Reply(x)
  PROVE  TypeOK'
<1> USE DEF TypeOK, PacketsTypeOK, packetVars
<1>1. pc' \in [Subject -> CallSteps]
  BY DEF RestAdmit, Announce, RequestPath, AskRns, PathAnswer, Reply, Goto, CallSteps
<1>2. CASE UNCHANGED bridgeVars
  BY <1>1, <1>2 DEF RestAdmit, Announce, RequestPath, AskRns, PathAnswer, Reply,
                    bridgeVars, BridgeTypeOK
<1>3. CASE FanOut(Sent(x)) /\ UNCHANGED <<sessionState, packetVars>>
  <2>1. Sent(x) \in Event
    BY DEF Sent, Event
  <2> QED
    BY <1>1, <1>3, <2>1, FanOutType
<1> QED
  BY <1>2, <1>3 DEF RestAdmit, Announce, RequestPath, AskRns, PathAnswer, Reply

LEMMA NextType ==
  ASSUME TypeOK, [Next]_vars
  PROVE  TypeOK'
<1> USE DEF TypeOK
<1>1. CASE Lifecycle
  BY <1>1, LifecycleType
<1>2. ASSUME NEW x \in Subject, Begin(x) \/ RestAdmit(x), UNCHANGED stage
      PROVE  TypeOK'
  BY <1>2, CallType, SendType DEF Begin, SendStep
<1>3. ASSUME NEW c \in Conn, Connect(c), UNCHANGED stage
      PROVE  TypeOK'
  <2>1. BridgeTypeOK'
    BY <1>3, ConnectType DEF Connect
  <2> QED
    BY <1>3, <2>1 DEF Connect, PacketsTypeOK, callVars, packetVars
<1>4. CASE EndSession /\ UNCHANGED stage
  BY <1>4 DEF EndSession, BridgeTypeOK, PacketsTypeOK, bridgeVars
<1>5. CASE LoopTurn /\ UNCHANGED stage
  <2>1. BridgeTypeOK'
    BY <1>5, LoopTurnType DEF LoopTurn
  <2> QED
    BY <1>5, <2>1 DEF LoopTurn, PacketsTypeOK, callVars, packetVars
<1>6. ASSUME NEW x \in Subject, Proceed(x), UNCHANGED stage
      PROVE  TypeOK'
  BY <1>6, CallType, SendType DEF Proceed, SendStep
<1>7. ASSUME NEW x \in Subject, RnsThread(x), UNCHANGED stage
      PROVE  TypeOK'
  <2>1. CASE x \in Packet /\ ReceiptThread(x)
    BY <1>7, <2>1, ReceiptThreadType
  <2>2. CASE AnnounceThread(x)
    <3>1. BridgeTypeOK'
      BY <2>2, ThreadType DEF AnnounceThread
    <3> QED
      BY <1>7, <2>2, <3>1 DEF AnnounceThread, PacketsTypeOK, callVars, packetVars
  <2> QED
    BY <1>7, <2>1, <2>2 DEF RnsThread
<1>8. CASE Rns /\ UNCHANGED stage
  <2> USE DEF BridgeTypeOK, PacketsTypeOK, Goes, ThreadSteps, loopVars, connVars,
              callVars, packetVars
  <2>1. ASSUME NEW p \in Packet, RnsConclude(p)
        PROVE  TypeOK'
    BY <1>8, <2>1 DEF RnsConclude
  <2>2. ASSUME NEW a \in Announcement, RnsAnnounce(a)
        PROVE  TypeOK'
    BY <1>8, <2>2 DEF RnsAnnounce
  <2> QED
    BY <1>8, <2>1, <2>2 DEF Rns
<1>9. CASE UNCHANGED vars
  BY <1>9 DEF vars, BridgeTypeOK, PacketsTypeOK
<1> QED
  BY <1>1, <1>2, <1>3, <1>4, <1>5, <1>6, <1>7, <1>8, <1>9 DEF Next, Client

\* The buffer stays within its capacity, and every variable keeps its type.
THEOREM TypeCorrect == Spec => []TypeOK
  BY InitType, NextType, PTL DEF Spec

-----------------------------------------------------------------------------
(***************************************************************************)
(* The book of receipts and the start of the daemon.  Neither invariant is *)
(* inductive alone: what a thread may do depends on how far the send of    *)
(* its packet has come (PhaseInv), and that no thread is on its way to the *)
(* buffer depends on what may run before the daemon serves (StartInv).     *)
(***************************************************************************)

PhaseInv ==
    \A p \in Packet :
        /\ pc[p] \in {"idle", "admitted", "lookup"} => receipt[p] = "none"
        /\ receipt[p] = "none" => ~callbacks[p]
        /\ pc[p] = "transmitted" => receipt[p] # "none" /\ ~callbacks[p]
        /\ receipt[p] \in {"none", "absent", "refused", "SENT"} => at[p] = "idle"
        /\ pc[p] = "transmitted" /\ receipt[p] = "SENT" => p \in pending

StartInv ==
    /\ mainLoop <=> stage \in {"set", "taken", "serving", "stopping", "deaf"}
    /\ stage \notin {"ended", "exited", "closed"} => loop = "running"
    /\ stage \in {"starting", "set", "taken"} =>
          \A x \in Subject : pc[x] = "idle" /\ at[x] = "idle"
    /\ stage = "starting" => buffer = <<>>
    /\ mainLoop => \A x \in Subject : at[x] # "buffer"

BookInv == TypeOK /\ PhaseInv /\ OpenReceiptIsBooked

LEMMA NextBook ==
  ASSUME BookInv, [Next]_vars
  PROVE  BookInv'
<1> USE DEF BookInv, callVars, packetVars
<1>0. TypeOK'
  BY NextType
<1>1. Packet \subseteq Subject /\ Packet \cap (Announcement \cup PathRequest) = {}
  BY PacketsAssumption, DaemonAssumption
<1> DEFINE Quiet == UNCHANGED <<receipt, callbacks, pending>>
           Threads == \A p \in Packet : at'[p] = at[p]
           Inv == PhaseInv /\ OpenReceiptIsBooked
<1> SUFFICES Inv'
  BY <1>0
<1>2. ASSUME Quiet, Threads,
             \A p \in Packet :
                \/ pc'[p] = pc[p]
                \/ pc'[p] \in {"wired", "emitting", "polling", "done"}
                \/ /\ pc[p] \in {"idle", "admitted"}
                   /\ pc'[p] \in {"idle", "admitted", "lookup"}
      PROVE  Inv'
  BY <1>2 DEF PhaseInv, OpenReceiptIsBooked
<1> DEFINE Onward(p) == \/ pc'[p] = pc[p]
                        \/ pc'[p] \in {"wired", "emitting", "polling", "done"}
                        \/ /\ pc[p] \in {"idle", "admitted"}
                           /\ pc'[p] \in {"idle", "admitted", "lookup"}
<1>3. CASE Lifecycle
  <2>1. CASE StopServing
    <3>1. \A p \in Packet : Onward(p)
      BY <1>1, <2>1 DEF StopServing, LoopFree, PacketsTypeOK, TypeOK
    <3>2. Quiet /\ Threads
      BY <2>1 DEF StopServing
    <3> QED
      BY <1>2, <3>1, <3>2
  <2>2. CASE ~StopServing
    <3>1. UNCHANGED <<pc, at>> /\ Quiet
      BY <1>3, <2>2 DEF Lifecycle, AssignLoop, TakePending, StartAnnounces,
         StopAnnounces, ClearLoop, EndLoop, StopRns, CloseLoop, SetMainLoop, TakeBuffer,
         ClearMainLoop, bridgeVars
    <3> QED
      BY <1>2, <3>1
  <2> QED
    BY <2>1, <2>2
<1>4. ASSUME NEW p \in Packet, Transmit(p)
      PROVE  Inv'
  <2>1. receipt[p] = "none" /\ ~callbacks[p] /\ at[p] = "idle" /\ Threads
    BY <1>4 DEF Transmit, PhaseInv, bridgeVars
  <2> QED
    BY <1>1, <1>4, <2>1 DEF Transmit, Goto, PhaseInv, OpenReceiptIsBooked, TypeOK,
                            PacketsTypeOK
<1>5. ASSUME NEW p \in Packet, Wire(p)
      PROVE  Inv'
  <2>1. Threads
    BY <1>5 DEF Wire, bridgeVars
  <2> QED
    BY <1>1, <1>5, <2>1 DEF Wire, Goto, PhaseInv, OpenReceiptIsBooked, TypeOK,
                            PacketsTypeOK
<1>6. ASSUME NEW x \in Subject, RestAdmit(x) \/ Announce(x) \/ RequestPath(x)
                 \/ AskRns(x) \/ PathAnswer(x) \/ Reply(x)
      PROVE  Inv'
  <2>1. /\ pc' = [pc EXCEPT ![x] = pc'[x]]
        /\ \/ pc[x] = "idle" /\ pc'[x] = "admitted"
           \/ pc'[x] \in {"emitting", "polling", "done"}
    BY <1>6 DEF RestAdmit, Announce, RequestPath, AskRns, PathAnswer, Reply, Goto,
                TypeOK, PacketsTypeOK
  <2>2. Quiet /\ Threads
    BY <1>6 DEF RestAdmit, Announce, RequestPath, AskRns, PathAnswer, Reply, FanOut,
                bridgeVars
  <2>3. \A p \in Packet : Onward(p)
    BY <1>1, <2>1 DEF TypeOK, PacketsTypeOK
  <2> QED
    BY <1>2, <2>2, <2>3
<1>7. ASSUME NEW p \in Packet, Send(p) \/ Emit(p)
      PROVE  Inv'
  BY <1>1, <1>2, <1>7 DEF Send, Requested, Emit, Goto, FanOut, bridgeVars, TypeOK,
                          PacketsTypeOK
<1>8. ASSUME NEW c \in Conn, Connect(c)
      PROVE  Inv'
  BY <1>2, <1>8 DEF Connect, Register, Attach, Close
<1>9. CASE EndSession
  <2>1. \A p \in Packet : pc[p] # "transmitted"
    BY <1>9 DEF EndSession, LoopFree
  <2> QED
    BY <1>9, <2>1 DEF EndSession, bridgeVars, PhaseInv, OpenReceiptIsBooked
<1>10. CASE LoopTurn
  BY <1>2, <1>10 DEF LoopTurn, RunHandle, SendDone, Unregister
<1>11. ASSUME NEW p \in Packet, ReceiptThread(p)
       PROVE  Inv'
  <2>1. receipt[p] \notin {"none", "absent", "refused", "SENT"}
    BY <1>11 DEF ReceiptThread, EnterCallback, ReadLoop, LeaveCallback, Submit, Store,
                 PhaseInv
  <2>2. \A q \in Packet \ {p} : at'[q] = at[q]
    BY <1>1, <1>11 DEF ReceiptThread, EnterCallback, ReadLoop, LeaveCallback, Submit,
                       Store, Goes, TypeOK, BridgeTypeOK
  <2>3. UNCHANGED <<pc, receipt, callbacks>> /\ pending \ {p} \subseteq pending'
    BY <1>11 DEF ReceiptThread, EnterCallback, ReadLoop, LeaveCallback, Submit, Store
  <2> QED
    BY <2>1, <2>2, <2>3 DEF PhaseInv, OpenReceiptIsBooked
<1>12. ASSUME NEW a \in Announcement, AnnounceThread(a) \/ RnsAnnounce(a)
       PROVE  Inv'
  BY <1>1, <1>2, <1>12 DEF AnnounceThread, RnsAnnounce, ReadLoop, Submit, Store, Goes,
                           TypeOK, BridgeTypeOK
<1>13. ASSUME NEW p \in Packet, RnsConclude(p)
       PROVE  Inv'
  BY <1>1, <1>13 DEF RnsConclude, Goes, PhaseInv, OpenReceiptIsBooked, TypeOK,
                     BridgeTypeOK, PacketsTypeOK
<1>14. CASE UNCHANGED vars
  BY <1>2, <1>14 DEF vars
<1> QED
  BY <1>3, <1>4, <1>5, <1>6, <1>7, <1>8, <1>9, <1>10, <1>11, <1>12, <1>13, <1>14
     DEF Next, Client, Begin, Proceed, RnsThread, Rns

LEMMA NextStart ==
  ASSUME BookInv, StartInv, NothingStranded, [Next]_vars
  PROVE  StartInv' /\ NothingStranded'
<1> USE DEF BookInv
<1>1. Packet \subseteq Subject
  BY PacketsAssumption
<1>2. CASE Lifecycle
  <2> USE DEF callVars, packetVars, StartInv, NothingStranded
  <2>1. CASE AssignLoop
    BY <2>1 DEF AssignLoop, SetMainLoop
  <2>2. CASE TakePending
    BY <2>2 DEF TakePending, TakeBuffer, loopVars
  <2>3. CASE StartAnnounces \/ StopAnnounces \/ StopRns
    BY <2>3 DEF StartAnnounces, StopAnnounces, StopRns, bridgeVars
  <2>4. CASE StopServing
    BY <2>4 DEF StopServing, loopVars
  <2>5. CASE ClearLoop
    BY <2>5 DEF ClearLoop, ClearMainLoop
  <2>6. CASE EndLoop \/ CloseLoop
    BY <2>6 DEF EndLoop, CloseLoop
  <2> QED
    BY <1>2, <2>1, <2>2, <2>3, <2>4, <2>5, <2>6 DEF Lifecycle
<1>3. ASSUME UNCHANGED <<mainLoop, loop, stage, buffer>>,
             stage \notin {"starting", "set", "taken"}, UNCHANGED at
      PROVE  StartInv' /\ NothingStranded'
  BY <1>3 DEF StartInv, NothingStranded
<1>4. CASE stage = "serving" /\ Client /\ UNCHANGED stage
  <2>1. UNCHANGED <<mainLoop, loop, buffer, at>>
    BY <1>4 DEF Client, RestAdmit, Begin, Send, Announce, RequestPath, FanOut, Connect,
                Register, Attach, Close, EndSession, bridgeVars, loopVars
  <2> QED
    BY <1>3, <1>4, <2>1
<1>5. CASE Idle /\ LoopTurn /\ UNCHANGED stage
  <2>1. UNCHANGED <<mainLoop, loop, buffer, at>>
    BY <1>5 DEF LoopTurn, RunHandle, SendDone, Unregister, loopVars
  <2> QED
    BY <1>3, <1>5, <2>1 DEF Idle
<1>6. ASSUME NEW x \in Subject, Idle, Proceed(x), UNCHANGED stage
      PROVE  StartInv' /\ NothingStranded'
  <2>1. UNCHANGED <<mainLoop, loop, buffer, at>>
    BY <1>6 DEF Proceed, Transmit, Wire, Emit, Reply, AskRns, PathAnswer, FanOut,
                bridgeVars, loopVars
  <2> QED
    BY <1>3, <1>6, <2>1 DEF Idle
<1>7. ASSUME NEW x \in Subject, RnsThread(x), UNCHANGED stage
      PROVE  StartInv' /\ NothingStranded'
  <2>1. stage \notin {"starting", "set", "taken"}
    BY <1>7 DEF StartInv, RnsThread, ReceiptThread, EnterCallback, LeaveCallback,
                AnnounceThread, ReadLoop, Submit, Store
  <2>2. UNCHANGED <<mainLoop, loop, pc>>
    BY <1>7 DEF RnsThread, ReceiptThread, EnterCallback, LeaveCallback, AnnounceThread,
                ReadLoop, Submit, Store, callVars, loopVars
  <2>3. mainLoop => buffer' = buffer /\ \A y \in Subject : at'[y] # "buffer"
    BY <1>7 DEF StartInv, RnsThread, ReceiptThread, EnterCallback, LeaveCallback,
                AnnounceThread, ReadLoop, Submit, Store, Goes, TypeOK, BridgeTypeOK
  <2> QED
    BY <1>7, <2>1, <2>2, <2>3 DEF StartInv, NothingStranded
<1>8. CASE Rns /\ UNCHANGED stage
  <2>1. stage \notin {"starting", "set", "taken"}
    BY <1>1, <1>8 DEF Rns, RnsConclude, Listening, StartInv, PhaseInv
  <2>2. UNCHANGED <<mainLoop, loop, pc, buffer>>
    BY <1>8 DEF Rns, RnsConclude, RnsAnnounce, callVars, loopVars
  <2>3. mainLoop => \A y \in Subject : at'[y] # "buffer"
    BY <1>8 DEF StartInv, Rns, RnsConclude, RnsAnnounce, Goes, TypeOK, BridgeTypeOK
  <2> QED
    BY <1>8, <2>1, <2>2, <2>3 DEF StartInv, NothingStranded
<1>9. CASE UNCHANGED vars
  BY <1>9 DEF vars, StartInv, NothingStranded
<1> QED
  BY <1>2, <1>4, <1>5, <1>6, <1>7, <1>8, <1>9 DEF Next

LEMMA InitBook == Init => BookInv /\ StartInv /\ NothingStranded
<1> SUFFICES ASSUME Init PROVE BookInv /\ StartInv /\ NothingStranded
  OBVIOUS
<1>1. Packet \subseteq Subject
  BY PacketsAssumption
<1>2. PhaseInv /\ OpenReceiptIsBooked
  BY <1>1 DEF Init, BridgeInit, PacketsInit, PhaseInv, OpenReceiptIsBooked
<1>3. StartInv /\ NothingStranded
  BY DEF Init, BridgeInit, PacketsInit, StartInv, NothingStranded
<1> QED
  BY <1>2, <1>3, InitType DEF BookInv

LEMMA BookInvariance == Spec => [](BookInv /\ StartInv /\ NothingStranded)
  BY InitBook, NextBook, NextStart, PTL DEF Spec

\* The cleanup hook can find every receipt that may still call back.
THEOREM ReceiptsAreBooked == Spec => []OpenReceiptIsBooked
  BY BookInvariance, PTL DEF BookInv

\* No event is kept back while a loop runs that could take it.
THEOREM BufferIsEmpty == Spec => []NothingStranded
  BY BookInvariance, PTL

-----------------------------------------------------------------------------
(***************************************************************************)
(* The packets of a session implement SessionLife.                         *)
(***************************************************************************)

\* A call is under way.
Held == \E x \in Subject : pc[x] \notin {"idle", "done"}

Heard == sessionState = "live" \/ attached \ closed # {}

\* What a step may do to the session.
Ages ==
    \/ sessionState = "live" /\ sessionState' = "live"
    \/ /\ sessionState = "live" /\ sessionState' = "ended"
       /\ Held' => Held
       /\ pending' = {}
    \/ /\ sessionState = "ended" /\ sessionState' = "ended"
       /\ Heard' => Heard
       /\ Held' => Held \/ Heard
       /\ pending' # {} => pending # {} \/ Held \/ Heard

\* A call that is under way goes on.
LEMMA CallAges ==
  ASSUME TypeOK, NEW x \in Subject, pc[x] \notin {"idle", "done"} \/ Heard,
         UNCHANGED <<sessionState, attached, closed>>
  PROVE  Ages
<1>1. Held \/ Heard
  BY DEF Held
<1>2. Heard' <=> Heard
  BY DEF Heard
<1> QED
  BY <1>1, <1>2 DEF Ages, TypeOK, PacketsTypeOK

\* A step that starts no call and books nothing.
LEMMA QuietAges ==
  ASSUME TypeOK, UNCHANGED <<sessionState, pc>>, pending' \subseteq pending,
         sessionState = "ended" => attached' \ closed' \subseteq attached \ closed
  PROVE  Ages
<1>1. (Held' <=> Held) /\ (Heard' => Heard)
  BY DEF Held, Heard, TypeOK, PacketsTypeOK
<1> QED
  BY <1>1 DEF Ages, TypeOK, PacketsTypeOK

LEMMA NextAges ==
  ASSUME TypeOK, [Next]_vars
  PROVE  Ages
<1> USE DEF callVars, packetVars, connVars, bridgeVars
<1>1. CASE Lifecycle
  <2>1. CASE StopServing
    <3>1. (Held' => Held) /\ (Heard' => Heard)
      BY <2>1 DEF StopServing, Held, Heard, TypeOK, PacketsTypeOK
    <3> QED
      BY <2>1, <3>1 DEF StopServing, Ages, TypeOK, PacketsTypeOK
  <2>2. CASE ~StopServing
    BY <1>1, <2>2, QuietAges DEF Lifecycle, AssignLoop, TakePending, StartAnnounces,
       StopAnnounces, ClearLoop, EndLoop, StopRns, CloseLoop, SetMainLoop, TakeBuffer,
       ClearMainLoop
  <2> QED
    BY <2>1, <2>2
<1>2. ASSUME NEW x \in Subject, RestAdmit(x) \/ Begin(x)
      PROVE  Ages
  <2>1. pc[x] \notin {"idle", "done"} \/ Heard
    BY <1>2 DEF RestAdmit, Begin, Send, Announce, RequestPath, Requested, Heard
  <2>2. UNCHANGED <<sessionState, attached, closed>>
    BY <1>2 DEF RestAdmit, Begin, Send, Announce, RequestPath, FanOut
  <2> QED
    BY <2>1, <2>2, CallAges
<1>3. ASSUME NEW c \in Conn, Connect(c)
      PROVE  Ages
  BY <1>3, QuietAges DEF Connect, Register, Attach, Close
<1>4. CASE EndSession
  <2>1. Held' <=> Held
    BY <1>4 DEF EndSession, Held
  <2> QED
    BY <1>4, <2>1 DEF EndSession, Ages
<1>5. CASE LoopTurn
  BY <1>5, QuietAges DEF LoopTurn, RunHandle, SendDone, Unregister
<1>6. ASSUME NEW x \in Subject, Proceed(x)
      PROVE  Ages
  <2>1. pc[x] \notin {"idle", "done"}
    BY <1>6 DEF Proceed, Transmit, Wire, Emit, Reply, AskRns, PathAnswer
  <2>2. UNCHANGED <<sessionState, attached, closed>>
    BY <1>6 DEF Proceed, Transmit, Wire, Emit, Reply, AskRns, PathAnswer, FanOut
  <2> QED
    BY <2>1, <2>2, CallAges
<1>7. ASSUME NEW x \in Subject, RnsThread(x)
      PROVE  Ages
  BY <1>7, QuietAges DEF RnsThread, ReceiptThread, EnterCallback, LeaveCallback,
     AnnounceThread, ReadLoop, Submit, Store
<1>8. CASE Rns
  BY <1>8, QuietAges DEF Rns, RnsConclude, RnsAnnounce
<1>9. CASE UNCHANGED vars
  BY <1>9, QuietAges DEF vars
<1> QED
  BY <1>1, <1>2, <1>3, <1>4, <1>5, <1>6, <1>7, <1>8, <1>9 DEF Next, Client

\* The hook empties the book of receipts, and afterwards only a send under
\* way, or one that comes in over a connection still open, adds to it
\* (cleanup_session, send).
THEOREM PacketsImplementLife == Spec => PacketsWindDown
<1>1. Init => Life!Init
  BY DEF Init, PacketsInit, Life!Init
<1>2. TypeOK /\ [Next]_vars => [Life!Next]_(Life!vars)
  <2> SUFFICES ASSUME TypeOK, [Next]_vars
               PROVE  [Life!Next]_(Life!vars)
    OBVIOUS
  <2>1. Ages
    BY NextAges
  <2> QED
    BY <2>1 DEF Ages, Held, Heard, Life!Next, Life!vars, Life!Serve, Life!End,
                Life!WindDown
<1> QED
  BY TypeCorrect, <1>1, <1>2, PTL DEF Spec, PacketsWindDown, Life!Spec
=============================================================================
