--------------------------- MODULE DeliveryProofs ---------------------------
(***************************************************************************)
(* Proofs about what reaches the clients of Daemon: in what order, and how *)
(* often, for every set of connections, packets, announcements and path    *)
(* requests, and every capacity of the buffer.                             *)
(***************************************************************************)
EXTENDS DaemonProofs, SequenceTheorems

-----------------------------------------------------------------------------
(***************************************************************************)
(* Sequences seen through sets of their members, so that one lemma serves  *)
(* the queue of the loop, whose members are handles, and the events of a   *)
(* connection.                                                             *)
(***************************************************************************)

Has(s, E) == \E i \in 1 .. Len(s) : s[i] \in E

\* At most one member of s is in E.
Once(s, E) == \A i, j \in 1 .. Len(s) : s[i] \in E /\ s[j] \in E => i = j

\* The members of s in E come before those in F.
Ordered(s, E, F) == \A i, j \in 1 .. Len(s) : s[i] \in E /\ s[j] \in F => i < j

LEMMA EmptyHas ==
  ASSUME NEW E, NEW F
  PROVE  ~Has(<<>>, E) /\ Once(<<>>, E) /\ Ordered(<<>>, E, F)
  BY DEF Has, Once, Ordered

LEMMA AppendHas ==
  ASSUME NEW S, NEW s \in Seq(S), NEW x \in S, NEW E, NEW F
  PROVE  /\ Has(Append(s, x), E) <=> Has(s, E) \/ x \in E
         /\ Once(s, E) /\ (x \in E => ~Has(s, E)) => Once(Append(s, x), E)
         /\ Ordered(s, E, F) /\ (x \in E => ~Has(s, F) /\ x \notin F)
               => Ordered(Append(s, x), E, F)
<1> DEFINE t == Append(s, x)
<1>1. /\ Len(t) = Len(s) + 1 /\ Len(s) \in Nat
      /\ \A i \in 1 .. Len(s) : t[i] = s[i]
      /\ t[Len(s) + 1] = x
  BY AppendProperties
<1> HIDE DEF t
<1>2. \A i \in 1 .. Len(t) : i \in 1 .. Len(s) \/ i = Len(s) + 1
  BY <1>1
<1>3. 1 .. Len(s) \subseteq 1 .. Len(t) /\ Len(s) + 1 \in 1 .. Len(t)
  BY <1>1
<1>4. Has(t, E) <=> Has(s, E) \/ x \in E
  BY <1>1, <1>2, <1>3 DEF Has
<1>5. Once(s, E) /\ (x \in E => ~Has(s, E)) => Once(t, E)
  BY <1>1, <1>2 DEF Once, Has
<1>6. ASSUME Ordered(s, E, F), x \in E => ~Has(s, F) /\ x \notin F
      PROVE  Ordered(t, E, F)
  <2> SUFFICES ASSUME NEW i \in 1 .. Len(t), NEW j \in 1 .. Len(t),
                      t[i] \in E, t[j] \in F
               PROVE  i < j
    BY DEF Ordered
  <2>1. CASE i \in 1 .. Len(s) /\ j \in 1 .. Len(s)
    BY <1>1, <1>6, <2>1 DEF Ordered
  <2>2. CASE i = Len(s) + 1
    BY <1>1, <1>2, <1>6, <2>2 DEF Has
  <2>3. CASE i \in 1 .. Len(s) /\ j = Len(s) + 1
    BY <1>1, <2>3
  <2> QED
    BY <1>2, <2>1, <2>2, <2>3
<1> QED
  BY <1>4, <1>5, <1>6 DEF t

LEMMA TailHas ==
  ASSUME NEW S, NEW s \in Seq(S), s # <<>>, NEW E, NEW F
  PROVE  /\ Head(s) \in S /\ Tail(s) \in Seq(S)
         /\ Has(s, E) <=> Head(s) \in E \/ Has(Tail(s), E)
         /\ Once(s, E) => Once(Tail(s), E) /\ (Head(s) \in E => ~Has(Tail(s), E))
         /\ Ordered(s, E, F) => /\ Ordered(Tail(s), E, F)
                                /\ Head(s) \in F => ~Has(s, E)
<1> DEFINE t == Tail(s)
<1>1. /\ Len(s) \in Nat \ {0} /\ Len(t) = Len(s) - 1
      /\ \A i \in 1 .. Len(t) : t[i] = s[i + 1] /\ i + 1 \in 1 .. Len(s)
      /\ s[1] = Head(s)
  OBVIOUS
<1>2. Head(s) \in S /\ t \in Seq(S)
  OBVIOUS
<1> HIDE DEF t
<1>3. \A i \in 1 .. Len(s) : i = 1 \/ (i - 1 \in 1 .. Len(t) /\ s[i] = t[i - 1])
  BY <1>1
<1>4. Has(s, E) <=> Head(s) \in E \/ Has(t, E)
  BY <1>1, <1>3 DEF Has
<1>5. ASSUME Once(s, E)
      PROVE  Once(t, E) /\ (Head(s) \in E => ~Has(t, E))
  <2>1. Once(t, E)
    BY <1>1, <1>5 DEF Once
  <2>2. Head(s) \in E => ~Has(t, E)
    <3> SUFFICES ASSUME Head(s) \in E, NEW i \in 1 .. Len(t), t[i] \in E
                 PROVE  FALSE
      BY DEF Has
    <3>1. s[1] \in E /\ s[i + 1] \in E /\ 1 \in 1 .. Len(s) /\ i + 1 \in 1 .. Len(s)
      BY <1>1
    <3> QED
      BY <1>5, <3>1 DEF Once
  <2> QED
    BY <2>1, <2>2
<1>6. ASSUME Ordered(s, E, F)
      PROVE  Ordered(t, E, F) /\ (Head(s) \in F => ~Has(s, E))
  <2>1. Ordered(t, E, F)
    <3> SUFFICES ASSUME NEW i \in 1 .. Len(t), NEW j \in 1 .. Len(t), t[i] \in E, t[j] \in F
                 PROVE  i < j
      BY DEF Ordered
    <3>1. i + 1 < j + 1
      BY <1>1, <1>6 DEF Ordered
    <3> QED
      BY <3>1
  <2>2. Head(s) \in F => ~Has(s, E)
    BY <1>1, <1>6 DEF Ordered, Has
  <2> QED
    BY <2>1, <2>2
<1> QED
  BY <1>2, <1>4, <1>5, <1>6 DEF t

-----------------------------------------------------------------------------
(***************************************************************************)
(* Where an event is.                                                      *)
(***************************************************************************)

\* Handles that carry e; those whose coroutine has begun; those that do not
\* write yet.
Carrying(e) == {h \in Handle : h.event = e}
Begun(e) == {h \in Handle : h.event = e /\ h.step # "handover"}
Unwritten(e) == {h \in Handle : h.event = e /\ h.step # "write"}

\* Whoever reports e has done so, and does not do it again.
Spent(e) ==
    IF e[1] = "sent" THEN pc[e[2]] \in {"emitting", "polling", "done"}
    ELSE at[e[2]] = "over"

\* e is in one place at a time, and it came there once.
OneCopy(e) ==
    /\ Has(ready, Carrying(e)) => Spent(e)
    /\ Once(ready, Carrying(e))
    /\ \A c \in Conn :
          /\ Has(sending[c], {e}) \/ Has(delivered[c], {e})
                => Spent(e) /\ ~Has(ready, Carrying(e))
          /\ Has(sending[c], {e}) => ~Has(delivered[c], {e})
          /\ Once(sending[c], {e})
          /\ Once(delivered[c], {e})

OnceInv == \A e \in Event : OneCopy(e)

\* The callbacks of p are not set, or were never.
Unsent == {"idle", "admitted", "lookup", "transmitted"}

\* RNS may report the packet before packet.sent is handed to the hub, but the
\* report takes one turn of the loop more, and the loop does not turn while
\* the send is in between.
SentFirst(p) ==
    LET S == Sent(p)
        R == Reported(p) IN
    /\ \/ callbacks[p]
       \/ at[p] \in {"called", "submit", "buffer"}
       \/ Has(ready, Carrying(R))
       => pc[p] \notin Unsent
    /\ pc[p] = "wired" => ~Has(ready, Begun(R))
    /\ ~Has(ready, Unwritten(S))
    /\ Ordered(ready, Carrying(S), Begun(R))
    /\ \A c \in Conn :
          /\ Has(sending[c], {R}) \/ Has(delivered[c], {R})
                => /\ pc[p] \notin Unsent \cup {"wired"}
                   /\ ~Has(ready, Carrying(S))
          /\ Has(sending[c], {S}) => ~Has(delivered[c], {R})
          /\ Ordered(sending[c], {S}, {R})
          /\ Ordered(delivered[c], {S}, {R})

OrderInv == \A p \in Packet : SentFirst(p)

\* What DaemonProofs shows to be invariant, and the two above.
FeedInv == BookInv /\ StartInv /\ NothingStranded /\ OnceInv /\ OrderInv

-----------------------------------------------------------------------------
(***************************************************************************)
(* The ways a step can move events.                                        *)
(***************************************************************************)

Still == UNCHANGED <<ready, sending, delivered>>

\* The thread that reports x hands over.
HandsOver(x) ==
    /\ at[x] = "submit" /\ at' = [at EXCEPT ![x] = "over"]
    /\ ready' = Append(ready, HandOver(Reported(x)))
    /\ UNCHANGED <<sending, delivered, pc, callbacks>>

\* A handler tells the hub that it has sent x.
Tells(x) ==
    /\ pc[x] \notin {"emitting", "polling", "done"}
    /\ x \in Packet => pc[x] = "wired"
    /\ pc' = [pc EXCEPT ![x] = "emitting"]
    /\ ready' = Append(ready, Write(Sent(x), Targets(Sent(x))))
    /\ UNCHANGED <<sending, delivered, at, callbacks>>

\* The loop turns.
Turns ==
    /\ RunHandle \/ \E c \in Conn : SendDone(c)
    /\ \A p \in Packet : pc[p] \notin {"transmitted", "wired"}
    /\ UNCHANGED <<pc, at, callbacks>>

\* What has been left behind stays behind.
Onwards ==
    /\ \A e \in Event : Spent(e) => Spent(e)'
    /\ \A p \in Packet :
          /\ pc'[p] \in Unsent => pc[p] \in Unsent
          /\ pc'[p] = "wired" => pc[p] \in {"transmitted", "wired"}
          /\ callbacks'[p] => callbacks[p] \/ pc'[p] \notin Unsent
          /\ at'[p] \in {"called", "submit", "buffer"}
                => at[p] \in {"called", "submit", "buffer"} \/ callbacks[p]

LEMMA EventForms ==
  /\ \A x \in Subject : Sent(x) \in Event /\ Reported(x) \in Event
  /\ \A e \in Event : \E x \in Subject : e = Sent(x) \/ e = Reported(x)
  /\ \A x, y \in Subject : Sent(x) # Reported(y)
  /\ \A x, y \in Subject : (Sent(x) = Sent(y) => x = y) /\ (Reported(x) = Reported(y) => x = y)
  /\ \A x \in Subject : /\ Spent(Sent(x)) <=> pc[x] \in {"emitting", "polling", "done"}
                        /\ Spent(Reported(x)) <=> at[x] = "over"
  /\ \A x \in Subject : /\ Spent(Sent(x))' <=> pc'[x] \in {"emitting", "polling", "done"}
                        /\ Spent(Reported(x))' <=> at'[x] = "over"
  BY DEF Sent, Reported, Event, Spent

\* How the calls and the threads may go on, seen from one of them.
CallGoes(x) ==
    /\ pc[x] \in {"emitting", "polling", "done"} => pc'[x] \in {"emitting", "polling", "done"}
    /\ pc'[x] \in Unsent => pc[x] \in Unsent
    /\ x \in Packet /\ pc'[x] = "wired" => pc[x] \in {"transmitted", "wired"}

LEMMA OnwardsBy ==
  ASSUME \A x \in Subject : CallGoes(x),
         \A x \in Subject : at[x] = "over" => at'[x] = "over",
         \A p \in Packet : callbacks'[p] => callbacks[p] \/ pc'[p] \notin Unsent,
         \A p \in Packet : at'[p] \in {"called", "submit", "buffer"}
                => at[p] \in {"called", "submit", "buffer"} \/ callbacks[p]
  PROVE  Onwards
<1>1. \A e \in Event : Spent(e) => Spent(e)'
  BY EventForms DEF CallGoes
<1> QED
  BY <1>1, PacketsAssumption DEF Onwards, CallGoes

LEMMA Movement ==
  ASSUME BookInv, StartInv, NothingStranded, [Next]_vars
  PROVE  /\ Onwards
         /\ Still \/ Turns \/ \E x \in Subject : HandsOver(x) \/ Tells(x)
<1> DEFINE Moves == Still \/ Turns \/ \E x \in Subject : HandsOver(x) \/ Tells(x)
<1>0. /\ pc \in [Subject -> CallSteps] /\ at \in [Subject -> ThreadSteps]
      /\ ready \in Seq(Handle)
      /\ callbacks \in [Packet -> BOOLEAN]
  BY DEF BookInv, TypeOK, BridgeTypeOK, PacketsTypeOK
<1>1. Packet \subseteq Subject /\ Packet \cap (Announcement \cup PathRequest) = {}
  BY PacketsAssumption, DaemonAssumption
<1> USE DEF callVars, packetVars, connVars, loopVars, bridgeVars
<1>2. ASSUME Moves, UNCHANGED <<pc, at, callbacks>>
      PROVE  Onwards /\ Moves
  BY <1>2, OnwardsBy DEF CallGoes
<1>3. ASSUME Moves, UNCHANGED <<at, callbacks>>, \A x \in Subject : CallGoes(x)
      PROVE  Onwards /\ Moves
  BY <1>3, OnwardsBy
<1>4. CASE Lifecycle
  <2>1. CASE StopServing
    <3>1. \A x \in Subject : CallGoes(x)
      BY <2>1 DEF StopServing, CallGoes, Unsent
    <3> QED
      BY <1>3, <2>1, <3>1 DEF StopServing, Still
  <2>2. CASE TakePending
    <3>1. buffer = <<>>
      BY <2>2 DEF TakePending, StartInv, NothingStranded
    <3>2. [i \in 1 .. Len(buffer) |-> HandOver(buffer[i])] = <<>>
      BY <3>1
    <3>3. ready' = ready
      BY <1>0, <2>2, <3>2, ConcatEmptySeq DEF TakePending, TakeBuffer
    <3> QED
      BY <1>2, <2>2, <3>3 DEF TakePending, TakeBuffer, Still
  <2>3. CASE ~StopServing /\ ~TakePending
    <3>1. UNCHANGED <<ready, sending, delivered, pc, at, callbacks>>
      BY <1>4, <2>3 DEF Lifecycle, AssignLoop, StartAnnounces, StopAnnounces, ClearLoop,
         EndLoop, StopRns, CloseLoop, SetMainLoop, ClearMainLoop
    <3> QED
      BY <1>2, <3>1 DEF Still
  <2> QED
    BY <2>1, <2>2, <2>3
\* A call that sends nothing yet, or goes on after it has.
<1>5. ASSUME NEW x \in Subject, UNCHANGED <<ready, sending, delivered, at>>,
             \E step \in CallSteps : Goto(x, step),
             CallGoes(x), UNCHANGED callbacks
      PROVE  Onwards /\ Moves
  <2>1. \A y \in Subject : CallGoes(y)
    BY <1>0, <1>5 DEF Goto, CallGoes
  <2> QED
    BY <1>3, <1>5, <2>1 DEF Still
<1>6. ASSUME NEW x \in Subject, RestAdmit(x)
      PROVE  Onwards /\ Moves
  BY <1>0, <1>1, <1>5, <1>6 DEF RestAdmit, Goto, CallGoes, CallSteps, Unsent
<1>7. ASSUME NEW p \in Packet, Send(p)
      PROVE  Onwards /\ Moves
  BY <1>0, <1>1, <1>5, <1>7 DEF Send, Requested, Goto, CallGoes, CallSteps, Unsent
<1>8. ASSUME NEW p \in Packet, Transmit(p)
      PROVE  Onwards /\ Moves
  BY <1>0, <1>1, <1>5, <1>8 DEF Transmit, Goto, CallGoes, CallSteps, Unsent
<1>9. ASSUME NEW p \in Packet, Wire(p)
      PROVE  Onwards /\ Moves
  <2>1. \A x \in Subject : CallGoes(x)
    BY <1>0, <1>1, <1>9 DEF Wire, Goto, CallGoes, Unsent
  <2>2. pc'[p] \in {"wired", "done"} /\ \A q \in Packet \ {p} : callbacks'[q] = callbacks[q]
    BY <1>0, <1>1, <1>9 DEF Wire, Goto
  <2>3. UNCHANGED at /\ Still
    BY <1>9 DEF Wire, Still
  <2>4. \A q \in Packet : callbacks'[q] => callbacks[q] \/ pc'[q] \notin Unsent
    BY <2>2 DEF Unsent
  <2> QED
    BY <2>1, <2>3, <2>4, OnwardsBy
<1>10. ASSUME NEW x \in Subject, FanOut(Sent(x)), Goto(x, "emitting"), UNCHANGED callbacks,
              IF x \in Packet THEN pc[x] = "wired" ELSE pc[x] \in {"idle", "admitted"}
       PROVE  Onwards /\ Moves
  <2>1. Tells(x)
    BY <1>10 DEF Tells, FanOut, Goto
  <2>2. \A y \in Subject : CallGoes(y)
    BY <1>0, <1>10 DEF Goto, CallGoes, Unsent
  <2> QED
    BY <1>3, <1>10, <2>1, <2>2 DEF FanOut
<1>11. ASSUME NEW p \in Packet, Emit(p)
       PROVE  Onwards /\ Moves
  BY <1>1, <1>10, <1>11 DEF Emit
<1>12. ASSUME NEW x \in Subject, x \notin Packet, Announce(x) \/ RequestPath(x)
       PROVE  Onwards /\ Moves
  <2>1. CASE FanOut(Sent(x)) /\ Goto(x, "emitting") /\ UNCHANGED <<sessionState, packetVars>>
    BY <1>10, <1>12, <2>1 DEF Announce, RequestPath, Requested
  <2>2. CASE Goto(x, "done") /\ UNCHANGED bridgeVars /\ UNCHANGED <<sessionState, packetVars>>
    BY <1>0, <1>5, <1>12, <2>2 DEF Announce, RequestPath, Requested, Goto, CallGoes,
       CallSteps, Unsent
  <2> QED
    BY <1>12, <2>1, <2>2 DEF Announce, RequestPath
<1>13. ASSUME NEW x \in Subject, Reply(x) \/ AskRns(x) \/ PathAnswer(x)
       PROVE  Onwards /\ Moves
  BY <1>0, <1>5, <1>13 DEF Reply, AskRns, PathAnswer, Goto, CallGoes, CallSteps, Unsent
<1>14. ASSUME NEW c \in Conn, Connect(c)
       PROVE  Onwards /\ Moves
  BY <1>2, <1>14 DEF Connect, Register, Attach, Close, Still
<1>15. CASE EndSession
  <2>1. UNCHANGED <<pc, at>> /\ Still /\ \A p \in Packet : callbacks'[p] => callbacks[p]
    BY <1>0, <1>15 DEF EndSession, Still
  <2> QED
    BY <2>1, OnwardsBy DEF CallGoes
<1>16. CASE LoopTurn
  <2>1. CASE \E c \in Conn : Unregister(c)
    BY <1>2, <1>16, <2>1 DEF LoopTurn, Unregister, Still
  <2>2. CASE RunHandle \/ \E c \in Conn : SendDone(c)
    <3>1. UNCHANGED <<pc, at, callbacks>>
      BY <1>16, <2>2 DEF LoopTurn, RunHandle, SendDone
    <3>2. Turns
      BY <1>16, <2>2, <3>1 DEF LoopTurn, LoopFree, Turns
    <3> QED
      BY <1>2, <3>1, <3>2
  <2> QED
    BY <1>16, <2>1, <2>2 DEF LoopTurn
\* A thread that does not hand over.
<1>17. ASSUME NEW x \in Subject, UNCHANGED <<pc, callbacks>>, Moves,
              \E step \in ThreadSteps : Goes(x, step),
              at[x] # "over",
              x \in Packet /\ at'[x] \in {"called", "submit", "buffer"}
                  => at[x] \in {"called", "submit", "buffer"} \/ callbacks[x]
       PROVE  Onwards /\ Moves
  <2>1. \A y \in Subject \ {x} : at'[y] = at[y]
    BY <1>0, <1>17 DEF Goes
  <2>2. \A y \in Subject : CallGoes(y)
    BY <1>17 DEF CallGoes
  <2> QED
    BY <1>1, <1>17, <2>1, <2>2, OnwardsBy
<1>18. ASSUME NEW x \in Subject, ReadLoop(x) \/ Submit(x) \/ Store(x),
              UNCHANGED <<pc, callbacks>>
       PROVE  Onwards /\ Moves
  <2>1. CASE Submit(x)
    <3>1. Moves
      <4>1. CASE loop = "closed"
        BY <2>1, <4>1 DEF Submit, Still
      <4>2. CASE loop # "closed"
        BY <1>18, <2>1, <4>2 DEF Submit, Goes, HandsOver
      <4> QED
        BY <4>1, <4>2
    <3> QED
      BY <1>0, <1>17, <1>18, <2>1, <3>1 DEF Submit, Goes, ThreadSteps
  <2>2. CASE ReadLoop(x) \/ Store(x)
    <3>1. Moves
      BY <2>2 DEF ReadLoop, Store, Still
    <3> QED
      BY <1>0, <1>17, <1>18, <2>2, <3>1 DEF ReadLoop, Store, Goes, ThreadSteps
  <2> QED
    BY <1>18, <2>1, <2>2
<1>19. ASSUME NEW p \in Packet, EnterCallback(p)
       PROVE  Onwards /\ Moves
  <2>1. Moves
    BY <1>19 DEF EnterCallback, Still
  <2> QED
    BY <1>0, <1>1, <1>17, <1>19, <2>1 DEF EnterCallback, Goes, ThreadSteps
<1>20. ASSUME NEW p \in Packet, ReceiptThread(p)
       PROVE  Onwards /\ Moves
  BY <1>1, <1>18, <1>19, <1>20 DEF ReceiptThread, LeaveCallback
<1>21. ASSUME NEW a \in Announcement, AnnounceThread(a)
       PROVE  Onwards /\ Moves
  BY <1>18, <1>21, DaemonAssumption DEF AnnounceThread
<1>22. ASSUME NEW p \in Packet, RnsConclude(p)
       PROVE  Onwards /\ Moves
  <2>1. Moves /\ at[p] = "idle"
    BY <1>22 DEF RnsConclude, Still, BookInv, PhaseInv
  <2> QED
    BY <1>0, <1>1, <1>17, <1>22, <2>1 DEF RnsConclude, Goes, ThreadSteps
<1>23. ASSUME NEW a \in Announcement, RnsAnnounce(a)
       PROVE  Onwards /\ Moves
  <2>1. Moves /\ a \in Subject /\ a \notin Packet
    BY <1>1, <1>23, DaemonAssumption DEF RnsAnnounce, Still
  <2> QED
    BY <1>0, <1>17, <1>23, <2>1 DEF RnsAnnounce, Goes, ThreadSteps
<1>24. CASE UNCHANGED vars
  BY <1>2, <1>24 DEF vars, Still
<1>25. ASSUME NEW x \in Subject, Begin(x)
       PROVE  Onwards /\ Moves
  BY <1>1, <1>7, <1>12, <1>25 DEF Begin
<1>26. ASSUME NEW x \in Subject, Proceed(x)
       PROVE  Onwards /\ Moves
  BY <1>8, <1>9, <1>11, <1>13, <1>26 DEF Proceed
<1> QED
  BY <1>4, <1>6, <1>14, <1>15, <1>16, <1>20, <1>21, <1>22, <1>23, <1>24, <1>25, <1>26
     DEF Next, Client, RnsThread, Rns

-----------------------------------------------------------------------------
(***************************************************************************)
(* One copy of every event.                                                *)
(***************************************************************************)

LEMMA QueueTypes ==
  ASSUME BookInv
  PROVE  /\ ready \in Seq(Handle)
         /\ sending \in [Conn -> Seq(Event)] /\ delivered \in [Conn -> Seq(Event)]
  BY DEF BookInv, TypeOK, BridgeTypeOK

\* What handles are for.
LEMMA Handles ==
  ASSUME NEW f \in Event, NEW conns \in SUBSET Conn
  PROVE  /\ \A h \in {HandOver(f), Task(f), Write(f, conns)} : h \in Handle /\ h.event = f
         /\ HandOver(f).step = "handover" /\ Task(f).step = "task"
         /\ Write(f, conns).step = "write" /\ Write(f, conns).to = conns
  BY DEF HandOver, Task, Write, Handle

LEMMA TargetsType == ASSUME BookInv, NEW f PROVE Targets(f) \in SUBSET Conn
  BY DEF BookInv, TypeOK, BridgeTypeOK, Targets

\* An event that comes in for the first time.
LEMMA OneComesIn ==
  ASSUME FeedInv, Onwards, NEW f \in Event, ~Spent(f), Spent(f)',
         NEW h \in Handle, h.event = f,
         ready' = Append(ready, h), UNCHANGED <<sending, delivered>>,
         NEW e \in Event
  PROVE  OneCopy(e)'
<1>1. ready \in Seq(Handle)
  BY QueueTypes DEF FeedInv
<1>2. OneCopy(e) /\ (Spent(e) => Spent(e)')
  BY DEF FeedInv, OnceInv, Onwards
<1>3. h \in Carrying(e) <=> e = f
  BY DEF Carrying
<1>4. /\ Has(ready', Carrying(e)) <=> Has(ready, Carrying(e)) \/ h \in Carrying(e)
      /\ Once(ready, Carrying(e)) /\ (h \in Carrying(e) => ~Has(ready, Carrying(e)))
            => Once(ready', Carrying(e))
  BY <1>1, AppendHas
<1> QED
  BY <1>2, <1>3, <1>4 DEF OneCopy

LEMMA OneRuns ==
  ASSUME FeedInv, Onwards, RunHandle, NEW e \in Event
  PROVE  OneCopy(e)'
<1> DEFINE h == Head(ready)
<1>1. /\ ready \in Seq(Handle) /\ ready # <<>> /\ sending \in [Conn -> Seq(Event)]
      /\ h \in Handle /\ Tail(ready) \in Seq(Handle)
  BY QueueTypes, TailHas DEF FeedInv, RunHandle
<1>2. OneCopy(e) /\ (Spent(e) => Spent(e)')
  BY DEF FeedInv, OnceInv, Onwards
<1>3. /\ Has(ready, Carrying(e)) <=> h \in Carrying(e) \/ Has(Tail(ready), Carrying(e))
      /\ Once(Tail(ready), Carrying(e))
      /\ h \in Carrying(e) => ~Has(Tail(ready), Carrying(e))
  BY <1>1, <1>2, TailHas DEF OneCopy
<1>4. h.event \in Event /\ (h \in Carrying(e) <=> h.event = e)
  BY <1>1 DEF Handle, Carrying
\* A handle makes another one for the same event.
<1>5. ASSUME NEW g \in Handle, g.event = h.event, ready' = Append(Tail(ready), g),
             UNCHANGED <<sending, delivered>>
      PROVE  OneCopy(e)'
  <2>1. g \in Carrying(e) <=> h \in Carrying(e)
    BY <1>4, <1>5 DEF Carrying
  <2>2. /\ Has(ready', Carrying(e)) <=> Has(Tail(ready), Carrying(e)) \/ g \in Carrying(e)
        /\ Once(ready', Carrying(e))
    BY <1>1, <1>3, <1>5, <2>1, AppendHas
  <2> QED
    BY <1>2, <1>3, <1>5, <2>1, <2>2 DEF OneCopy
<1>6. CASE h.step = "handover" \/ h.step = "task"
  <2>1. Targets(h.event) \in SUBSET Conn
    BY TargetsType DEF FeedInv
  <2>2. PICK g \in {Task(h.event), Write(h.event, Targets(h.event))} :
            ready' = Append(Tail(ready), g)
    BY <1>6 DEF RunHandle
  <2>3. UNCHANGED <<sending, delivered>>
    BY <1>6 DEF RunHandle
  <2>4. g \in Handle /\ g.event = h.event
    <3> HIDE DEF h
    <3> QED
      BY <1>4, <2>1, Handles
  <2> QED
    BY <1>5, <2>2, <2>3, <2>4
<1>7. CASE h.step = "write"
  <2>1. ready' = Tail(ready) /\ UNCHANGED delivered
    BY <1>7 DEF RunHandle
  <2>2. Has(ready', Carrying(e)) => Has(ready, Carrying(e)) /\ h \notin Carrying(e)
    BY <1>3, <2>1
  <2>3. ASSUME NEW c \in Conn
        PROVE  /\ Has(sending'[c], {e}) =>
                     Has(sending[c], {e}) \/ (h \in Carrying(e) /\ ~Has(sending[c], {e}))
               /\ Once(sending'[c], {e})
    <3>1. CASE sending'[c] = sending[c]
      BY <1>2, <3>1 DEF OneCopy
    <3>2. CASE sending'[c] = Append(sending[c], h.event)
      <4>1. sending[c] \in Seq(Event) /\ (h.event \in {e} <=> h \in Carrying(e))
        BY <1>1, <1>4
      <4>2. h.event \in {e} => ~Has(sending[c], {e})
        BY <1>2, <1>3, <4>1 DEF OneCopy
      <4>3. Once(sending[c], {e})
        BY <1>2 DEF OneCopy
      <4> HIDE DEF h
      <4> DEFINE t == Append(sending[c], h.event)
      <4>4. /\ Has(t, {e}) <=> Has(sending[c], {e}) \/ h.event \in {e}
            /\ Once(sending[c], {e}) /\ (h.event \in {e} => ~Has(sending[c], {e}))
                  => Once(t, {e})
        BY <1>4, <4>1, AppendHas
      <4>5. /\ Has(sending'[c], {e}) <=> Has(sending[c], {e}) \/ h.event \in {e}
            /\ Once(sending'[c], {e})
        BY <3>2, <4>2, <4>3, <4>4
      <4> QED
        BY <4>1, <4>2, <4>5
    <3> QED
      BY <1>7, <3>1, <3>2 DEF RunHandle
  <2>4. h \in Carrying(e) => Has(ready, Carrying(e))
    BY <1>3
  <2> QED
    BY <1>2, <1>3, <2>1, <2>2, <2>3, <2>4 DEF OneCopy
<1> QED
  BY <1>1, <1>6, <1>7 DEF Handle

LEMMA OneIsSent ==
  ASSUME FeedInv, Onwards, NEW d \in Conn, SendDone(d), NEW e \in Event
  PROVE  OneCopy(e)'
<1> DEFINE s == sending[d]
<1>1. /\ s \in Seq(Event) /\ s # <<>> /\ delivered[d] \in Seq(Event)
      /\ sending \in [Conn -> Seq(Event)] /\ delivered \in [Conn -> Seq(Event)]
  BY QueueTypes DEF FeedInv, SendDone
<1>2. OneCopy(e) /\ (Spent(e) => Spent(e)')
  BY DEF FeedInv, OnceInv, Onwards
<1>3. /\ ready' = ready
      /\ sending' = [sending EXCEPT ![d] = Tail(s)]
      /\ \/ delivered' = delivered
         \/ delivered' = [delivered EXCEPT ![d] = Append(delivered[d], Head(s))]
  BY DEF SendDone
<1>4. /\ Head(s) \in Event
      /\ Has(s, {e}) <=> Head(s) \in {e} \/ Has(Tail(s), {e})
      /\ Once(s, {e}) => Once(Tail(s), {e}) /\ (Head(s) \in {e} => ~Has(Tail(s), {e}))
  BY <1>1, TailHas
<1>5. /\ Has(Append(delivered[d], Head(s)), {e}) <=> Has(delivered[d], {e}) \/ Head(s) \in {e}
      /\ Once(delivered[d], {e}) /\ (Head(s) \in {e} => ~Has(delivered[d], {e}))
            => Once(Append(delivered[d], Head(s)), {e})
  BY <1>1, <1>4, AppendHas
<1>6. ASSUME NEW c \in Conn, c # d
      PROVE  sending'[c] = sending[c] /\ delivered'[c] = delivered[c]
  BY <1>1, <1>3, <1>6
<1>7. /\ sending'[d] = Tail(s)
      /\ delivered'[d] = delivered[d] \/ delivered'[d] = Append(delivered[d], Head(s))
  BY <1>1, <1>3
<1> HIDE DEF s
<1>8. s = sending[d]
  BY DEF s
<1>9. /\ Has(sending'[d], {e}) \/ Has(delivered'[d], {e})
            => Has(sending[d], {e}) \/ Has(delivered[d], {e})
      /\ Has(sending'[d], {e}) => ~Has(delivered'[d], {e})
      /\ Once(sending'[d], {e}) /\ Once(delivered'[d], {e})
  BY <1>2, <1>4, <1>5, <1>7, <1>8 DEF OneCopy
<1> QED
  BY <1>2, <1>3, <1>6, <1>9 DEF OneCopy

LEMMA NextOnce ==
  ASSUME FeedInv, [Next]_vars
  PROVE  OnceInv'
<1>1. Onwards /\ (Still \/ Turns \/ \E x \in Subject : HandsOver(x) \/ Tells(x))
  BY Movement DEF FeedInv
<1> SUFFICES ASSUME NEW e \in Event PROVE OneCopy(e)'
  BY DEF OnceInv
<1>2. CASE Still
  BY <1>1, <1>2 DEF Still, Onwards, FeedInv, OnceInv, OneCopy
<1>3. CASE Turns
  BY <1>1, <1>3, OneRuns, OneIsSent DEF Turns
<1>4. ASSUME NEW x \in Subject, HandsOver(x)
      PROVE  OneCopy(e)'
  <2>1. at \in [Subject -> ThreadSteps]
    BY DEF FeedInv, BookInv, TypeOK, BridgeTypeOK
  <2>2. ~Spent(Reported(x)) /\ Spent(Reported(x))'
    BY <1>4, <2>1, EventForms DEF HandsOver
  <2> QED
    BY <1>1, <1>4, <2>2, EventForms, Handles, OneComesIn DEF HandsOver
<1>5. ASSUME NEW x \in Subject, Tells(x)
      PROVE  OneCopy(e)'
  <2>1. pc \in [Subject -> CallSteps] /\ Targets(Sent(x)) \in SUBSET Conn
    BY TargetsType DEF FeedInv, BookInv, TypeOK, PacketsTypeOK
  <2>2. ~Spent(Sent(x)) /\ Spent(Sent(x))'
    BY <1>5, <2>1, EventForms DEF Tells
  <2> QED
    BY <1>1, <1>5, <2>1, <2>2, EventForms, Handles, OneComesIn DEF Tells
<1> QED
  BY <1>1, <1>2, <1>3, <1>4, <1>5

-----------------------------------------------------------------------------
(***************************************************************************)
(* packet.sent before the end of the packet.                               *)
(***************************************************************************)

\* What SentFirst says of the queue and of a connection's events, under the
\* names used below.
LEMMA SentFirstParts ==
  ASSUME FeedInv, NEW p \in Packet
  PROVE  /\ SentFirst(p)
         /\ p \in Subject /\ Sent(p) \in Event /\ Reported(p) \in Event
         /\ Sent(p) # Reported(p)
  BY PacketsAssumption, EventForms DEF FeedInv, OrderInv

\* A step that adds no handle for p, and nothing to what is sent.
LEMMA FirstKept ==
  ASSUME FeedInv, Onwards, NEW p \in Packet,
         Has(ready', Carrying(Reported(p))) => Has(ready, Carrying(Reported(p))),
         Has(ready', Begun(Reported(p))) => Has(ready, Begun(Reported(p))),
         Has(ready', Unwritten(Sent(p))) => Has(ready, Unwritten(Sent(p))),
         Has(ready', Carrying(Sent(p))) => Has(ready, Carrying(Sent(p))),
         Ordered(ready', Carrying(Sent(p)), Begun(Reported(p))),
         UNCHANGED <<sending, delivered>>
  PROVE  SentFirst(p)'
<1> DEFINE S == Sent(p)
           R == Reported(p)
<1>1. SentFirst(p)
  BY SentFirstParts
<1>2. /\ pc'[p] \in Unsent => pc[p] \in Unsent
      /\ pc'[p] = "wired" => pc[p] \in {"transmitted", "wired"}
      /\ callbacks'[p] => callbacks[p] \/ pc'[p] \notin Unsent
      /\ at'[p] \in {"called", "submit", "buffer"}
            => at[p] \in {"called", "submit", "buffer"} \/ callbacks[p]
  BY DEF Onwards
<1>3. Has(ready, Begun(R)) => Has(ready, Carrying(R))
  BY DEF Has, Begun, Carrying
<1>4. "transmitted" \in Unsent
  BY DEF Unsent
<1> HIDE DEF S, R
<1>5. \/ callbacks'[p]
      \/ at'[p] \in {"called", "submit", "buffer"}
      \/ Has(ready', Carrying(R))
      => pc'[p] \notin Unsent
  BY <1>1, <1>2 DEF SentFirst, S, R
<1>6. pc'[p] = "wired" => ~Has(ready', Begun(R))
  BY <1>1, <1>2, <1>3, <1>4 DEF SentFirst, S, R
<1>7. ASSUME NEW c \in Conn
      PROVE  /\ Has(sending'[c], {R}) \/ Has(delivered'[c], {R})
                   => /\ pc'[p] \notin Unsent \cup {"wired"}
                      /\ ~Has(ready', Carrying(S))
             /\ Has(sending'[c], {S}) => ~Has(delivered'[c], {R})
             /\ Ordered(sending'[c], {S}, {R})
             /\ Ordered(delivered'[c], {S}, {R})
  BY <1>1, <1>2, <1>4 DEF SentFirst, S, R
<1> QED
  BY <1>1, <1>5, <1>6, <1>7 DEF SentFirst, S, R

\* A handle that comes in for another event.
LEMMA FirstStays ==
  ASSUME FeedInv, Onwards, NEW p \in Packet,
         NEW h \in Handle, h.event \notin {Sent(p), Reported(p)},
         ready' = Append(ready, h), UNCHANGED <<sending, delivered>>
  PROVE  SentFirst(p)'
<1> DEFINE S == Sent(p)
           R == Reported(p)
<1>1. Ordered(ready, Carrying(S), Begun(R)) /\ ready \in Seq(Handle)
  BY SentFirstParts, QueueTypes DEF FeedInv, SentFirst
<1>2. h \notin Carrying(S) \cup Begun(S) \cup Unwritten(S) \cup Carrying(R) \cup Begun(R)
  BY DEF Carrying, Begun, Unwritten
<1> HIDE DEF S, R
<1>3. /\ Has(ready', Carrying(R)) <=> Has(ready, Carrying(R))
      /\ Has(ready', Begun(R)) <=> Has(ready, Begun(R))
      /\ Has(ready', Unwritten(S)) <=> Has(ready, Unwritten(S))
      /\ Has(ready', Carrying(S)) <=> Has(ready, Carrying(S))
  BY <1>1, <1>2, AppendHas
<1>4. Ordered(ready', Carrying(S), Begun(R))
  BY <1>1, <1>2, AppendHas
<1> QED
  BY <1>3, <1>4, FirstKept DEF S, R

\* One more event is to be written.
LEMMA EventComes ==
  ASSUME NEW q, q \in Seq(Event), NEW f, f \in Event, NEW r, r = Append(q, f), NEW a, NEW b,
         f = a => a # b /\ ~Has(q, {b}), Ordered(q, {a}, {b})
  PROVE  /\ Has(r, {a}) => Has(q, {a}) \/ f = a
         /\ Has(r, {b}) => Has(q, {b}) \/ f = b
         /\ Ordered(r, {a}, {b})
<1>1. /\ Has(r, {a}) <=> Has(q, {a}) \/ f \in {a}
      /\ Has(r, {b}) <=> Has(q, {b}) \/ f \in {b}
      /\ Ordered(q, {a}, {b}) /\ (f \in {a} => ~Has(q, {b}) /\ f \notin {b})
               => Ordered(r, {a}, {b})
  BY AppendHas
<1> QED
  BY <1>1

\* The thread hands over what RNS reports of p.
LEMMA FirstReported ==
  ASSUME FeedInv, Onwards, NEW p \in Packet, HandsOver(p)
  PROVE  SentFirst(p)'
<1> DEFINE S == Sent(p)
           R == Reported(p)
           h == HandOver(R)
<1>1. SentFirst(p) /\ ready \in Seq(Handle) /\ S # R /\ p \in Subject /\ R \in Event
  BY SentFirstParts, QueueTypes DEF FeedInv
<1>2. h \in Handle /\ h \notin Carrying(S) \cup Unwritten(S) \cup Begun(R)
  <2>1. h \in Handle /\ h.event = R /\ h.step = "handover"
    BY <1>1, Handles
  <2> HIDE DEF h, S, R
  <2> QED
    BY <1>1, <2>1 DEF Carrying, Unwritten, Begun
<1>3. /\ Has(ready', Begun(R)) <=> Has(ready, Begun(R))
      /\ Has(ready', Unwritten(S)) <=> Has(ready, Unwritten(S))
      /\ Has(ready', Carrying(S)) <=> Has(ready, Carrying(S))
  BY <1>1, <1>2, AppendHas DEF HandsOver
<1>4. Ordered(ready, Carrying(S), Begun(R)) => Ordered(ready', Carrying(S), Begun(R))
  BY <1>1, <1>2, AppendHas DEF HandsOver
<1>5. pc[p] \notin Unsent /\ pc' = pc /\ UNCHANGED <<sending, delivered>>
  BY <1>1 DEF HandsOver, SentFirst
<1> QED
  BY <1>1, <1>3, <1>4, <1>5 DEF SentFirst, Onwards

\* The handler hands packet.sent to the hub: the report is not under way yet,
\* or its coroutine has not begun.
LEMMA FirstSent ==
  ASSUME FeedInv, Onwards, NEW p \in Packet, Tells(p)
  PROVE  SentFirst(p)'
<1> DEFINE S == Sent(p)
           R == Reported(p)
           h == Write(S, Targets(S))
<1>1. SentFirst(p) /\ ready \in Seq(Handle) /\ S # R /\ p \in Subject /\ S \in Event
  BY SentFirstParts, QueueTypes DEF FeedInv
<1>2. h \in Handle /\ h \notin Carrying(R) \cup Unwritten(S) \cup Begun(R)
  <2>1. Targets(S) \in SUBSET Conn
    BY TargetsType DEF FeedInv
  <2>2. h \in Handle /\ h.event = S /\ h.step = "write"
    BY <1>1, <2>1, Handles
  <2> HIDE DEF h, S, R
  <2> QED
    BY <1>1, <2>2 DEF Carrying, Unwritten, Begun
<1>3. /\ Has(ready', Carrying(R)) <=> Has(ready, Carrying(R))
      /\ Has(ready', Begun(R)) <=> Has(ready, Begun(R))
      /\ Has(ready', Unwritten(S)) <=> Has(ready, Unwritten(S))
  <2>1. ready' = Append(ready, h)
    BY DEF Tells
  <2> HIDE DEF h, S, R
  <2> QED
    BY <1>1, <1>2, <2>1, AppendHas
<1>4. pc[p] = "wired" /\ pc'[p] = "emitting" /\ UNCHANGED <<sending, delivered>>
  BY <1>1 DEF Tells, FeedInv, BookInv, TypeOK, PacketsTypeOK
<1>5. ~Has(ready, Begun(R)) /\ Ordered(ready, Carrying(S), Begun(R))
  BY <1>1, <1>4 DEF SentFirst
<1>6. Ordered(ready', Carrying(S), Begun(R))
  BY <1>1, <1>2, <1>5, AppendHas DEF Tells
<1>7. \A c \in Conn : ~Has(sending[c], {R}) /\ ~Has(delivered[c], {R})
  BY <1>1, <1>4 DEF SentFirst
<1> QED
  BY <1>1, <1>3, <1>4, <1>6, <1>7 DEF SentFirst, Unsent

LEMMA FirstRuns ==
  ASSUME FeedInv, Onwards, NEW p \in Packet, RunHandle,
         pc[p] \notin {"transmitted", "wired"}, UNCHANGED <<pc, at, callbacks>>
  PROVE  SentFirst(p)'
<1> DEFINE S == Sent(p)
           R == Reported(p)
           h == Head(ready)
           t == Tail(ready)
<1>1. /\ SentFirst(p) /\ S # R
      /\ ready \in Seq(Handle) /\ ready # <<>> /\ sending \in [Conn -> Seq(Event)]
      /\ h \in Handle /\ t \in Seq(Handle)
  BY SentFirstParts, QueueTypes, TailHas DEF FeedInv, RunHandle
<1>2. /\ Has(ready, Carrying(R)) <=> h \in Carrying(R) \/ Has(t, Carrying(R))
      /\ Has(ready, Carrying(S)) <=> h \in Carrying(S) \/ Has(t, Carrying(S))
      /\ Has(ready, Unwritten(S)) <=> h \in Unwritten(S) \/ Has(t, Unwritten(S))
  BY <1>1, TailHas
<1>3. Ordered(t, Carrying(S), Begun(R)) /\ (h \in Begun(R) => ~Has(ready, Carrying(S)))
  BY <1>1, TailHas DEF SentFirst
<1>4. h.event \in Event /\ h.step \in {"handover", "task", "write"}
  BY <1>1 DEF Handle
<1>5. h \notin Unwritten(S) /\ ~Has(t, Unwritten(S))
  BY <1>1, <1>2 DEF SentFirst
\* A handle makes another one for the same event, which is not S.
<1>6. ASSUME NEW g \in Handle, g.event = h.event, ready' = Append(t, g),
             h.step # "write", UNCHANGED <<sending, delivered>>
      PROVE  SentFirst(p)'
  <2>1. h.event # S
    <3> HIDE DEF h, S
    <3> QED
      BY <1>1, <1>5, <1>6 DEF Unwritten
  <2>2. /\ g \notin Carrying(S) /\ g \notin Unwritten(S)
        /\ g \in Carrying(R) => h \in Carrying(R)
    <3> HIDE DEF h, S, R
    <3> QED
      BY <1>1, <1>6, <2>1 DEF Carrying, Unwritten
  <2>3. /\ Has(ready', Carrying(R)) => Has(ready, Carrying(R))
        /\ Has(ready', Carrying(S)) => Has(ready, Carrying(S))
        /\ ~Has(ready', Unwritten(S))
    <3> HIDE DEF h, t, S, R
    <3> QED
      BY <1>1, <1>2, <1>5, <1>6, <2>2, AppendHas
  <2>4. Ordered(ready', Carrying(S), Begun(R))
    <3> HIDE DEF h, t, S, R
    <3> QED
      BY <1>1, <1>3, <1>6, <2>2, AppendHas
  <2> QED
    BY <1>1, <1>6, <2>3, <2>4 DEF SentFirst
<1>7. CASE h.step = "handover" \/ h.step = "task"
  <2>1. Targets(h.event) \in SUBSET Conn
    BY TargetsType DEF FeedInv
  <2>2. PICK g \in {Task(h.event), Write(h.event, Targets(h.event))} :
            ready' = Append(t, g)
    BY <1>7 DEF RunHandle
  <2>3. UNCHANGED <<sending, delivered>> /\ h.step # "write"
    BY <1>7 DEF RunHandle
  <2>4. g \in Handle /\ g.event = h.event
    <3> HIDE DEF h
    <3> QED
      BY <1>4, <2>1, Handles
  <2> QED
    BY <1>6, <2>2, <2>3, <2>4
\* A fan-out: the events of the connections grow by h.event.
<1>8. CASE h.step = "write"
  <2>1. ready' = t /\ UNCHANGED delivered
    BY <1>8 DEF RunHandle
  <2>2. /\ h \in Carrying(S) <=> h.event = S
        /\ h \in Begun(R) <=> h.event = R
        /\ h.event = R => h \in Carrying(R)
    <3> HIDE DEF h, S, R
    <3> QED
      BY <1>1, <1>8 DEF Carrying, Begun
  <2>3. ASSUME NEW c \in Conn
        PROVE  /\ Has(sending'[c], {R}) => Has(sending[c], {R}) \/ h.event = R
               /\ Has(sending'[c], {S}) => Has(sending[c], {S}) \/ h.event = S
               /\ Ordered(sending'[c], {S}, {R})
    <3>1. CASE sending'[c] = sending[c]
      BY <1>1, <3>1 DEF SentFirst
    <3>2. CASE sending'[c] = Append(sending[c], h.event)
      <4>1. sending[c] \in Seq(Event)
        BY <1>1
      <4>2. h.event = S => ~Has(sending[c], {R})
        BY <1>1, <1>2, <2>2 DEF SentFirst
      <4>3. Ordered(sending[c], {S}, {R})
        BY <1>1 DEF SentFirst
      <4> HIDE DEF h, S, R
      <4>4. h.event \in Event /\ (h.event = S => S # R /\ ~Has(sending[c], {R}))
        BY <1>1, <1>4, <4>2
      <4> QED
        BY ONLY <3>2, <4>1, <4>3, <4>4, EventComes
    <3> QED
      BY <1>8, <3>1, <3>2 DEF RunHandle
  <2>4. /\ h.event = R => Has(ready, Carrying(R)) /\ ~Has(ready, Carrying(S))
        /\ h.event = S => Has(ready, Carrying(S))
    BY <1>2, <1>3, <2>2
  <2>5. /\ Has(t, Carrying(R)) => Has(ready, Carrying(R))
        /\ Has(t, Carrying(S)) => Has(ready, Carrying(S))
    BY <1>2
  <2> HIDE DEF h, t, S, R
  <2>6. ASSUME NEW c \in Conn
        PROVE  /\ Has(sending'[c], {R}) \/ Has(delivered'[c], {R})
                    => /\ pc'[p] \notin Unsent \cup {"wired"}
                       /\ ~Has(ready', Carrying(S))
               /\ Has(sending'[c], {S}) => ~Has(delivered'[c], {R})
               /\ Ordered(delivered'[c], {S}, {R})
    BY <1>1, <2>1, <2>3, <2>4, <2>5 DEF SentFirst, S, R
  <2> QED
    BY <1>1, <1>3, <1>5, <2>1, <2>3, <2>5, <2>6 DEF SentFirst, S, R
<1> QED
  BY <1>4, <1>7, <1>8

LEMMA FirstIsSent ==
  ASSUME FeedInv, Onwards, NEW p \in Packet, NEW d \in Conn, SendDone(d),
         UNCHANGED <<pc, at, callbacks>>
  PROVE  SentFirst(p)'
<1> DEFINE S == Sent(p)
           R == Reported(p)
           s == sending[d]
           n == Append(delivered[d], Head(s))
<1>1. /\ SentFirst(p) /\ S # R
      /\ s \in Seq(Event) /\ s # <<>> /\ delivered[d] \in Seq(Event)
      /\ sending \in [Conn -> Seq(Event)] /\ delivered \in [Conn -> Seq(Event)]
  BY SentFirstParts, QueueTypes DEF FeedInv, SendDone
<1>2. /\ ready' = ready
      /\ sending' = [sending EXCEPT ![d] = Tail(s)]
      /\ delivered' = delivered \/ delivered' = [delivered EXCEPT ![d] = n]
  BY DEF SendDone
<1>3. ASSUME NEW c \in Conn, c # d
      PROVE  sending'[c] = sending[c] /\ delivered'[c] = delivered[c]
  BY <1>1, <1>2, <1>3
<1>4. /\ sending'[d] = Tail(s)
      /\ delivered'[d] = delivered[d] \/ delivered'[d] = n
  BY <1>1, <1>2
<1>5. /\ Head(s) \in Event
      /\ Has(s, {S}) <=> Head(s) \in {S} \/ Has(Tail(s), {S})
      /\ Has(s, {R}) <=> Head(s) \in {R} \/ Has(Tail(s), {R})
      /\ Ordered(s, {S}, {R}) => /\ Ordered(Tail(s), {S}, {R})
                                 /\ Head(s) \in {R} => ~Has(s, {S})
  BY <1>1, TailHas
<1>6. /\ Has(n, {R}) <=> Has(delivered[d], {R}) \/ Head(s) \in {R}
      /\ Ordered(delivered[d], {S}, {R})
         /\ (Head(s) \in {S} => ~Has(delivered[d], {R}) /\ Head(s) \notin {R})
            => Ordered(n, {S}, {R})
  BY <1>1, <1>5, AppendHas
<1>7. /\ Ordered(s, {S}, {R}) /\ Ordered(delivered[d], {S}, {R})
      /\ Has(s, {S}) => ~Has(delivered[d], {R})
      /\ Has(s, {R}) \/ Has(delivered[d], {R})
            => pc[p] \notin Unsent \cup {"wired"} /\ ~Has(ready, Carrying(S))
  BY <1>1 DEF SentFirst
<1> HIDE DEF s, n, S, R
<1>8. /\ Has(sending'[d], {R}) \/ Has(delivered'[d], {R})
            => pc[p] \notin Unsent \cup {"wired"} /\ ~Has(ready, Carrying(S))
      /\ Has(sending'[d], {S}) => ~Has(delivered'[d], {R})
      /\ Ordered(sending'[d], {S}, {R})
      /\ Ordered(delivered'[d], {S}, {R})
  BY <1>1, <1>4, <1>5, <1>6, <1>7
<1> QED
  BY <1>1, <1>2, <1>3, <1>8 DEF SentFirst, S, R

LEMMA NextOrder ==
  ASSUME FeedInv, [Next]_vars
  PROVE  OrderInv'
<1>1. Onwards /\ (Still \/ Turns \/ \E x \in Subject : HandsOver(x) \/ Tells(x))
  BY Movement DEF FeedInv
<1> SUFFICES ASSUME NEW p \in Packet PROVE SentFirst(p)'
  BY DEF OrderInv
<1>2. CASE Still
  <2>1. Ordered(ready, Carrying(Sent(p)), Begun(Reported(p)))
    BY SentFirstParts DEF SentFirst
  <2> QED
    BY <1>1, <1>2, <2>1, FirstKept DEF Still
<1>3. CASE Turns
  BY <1>1, <1>3, FirstRuns, FirstIsSent DEF Turns
<1>4. ASSUME NEW x \in Subject, HandsOver(x)
      PROVE  SentFirst(p)'
  <2>1. CASE x = p
    BY <1>1, <1>4, <2>1, FirstReported
  <2>2. CASE x # p
    <3>1. Reported(x) \in Event /\ Reported(x) \notin {Sent(p), Reported(p)}
      BY <2>2, EventForms, PacketsAssumption
    <3> QED
      BY <1>1, <1>4, <3>1, Handles, FirstStays DEF HandsOver
  <2> QED
    BY <2>1, <2>2
<1>5. ASSUME NEW x \in Subject, Tells(x)
      PROVE  SentFirst(p)'
  <2>1. CASE x = p
    BY <1>1, <1>5, <2>1, FirstSent
  <2>2. CASE x # p
    <3>1. Sent(x) \in Event /\ Sent(x) \notin {Sent(p), Reported(p)}
      BY <2>2, EventForms, PacketsAssumption
    <3>2. Targets(Sent(x)) \in SUBSET Conn
      BY TargetsType DEF FeedInv
    <3> QED
      BY <1>1, <1>5, <3>1, <3>2, Handles, FirstStays DEF Tells
  <2> QED
    BY <2>1, <2>2
<1> QED
  BY <1>1, <1>2, <1>3, <1>4, <1>5

-----------------------------------------------------------------------------
(***************************************************************************)
(* What follows for the clients.                                           *)
(***************************************************************************)

LEMMA InitFeed == Init => FeedInv
<1> SUFFICES ASSUME Init PROVE FeedInv
  OBVIOUS
<1>1. /\ ready = <<>>
      /\ \A c \in Conn : sending[c] = <<>> /\ delivered[c] = <<>>
      /\ \A p \in Packet : ~callbacks[p] /\ at[p] = "idle" /\ pc[p] = "idle"
  BY PacketsAssumption DEF Init, BridgeInit, PacketsInit
<1>2. OnceInv
  BY <1>1, EmptyHas DEF OnceInv, OneCopy
<1>3. OrderInv
  BY <1>1, EmptyHas DEF OrderInv, SentFirst
<1> QED
  BY <1>2, <1>3, InitBook DEF FeedInv

LEMMA FeedInvariance == Spec => []FeedInv
<1>1. FeedInv /\ [Next]_vars => FeedInv'
  BY NextBook, NextStart, NextOnce, NextOrder DEF FeedInv
<1> QED
  BY <1>1, InitFeed, PTL DEF Spec

\* packet.sent comes before packet.receipt.delivered or packet.receipt.failed
\* at every client that is told both, though RNS may prove the packet before
\* packet.sent is handed to the hub (PacketsService.send, run_async, _fanout,
\* send_json).
THEOREM SentComesFirst == Spec => []ReceiptAfterSent
<1>1. FeedInv => ReceiptAfterSent
  BY DEF FeedInv, OrderInv, SentFirst, Ordered, ReceiptAfterSent
<1> QED
  BY <1>1, FeedInvariance, PTL

LEMMA ClosedStays == [Next]_vars => closed \subseteq closed'
  BY DEF Next, vars, Lifecycle, AssignLoop, TakePending, StartAnnounces, StopServing,
     StopAnnounces, ClearLoop, EndLoop, StopRns, CloseLoop, SetMainLoop, TakeBuffer,
     ClearMainLoop, Client, RestAdmit, Begin, Send, Announce, RequestPath, Connect,
     Register, Attach, Close, EndSession, LoopTurn, RunHandle, SendDone, Unregister,
     Proceed, Transmit, Wire, Emit, Reply, AskRns, PathAnswer, FanOut, RnsThread,
     ReceiptThread, EnterCallback, LeaveCallback, AnnounceThread, ReadLoop, Submit,
     Store, Rns, RnsConclude, RnsAnnounce, callVars, packetVars, connVars, loopVars,
     bridgeVars

\* A write that ends tells its client something new, and in order.
LEMMA SendTells ==
  ASSUME FeedInv, NEW c \in Conn, SendDone(c)
  PROVE  Feed!Next
<1> DEFINE s == sending[c]
           e == Head(s)
<1>1. s \in Seq(Event) /\ s # <<>> /\ e \in Event
  BY QueueTypes, TailHas DEF FeedInv, SendDone
<1>2. closed' = closed
  BY DEF SendDone, connVars
<1>3. CASE c \in closed
  BY <1>2, <1>3 DEF SendDone, Feed!Next, Feed!Leave
<1>4. CASE c \notin closed
  <2>1. delivered' = [delivered EXCEPT ![c] = Append(delivered[c], e)]
    BY <1>4 DEF SendDone
  <2>2. Has(s, {e})
    BY <1>1, TailHas
  <2>3. ~Feed!Heard(c, e)
    BY <1>1, <2>2 DEF FeedInv, OnceInv, OneCopy, Feed!Heard, Has
  <2>4. ASSUME NEW p \in Packet, e = Sent(p)
        PROVE  ~Feed!Heard(c, Reported(p))
    BY <2>2, <2>4 DEF FeedInv, OrderInv, SentFirst, Feed!Heard, Has
  <2> HIDE DEF e
  <2>5. \A f \in Event : <<e, f>> \in {<<Sent(p), Reported(p)>> : p \in Packet}
                            => ~Feed!Heard(c, f)
    BY <2>4
  <2>6. Feed!Tell(c, e)
    BY <1>2, <1>4, <2>1, <2>3, <2>5 DEF Feed!Tell
  <2> QED
    BY <1>1, <2>6 DEF Feed!Next
<1> QED
  BY <1>3, <1>4

\* The connections of a daemon implement ClientFeed: no client is told an
\* event twice, the end of a packet before packet.sent, or anything once its
\* connection has closed (run_async, hub, send_json).
THEOREM FeedsAreOrdered == Spec => ClientsAreToldInOrder
<1>1. Init => Feed!Init
  BY DEF Init, BridgeInit, Feed!Init
<1>2. FeedInv /\ [Next]_vars => [Feed!Next]_(Feed!vars)
  <2> SUFFICES ASSUME FeedInv, [Next]_vars
               PROVE  [Feed!Next]_(Feed!vars)
    OBVIOUS
  <2>1. UNCHANGED delivered \/ \E c \in Conn : SendDone(c)
    BY Movement DEF FeedInv, Still, Turns, HandsOver, Tells, RunHandle
  <2>2. CASE UNCHANGED delivered
    BY <2>2, ClosedStays DEF Feed!Next, Feed!Leave
  <2> QED
    BY <2>1, <2>2, SendTells
<1> QED
  BY <1>1, <1>2, FeedInvariance, PTL DEF Spec, ClientsAreToldInOrder, Feed!Spec
=============================================================================
