-------------------------- MODULE RequestsProofs ---------------------------
(***************************************************************************)
(* Proofs about Requests, for every set of requests.                       *)
(***************************************************************************)
EXTENDS Requests, Integers, SequenceTheorems, TLAPS

(***************************************************************************)
(* What the loop may have to run for a request.  As long as its queue is   *)
(* one of Untold, the hub has not been given the event of the callback; in *)
(* none of them is "wake" before "send".  Hence a caller that wakes finds  *)
(* the event sent.                                                         *)
(***************************************************************************)
Untold == {<<"task">>, <<"task", "set">>, <<"send">>, <<"set", "send">>,
           <<"send", "set">>, <<"send", "wake">>}

Queue == Untold \cup {<<>>, <<"set">>, <<"wake">>}

\* The thread of the callback has not looked at the future yet.
BeforeSettle == {<<>>, <<"task">>, <<"send">>}

Waking == {<<"send", "wake">>, <<"wake">>}

RequestInv(r) ==
    /\ ready[r] \in Queue
    /\ pc[r] = "idle" => receipt[r] = "none"
    /\ receipt[r] \notin Answer => ready[r] = <<>> /\ ~callback[r]
    /\ callback[r] => ready[r] \in BeforeSettle
    /\ ready[r] \in Waking => future[r] \in Answer
    /\ future[r] \in Answer => future[r] = receipt[r]
    /\ responses[r] = IF receipt[r] = "response" /\ ready[r] \notin Untold THEN 1 ELSE 0
    /\ failures[r] = (IF receipt[r] = "failed" /\ ready[r] \notin Untold THEN 1 ELSE 0)
                     + (IF future[r] = "timeout" THEN 1 ELSE 0)
    /\ reply[r] \in Answer => reply[r] = receipt[r] /\ ready[r] \notin Untold

\* What the caller knows, and that a request that was not sent, or one whose
\* caller has not begun, is unknown to everybody else.
CallerInv(r) ==
    /\ pc[r] = "idle" => kind[r] = "none" /\ future[r] = "pending"
    /\ pc[r] # "done" => reply[r] = "none"
    /\ pc[r] = "wait" =>
          kind[r] \in {"ws", "rest"} /\ future[r] \in {"pending"} \cup Answer
    /\ reply[r] = "error" => receipt[r] = "none"

IInv ==
    /\ TypeOK
    /\ \A r \in Request : RequestInv(r)
    /\ \A r \in Request : CallerInv(r)

-----------------------------------------------------------------------------
\* Queues of two handles, put together.
LEMMA TwoHandles ==
  ASSUME NEW a \in Handle, NEW b \in Handle
  PROVE  /\ <<a>> \o <<b>> = <<a, b>>
         /\ Append(<<a>>, b) = <<a, b>>
         /\ Append(<<>>, a) = <<a>>
<1>1. <<a>> \in Seq(Handle) /\ Len(<<a>>) = 1 /\ <<a>>[1] = a
  OBVIOUS
<1>2. <<>> \in Seq(Handle) /\ Len(<<>>) = 0
  OBVIOUS
<1> DEFINE p == Append(<<>>, a)
           q == Append(<<a>>, b)
<1>3. q \in Seq(Handle) /\ Len(q) = 2 /\ q[1] = a /\ q[2] = b
  BY <1>1, AppendProperties
<1>4. p \in Seq(Handle) /\ Len(p) = 1 /\ p[1] = a
  BY <1>2, AppendProperties
<1>5. q = <<a>> \o <<b>>
  BY <1>1, AppendIsConcat
<1> HIDE DEF p, q
<1>6. q = <<a, b>> /\ p = <<a>>
  BY <1>3, <1>4
<1> QED
  BY <1>5, <1>6 DEF p, q

\* What running the first handle leaves to be run.
LEMMA QueueRun ==
  /\ Head(<<"task">>) = "task"
  /\ Tail(<<"task">>) \o <<"send">> = <<"send">>
  /\ Head(<<"task", "set">>) = "task"
  /\ Tail(<<"task", "set">>) \o <<"send">> = <<"set", "send">>
  /\ Head(<<"send">>) = "send"
  /\ Tail(<<"send">>) \o <<>> = <<>>
  /\ Head(<<"set", "send">>) = "set"
  /\ Tail(<<"set", "send">>) \o <<"wake">> = <<"send", "wake">>
  /\ Tail(<<"set", "send">>) \o <<>> = <<"send">>
  /\ Head(<<"send", "set">>) = "send"
  /\ Tail(<<"send", "set">>) \o <<>> = <<"set">>
  /\ Head(<<"send", "wake">>) = "send"
  /\ Tail(<<"send", "wake">>) \o <<>> = <<"wake">>
  /\ Head(<<"set">>) = "set"
  /\ Tail(<<"set">>) \o <<"wake">> = <<"wake">>
  /\ Tail(<<"set">>) \o <<>> = <<>>
  /\ Head(<<"wake">>) = "wake"
  /\ Tail(<<"wake">>) \o <<>> = <<>>
<1>1. /\ Head(<<"task">>) = "task"
     /\ Tail(<<"task">>) \o <<"send">> = <<"send">>
  OBVIOUS
<1>2. /\ Head(<<"task", "set">>) = "task"
     /\ Tail(<<"task", "set">>) \o <<"send">> = <<"set", "send">>
  <2>1. Tail(<<"task", "set">>) = <<"set">>
    OBVIOUS
  <2>2. <<"set">> \o <<"send">> = <<"set", "send">>
    BY TwoHandles DEF Handle
  <2> QED
    BY <2>1, <2>2
<1>3. /\ Head(<<"send">>) = "send"
     /\ Tail(<<"send">>) \o <<>> = <<>>
  OBVIOUS
<1>4. /\ Head(<<"set", "send">>) = "set"
     /\ Tail(<<"set", "send">>) \o <<"wake">> = <<"send", "wake">>
     /\ Tail(<<"set", "send">>) \o <<>> = <<"send">>
  <2>1. Tail(<<"set", "send">>) = <<"send">>
    OBVIOUS
  <2>2. <<"send">> \o <<"wake">> = <<"send", "wake">> /\ <<"send">> \o <<>> = <<"send">>
    BY TwoHandles DEF Handle
  <2> QED
    BY <2>1, <2>2
<1>5. /\ Head(<<"send", "set">>) = "send"
     /\ Tail(<<"send", "set">>) \o <<>> = <<"set">>
  OBVIOUS
<1>6. /\ Head(<<"send", "wake">>) = "send"
     /\ Tail(<<"send", "wake">>) \o <<>> = <<"wake">>
  OBVIOUS
<1>7. /\ Head(<<"set">>) = "set"
     /\ Tail(<<"set">>) \o <<"wake">> = <<"wake">>
     /\ Tail(<<"set">>) \o <<>> = <<>>
  OBVIOUS
<1>8. /\ Head(<<"wake">>) = "wake"
     /\ Tail(<<"wake">>) \o <<>> = <<>>
  OBVIOUS
<1> QED
  BY <1>1, <1>2, <1>3, <1>4, <1>5, <1>6, <1>7, <1>8

\* Which queue is in which of the sets.
LEMMA QueueTable ==
  /\ <<>> \in Queue /\ <<>> \notin Untold
  /\ <<>> \in BeforeSettle /\ <<>> \notin Waking
  /\ <<"task">> \in Queue /\ <<"task">> \in Untold
  /\ <<"task">> \in BeforeSettle /\ <<"task">> \notin Waking
  /\ <<"task", "set">> \in Queue /\ <<"task", "set">> \in Untold
  /\ <<"task", "set">> \notin BeforeSettle /\ <<"task", "set">> \notin Waking
  /\ <<"send">> \in Queue /\ <<"send">> \in Untold
  /\ <<"send">> \in BeforeSettle /\ <<"send">> \notin Waking
  /\ <<"set", "send">> \in Queue /\ <<"set", "send">> \in Untold
  /\ <<"set", "send">> \notin BeforeSettle /\ <<"set", "send">> \notin Waking
  /\ <<"send", "set">> \in Queue /\ <<"send", "set">> \in Untold
  /\ <<"send", "set">> \notin BeforeSettle /\ <<"send", "set">> \notin Waking
  /\ <<"send", "wake">> \in Queue /\ <<"send", "wake">> \in Untold
  /\ <<"send", "wake">> \notin BeforeSettle /\ <<"send", "wake">> \in Waking
  /\ <<"set">> \in Queue /\ <<"set">> \notin Untold
  /\ <<"set">> \notin BeforeSettle /\ <<"set">> \notin Waking
  /\ <<"wake">> \in Queue /\ <<"wake">> \notin Untold
  /\ <<"wake">> \notin BeforeSettle /\ <<"wake">> \in Waking
  BY DEF Queue, Untold, BeforeSettle, Waking

LEMMA QueueType == Queue \subseteq Seq(Handle)
  BY DEF Queue, Untold, Handle

\* The step is about r.
About(r) ==
    \A u \in Request \ {r} :
        /\ kind'[u] = kind[u] /\ pc'[u] = pc[u]
        /\ receipt'[u] = receipt[u] /\ callback'[u] = callback[u]
        /\ ready'[u] = ready[u] /\ future'[u] = future[u] /\ reply'[u] = reply[u]
        /\ responses'[u] = responses[u] /\ failures'[u] = failures[u]

Step(r) == Send(r) \/ CallBack(r) \/ Settle(r) \/ LoopStep(r) \/ Deadline(r)

LEMMA StepAbout ==
  ASSUME IInv, NEW r \in Request, Step(r)
  PROVE  About(r)
<1> USE DEF About, IInv, TypeOK, callerVars, rnsVars, eventVars
<1>1. CASE Send(r) \/ CallBack(r) \/ Settle(r)
  BY <1>1 DEF Send, CallBack, Settle
<1>2. CASE LoopStep(r)
  BY <1>2 DEF LoopStep, StartTask, SendEvent, SetResult, Wake, Run
<1>3. CASE Deadline(r)
  BY <1>3 DEF Deadline, WatchdogFires, RestTimesOut
<1> QED
  BY <1>1, <1>2, <1>3 DEF Step

\* One of the queues that begin with h.
LEMMA Heads ==
  ASSUME NEW q \in Queue
  PROVE  /\ q # <<>> /\ Head(q) = "task" => q \in {<<"task">>, <<"task", "set">>}
         /\ q # <<>> /\ Head(q) = "send"
              => q \in {<<"send">>, <<"send", "set">>, <<"send", "wake">>}
         /\ q # <<>> /\ Head(q) = "set" => q \in {<<"set">>, <<"set", "send">>}
         /\ q # <<>> /\ Head(q) = "wake" => q = <<"wake">>
  BY QueueRun DEF Queue, Untold

LEMMA StepKeepsInv ==
  ASSUME IInv, NEW r \in Request, Step(r)
  PROVE  RequestInv(r)'
<1>0. TypeOK /\ RequestInv(r)
  BY DEF IInv
<1> USE DEF RequestInv, TypeOK, Answer, callerVars, rnsVars, eventVars
<1>1. CASE Send(r)
  BY <1>0, <1>1 DEF Send, Waking, Untold
<1>2. CASE CallBack(r)
  <2>1. ready'[r] = <<"task">> /\ ready[r] = <<>>
    BY <1>0, <1>2 DEF CallBack
  <2> QED
    BY <1>0, <1>2, <2>1 DEF CallBack, Queue, Untold, BeforeSettle, Waking
<1>3. CASE Settle(r)
  <2>1. ready[r] \in BeforeSettle
    BY <1>0, <1>3 DEF Settle
  <2>2. ready'[r] = IF future[r] = "pending" THEN Append(ready[r], "set") ELSE ready[r]
    BY <1>0, <1>3 DEF Settle
  <2>3. \/ ready'[r] = ready[r]
        \/ ready[r] = <<>> /\ ready'[r] = <<"set">>
        \/ ready[r] = <<"task">> /\ ready'[r] = <<"task", "set">>
        \/ ready[r] = <<"send">> /\ ready'[r] = <<"send", "set">>
    BY <2>1, <2>2, TwoHandles DEF BeforeSettle, Handle
  <2>4. /\ ready'[r] \in Queue
        /\ ready'[r] \in Untold <=> ready[r] \in Untold
        /\ ready'[r] \in Waking => ready[r] \in Waking
    BY <1>0, <2>3, QueueTable
  <2> QED
    BY <1>0, <1>3, <2>4 DEF Settle
<1>4. CASE StartTask(r)
  <2>1. /\ ready[r] \in {<<"task">>, <<"task", "set">>}
        /\ ready'[r] = Tail(ready[r]) \o <<"send">>
    BY <1>0, <1>4, Heads DEF StartTask, Run
  <2>2. \/ ready[r] = <<"task">> /\ ready'[r] = <<"send">>
        \/ ready[r] = <<"task", "set">> /\ ready'[r] = <<"set", "send">>
    BY <2>1, QueueRun
  <2>3. /\ ready'[r] \in Queue /\ ready[r] \in Untold /\ ready'[r] \in Untold
        /\ ready'[r] \notin Waking
        /\ ready[r] \in BeforeSettle => ready'[r] \in BeforeSettle
    BY <2>2, QueueTable
  <2>4. receipt[r] \in Answer
    BY <1>0, <2>3, QueueTable
  <2> QED
    BY <1>0, <1>4, <2>3, <2>4 DEF StartTask
<1>5. CASE SendEvent(r)
  <2>1. /\ ready[r] \in {<<"send">>, <<"send", "set">>, <<"send", "wake">>}
        /\ ready'[r] = Tail(ready[r]) \o <<>>
    BY <1>0, <1>5, Heads DEF SendEvent, Run
  <2>2. \/ ready[r] = <<"send">> /\ ready'[r] = <<>>
        \/ ready[r] = <<"send", "set">> /\ ready'[r] = <<"set">>
        \/ ready[r] = <<"send", "wake">> /\ ready'[r] = <<"wake">>
    BY <2>1, QueueRun
  <2>3. /\ ready'[r] \in Queue /\ ready[r] \in Untold /\ ready'[r] \notin Untold
        /\ ready'[r] \in Waking => ready[r] \in Waking
        /\ ready[r] \in BeforeSettle => ready'[r] \in BeforeSettle
    BY <2>2, QueueTable
  <2>4. receipt[r] \in Answer
    BY <1>0, <2>3, QueueTable
  <2>5. /\ receipt' = receipt /\ callback' = callback /\ future' = future
        /\ pc' = pc /\ reply' = reply /\ kind' = kind
    BY <1>5 DEF SendEvent
  <2>6. /\ responses'[r] = IF receipt[r] = "response" THEN 1 ELSE 0
        /\ failures'[r] = (IF receipt[r] = "failed" THEN 1 ELSE 0)
                          + (IF future[r] = "timeout" THEN 1 ELSE 0)
    BY <1>0, <1>5, <2>3, <2>4 DEF SendEvent
  <2> QED
    BY <1>0, <2>3, <2>4, <2>5, <2>6
<1>6. CASE SetResult(r)
  <2>1. /\ ready[r] \in {<<"set">>, <<"set", "send">>}
        /\ ready'[r] = Tail(ready[r]) \o (IF future[r] = "pending" THEN <<"wake">> ELSE <<>>)
    BY <1>0, <1>6, Heads DEF SetResult, Run
  <2>2. \/ ready[r] = <<"set">> /\ ready'[r] = IF future[r] = "pending" THEN <<"wake">> ELSE <<>>
        \/ /\ ready[r] = <<"set", "send">>
           /\ ready'[r] = IF future[r] = "pending" THEN <<"send", "wake">> ELSE <<"send">>
    BY <2>1, QueueRun
  <2>3. /\ ready'[r] \in Queue
        /\ ready'[r] \in Untold <=> ready[r] \in Untold
        /\ ready[r] \notin BeforeSettle
        /\ ready[r] # <<>>
    BY <2>2, QueueTable
  <2>4. receipt[r] \in Answer /\ ~callback[r]
    BY <1>0, <2>3
  <2>5. /\ receipt' = receipt /\ callback' = callback
        /\ pc' = pc /\ reply' = reply /\ kind' = kind
        /\ responses' = responses /\ failures' = failures
        /\ future'[r] = IF future[r] = "pending" THEN receipt[r] ELSE future[r]
    BY <1>0, <1>6 DEF SetResult
  <2>6. ready'[r] \in Waking => future'[r] \in Answer
    <3>1. CASE future[r] = "pending"
      BY <2>4, <2>5, <3>1
    <3>2. CASE future[r] # "pending"
      BY <2>2, <3>2, QueueTable
    <3> QED
      BY <3>1, <3>2
  <2> QED
    BY <1>0, <2>3, <2>4, <2>5, <2>6
<1>7. CASE Wake(r)
  <2>1. ready[r] = <<"wake">> /\ ready'[r] = <<>>
    BY <1>0, <1>7, Heads, QueueRun DEF Wake, Run
  <2> QED
    BY <1>0, <1>7, <2>1, QueueTable DEF Wake
<1>8. CASE Deadline(r)
  <2>1. CASE WatchdogFires(r)
    BY <1>0, <2>1 DEF WatchdogFires
  <2>2. CASE RestTimesOut(r)
    BY <1>0, <2>2 DEF RestTimesOut
  <2> QED
    BY <1>8, <2>1, <2>2 DEF Deadline
<1> QED
  BY <1>1, <1>2, <1>3, <1>4, <1>5, <1>6, <1>7, <1>8 DEF Step, LoopStep

LEMMA StepKeepsCaller ==
  ASSUME IInv, NEW r \in Request, Step(r)
  PROVE  CallerInv(r)'
<1>0. TypeOK /\ RequestInv(r) /\ CallerInv(r)
  BY DEF IInv
<1> USE DEF CallerInv, TypeOK, Answer, callerVars, rnsVars, eventVars
<1>1. CASE Send(r)
  BY <1>0, <1>1 DEF Send, RequestInv
<1>2. CASE CallBack(r) \/ Settle(r)
  BY <1>0, <1>2 DEF CallBack, Settle
<1>3. CASE StartTask(r) \/ SendEvent(r)
  BY <1>0, <1>3 DEF StartTask, SendEvent
<1>4. CASE SetResult(r)
  <2>1. receipt[r] \in Answer
    BY <1>0, <1>4, Heads, QueueTable DEF SetResult, Run, RequestInv
  <2> QED
    BY <1>0, <1>4, <2>1 DEF SetResult, RequestInv
<1>5. CASE Wake(r)
  <2>1. future[r] \in Answer
    BY <1>0, <1>5, Heads, QueueTable DEF Wake, Run, RequestInv
  <2> QED
    BY <1>0, <1>5, <2>1 DEF Wake
<1>6. CASE Deadline(r)
  BY <1>0, <1>6 DEF Deadline, WatchdogFires, RestTimesOut
<1> QED
  BY <1>1, <1>2, <1>3, <1>4, <1>5, <1>6 DEF Step, LoopStep

-----------------------------------------------------------------------------
LEMMA InitInv == Init => IInv
<1> SUFFICES ASSUME Init PROVE IInv
  OBVIOUS
<1>1. TypeOK
  BY DEF Init, TypeOK, Handle
<1>2. ASSUME NEW r \in Request PROVE RequestInv(r)
  BY <1>2, QueueTable DEF Init, RequestInv, Answer
<1>3. ASSUME NEW r \in Request PROVE CallerInv(r)
  BY <1>3 DEF Init, CallerInv, Answer
<1> QED
  BY <1>1, <1>2, <1>3 DEF IInv

\* Queues stay sequences, by StepKeepsInv; the rest is by the definitions.
LEMMA StepKeepsType ==
  ASSUME IInv, NEW r \in Request, Step(r)
  PROVE  TypeOK'
<1>0. TypeOK /\ RequestInv(r) /\ RequestInv(r)'
  BY StepKeepsInv DEF IInv
<1>1. ready' \in [Request -> Seq(Handle)]
  <2>1. /\ ready' = [ready EXCEPT ![r] = ready'[r]]
        /\ ready'[r] \in Seq(Handle)
    <3>1. ready'[r] \in Seq(Handle)
      BY <1>0, QueueType DEF RequestInv
    <3>2. \/ ready' = ready
          \/ \E q : ready' = [ready EXCEPT ![r] = q]
      BY DEF Step, Send, CallBack, Settle, LoopStep, StartTask, SendEvent, SetResult, Wake,
             Run, Deadline, WatchdogFires, RestTimesOut
    <3> QED
      BY <1>0, <3>1, <3>2 DEF TypeOK
  <2> QED
    BY <1>0, <2>1 DEF TypeOK
<1>2. /\ responses'[r] \in 0 .. 1 /\ failures'[r] \in 0 .. 2
  BY <1>0 DEF RequestInv, TypeOK, Answer
<1> USE DEF TypeOK, Answer, callerVars, rnsVars, eventVars
<1>3. CASE Send(r)
  <2>1. kind' \in [Request -> {"none", "ws", "rest"}]
    BY <1>0, <1>3 DEF Send
  <2>2. /\ pc' \in [Request -> {"idle", "wait", "done"}]
        /\ reply' \in [Request -> {"none", "error", "timeout"} \cup Answer]
        /\ receipt' \in [Request -> {"none", "open"} \cup Answer]
    BY <1>0, <1>3 DEF Send
  <2> QED
    BY <1>0, <1>1, <1>3, <2>1, <2>2 DEF Send
<1>4. CASE CallBack(r)
  BY <1>0, <1>1, <1>4 DEF CallBack
<1>5. CASE Settle(r)
  BY <1>0, <1>1, <1>5 DEF Settle
<1>6. CASE StartTask(r)
  BY <1>0, <1>1, <1>6 DEF StartTask
<1>7. CASE SendEvent(r)
  BY <1>0, <1>1, <1>2, <1>7 DEF SendEvent
<1>8. CASE SetResult(r)
  <2>1. future[r] = "pending" => receipt[r] \in Answer
    BY <1>0, <1>8, Heads, QueueTable DEF SetResult, Run, RequestInv
  <2> QED
    BY <1>0, <1>1, <1>8, <2>1 DEF SetResult
<1>9. CASE Wake(r)
  <2>1. future[r] \in Answer
    BY <1>0, <1>9, Heads, QueueTable DEF Wake, Run, RequestInv
  <2> QED
    BY <1>0, <1>1, <1>9, <2>1 DEF Wake
<1>10. CASE Deadline(r)
  BY <1>0, <1>1, <1>2, <1>10 DEF Deadline, WatchdogFires, RestTimesOut
<1> QED
  BY <1>3, <1>4, <1>5, <1>6, <1>7, <1>8, <1>9, <1>10 DEF Step, LoopStep

LEMMA NextInv == IInv /\ [Next]_vars => IInv'
<1> SUFFICES ASSUME IInv, [Next]_vars PROVE IInv'
  OBVIOUS
<1>1. ASSUME NEW r \in Request, Step(r) PROVE IInv'
  <2>1. TypeOK'
    BY <1>1, StepKeepsType
  <2>2. ASSUME NEW u \in Request \ {r} PROVE RequestInv(u)'
    BY <1>1, <2>2, StepAbout DEF IInv, RequestInv, About
  <2>3. RequestInv(r)'
    BY <1>1, StepKeepsInv
  <2>4. ASSUME NEW u \in Request \ {r} PROVE CallerInv(u)'
    BY <1>1, <2>4, StepAbout DEF IInv, CallerInv, About
  <2>5. CallerInv(r)'
    BY <1>1, StepKeepsCaller
  <2> QED
    BY <2>1, <2>2, <2>3, <2>4, <2>5 DEF IInv
<1>2. CASE UNCHANGED vars
  BY <1>2 DEF vars, IInv, TypeOK, RequestInv, CallerInv
<1> QED
  BY <1>1, <1>2 DEF Next, Step

LEMMA Invariance == Spec => []IInv
  BY InitInv, NextInv, PTL DEF Spec

-----------------------------------------------------------------------------
\* The variables of Requests keep their types; in particular no request is
\* reported by more than two events, whatever callback and deadline do.
THEOREM TypeCorrect == Spec => []TypeOK
<1>1. IInv => TypeOK
  BY DEF IInv
<1> QED
  BY Invariance, <1>1, PTL

\* A REST caller never gets an outcome before the hub has its event: the
\* callback hands over the event first, and the queue keeps the order.
THEOREM RepliesFollowEvents == Spec => []ReplyFollowsEvent
<1>1. IInv => ReplyFollowsEvent
  <2> SUFFICES ASSUME IInv, NEW r \in Request, reply[r] \in Answer
               PROVE  /\ reply[r] = "response" => responses[r] > 0
                      /\ reply[r] = "failed" => failures[r] > 0
    BY DEF ReplyFollowsEvent, Answer
  <2>1. reply[r] = receipt[r] /\ ready[r] \notin Untold
    BY DEF IInv, RequestInv
  <2>2. failures[r] = (IF receipt[r] = "failed" /\ ready[r] \notin Untold THEN 1 ELSE 0)
                      + (IF future[r] = "timeout" THEN 1 ELSE 0)
    BY DEF IInv, RequestInv
  <2>3. responses[r] = IF receipt[r] = "response" /\ ready[r] \notin Untold THEN 1 ELSE 0
    BY DEF IInv, RequestInv
  <2> QED
    BY <2>1, <2>2, <2>3
<1> QED
  BY Invariance, <1>1, PTL

\* A request is reported twice only if the deadline settled its future: a
\* callback that is in time silences the watchdog.
THEOREM WatchdogIsQuiet == Spec => []WatchdogYields
<1>1. IInv => WatchdogYields
  <2> SUFFICES ASSUME IInv, NEW r \in Request, future[r] # "timeout"
               PROVE  ~(responses[r] + failures[r] > 1)
    BY DEF WatchdogYields
  <2>1. failures[r] = IF receipt[r] = "failed" /\ ready[r] \notin Untold THEN 1 ELSE 0
    BY DEF IInv, RequestInv
  <2>2. responses[r] = IF receipt[r] = "response" /\ ready[r] \notin Untold THEN 1 ELSE 0
    BY DEF IInv, RequestInv
  <2> QED
    BY <2>1, <2>2
<1> QED
  BY Invariance, <1>1, PTL

-----------------------------------------------------------------------------
(***************************************************************************)
(* Every request implements Exchange.                                      *)
(***************************************************************************)

\* The event is on its way exactly in the queues of Untold.
LEMMA ReportingIsUntold ==
  ASSUME NEW q \in Queue
  PROVE  (\E i \in 1 .. Len(q) : q[i] \in {"task", "send"}) <=> q \in Untold
<1>1. CASE q \in Untold
  BY <1>1 DEF Untold
<1>2. CASE q \in {<<>>, <<"set">>, <<"wake">>}
  BY <1>2, QueueTable
<1> QED
  BY <1>1, <1>2 DEF Queue

\* The answer is owed as long as its event is on its way.
LEMMA OwedNow ==
  ASSUME IInv, NEW r \in Request
  PROVE  Owed(r) = IF ready[r] \in Untold THEN receipt[r] ELSE "none"
  BY ReportingIsUntold DEF IInv, RequestInv, Owed, Reporting

LEMMA OwedNext ==
  ASSUME IInv', NEW r \in Request
  PROVE  Owed(r)' = IF ready'[r] \in Untold THEN receipt'[r] ELSE "none"
  BY ReportingIsUntold DEF IInv, RequestInv, Owed, Reporting

\* Reports are told apart: those of RNS follow from its receipt and the
\* queue, that of the watchdog from the future.
LEMMA ToldCounts ==
  ASSUME IInv, NEW r \in Request
  PROVE  /\ DOMAIN Told(r) = Answer \cup {"deadline"}
         /\ Told(r)["deadline"] = Expired(r)
         /\ \A a \in Answer :
              Told(r)[a] = IF receipt[r] = a /\ ready[r] \notin Untold THEN 1 ELSE 0
<1>1. RequestInv(r)
  BY DEF IInv
<1>2. failures[r] - Expired(r) = IF receipt[r] = "failed" /\ ready[r] \notin Untold THEN 1 ELSE 0
  BY <1>1 DEF RequestInv, Expired
<1> QED
  BY <1>1, <1>2 DEF RequestInv, Told, Answer

\* Told is determined by receipt, queue and future.
LEMMA ToldStays ==
  ASSUME IInv, IInv', NEW r \in Request, Expired(r)' = Expired(r),
         \/ receipt'[r] = receipt[r] /\ (ready'[r] \in Untold <=> ready[r] \in Untold)
         \/ receipt[r] \notin Answer /\ ready'[r] \in Untold
         \/ receipt[r] \notin Answer /\ receipt'[r] \notin Answer
  PROVE  Told(r)' = Told(r)
<1>1. /\ responses[r] = IF receipt[r] = "response" /\ ready[r] \notin Untold THEN 1 ELSE 0
      /\ failures[r] - Expired(r)
          = IF receipt[r] = "failed" /\ ready[r] \notin Untold THEN 1 ELSE 0
  BY DEF IInv, RequestInv, Expired
<1>2. /\ responses'[r] = IF receipt'[r] = "response" /\ ready'[r] \notin Untold THEN 1 ELSE 0
      /\ failures'[r] - Expired(r)'
          = IF receipt'[r] = "failed" /\ ready'[r] \notin Untold THEN 1 ELSE 0
  BY DEF IInv, RequestInv, Expired
<1>3. responses'[r] = responses[r] /\ failures'[r] - Expired(r)' = failures[r] - Expired(r)
  BY <1>1, <1>2 DEF Answer
<1> QED
  BY <1>3 DEF Told

ExchangeStep(r) == [Exchanged(r)!Next]_(Exchanged(r)!vars)

\* A step that changes nothing the client could tell.
LEMMA Unnoticed ==
  ASSUME NEW r \in Request, kind'[r] = kind[r], Phase(r)' = Phase(r),
         Owed(r)' = Owed(r), Told(r)' = Told(r), reply'[r] = reply[r]
  PROVE  ExchangeStep(r)
  BY DEF ExchangeStep, Exchanged!vars

LEMMA OthersExchange ==
  ASSUME NEW r \in Request, About(r), NEW u \in Request \ {r}
  PROVE  ExchangeStep(u)
<1>1. Phase(u)' = Phase(u) /\ kind'[u] = kind[u] /\ reply'[u] = reply[u]
  BY DEF About, Phase
<1>2. Owed(u)' = Owed(u)
  BY DEF About, Owed, Reporting
<1>3. Told(u)' = Told(u)
  <2>1. /\ future'[u] = future[u] /\ responses'[u] = responses[u]
        /\ failures'[u] = failures[u]
    BY DEF About
  <2> QED
    BY <2>1 DEF Told, Expired
<1> QED
  BY <1>1, <1>2, <1>3, Unnoticed

LEMMA SendExchanges ==
  ASSUME IInv, IInv', NEW r \in Request, Send(r)
  PROVE  ExchangeStep(r)
<1>0. TypeOK /\ RequestInv(r) /\ CallerInv(r)
  BY DEF IInv
<1> USE DEF TypeOK, callerVars, rnsVars, eventVars
<1>1. /\ ready'[r] = ready[r] /\ future'[r] = future[r] /\ future[r] = "pending"
      /\ responses'[r] = responses[r] /\ failures'[r] = failures[r]
      /\ pc[r] = "idle" /\ kind'[r] \in {"ws", "rest"}
      /\ \/ pc'[r] = "wait" /\ reply'[r] = reply[r]
         \/ pc'[r] = "done" /\ reply'[r] = "error"
  BY <1>0 DEF Send, CallerInv
<1>2. ready[r] = <<>>
  BY <1>0, <1>1 DEF RequestInv, Answer
<1>3. Owed(r)' = Owed(r)
  BY <1>1, <1>2 DEF Owed, Reporting
<1>4. Told(r)' = Told(r)
  BY <1>1 DEF Told, Expired
<1>5. Phase(r) = "idle" /\ Phase(r)' = IF pc'[r] = "wait" THEN "open" ELSE "closed"
  BY <1>1 DEF Phase, Answer
<1>6. Exchanged(r)!Begin
  BY <1>1, <1>3, <1>4, <1>5 DEF Exchanged!Begin
<1> QED
  BY <1>6 DEF ExchangeStep, Exchanged!Next

\* The thread owes the answer, and has not told it.
LEMMA CallBackExchanges ==
  ASSUME IInv, IInv', NEW r \in Request, CallBack(r)
  PROVE  ExchangeStep(r)
<1>0. TypeOK /\ RequestInv(r) /\ CallerInv(r) /\ RequestInv(r)'
  BY DEF IInv
<1> USE DEF TypeOK, callerVars, rnsVars, eventVars
<1>1. /\ receipt[r] = "open" /\ receipt'[r] \in Answer
      /\ ready[r] = <<>> /\ ready'[r] = <<"task">>
      /\ kind'[r] = kind[r] /\ pc'[r] = pc[r] /\ reply'[r] = reply[r]
      /\ future'[r] = future[r]
  BY <1>0 DEF CallBack, RequestInv, Answer
<1>2. Owed(r) = "none" /\ Owed(r)' \in Answer
  BY <1>1 DEF Owed, Reporting
<1>3. Told(r)' = Told(r)
  <2>1. Expired(r)' = Expired(r)
    BY <1>1 DEF Expired
  <2>2. receipt[r] \notin Answer /\ ready'[r] \in Untold
    BY <1>1, QueueTable DEF Answer
  <2> QED
    BY <2>1, <2>2, ToldStays
<1>4. \A a \in Answer : Told(r)[a] = 0
  BY <1>1, ToldCounts DEF Answer
<1>5. Phase(r)' = Phase(r) /\ Phase(r) # "idle" /\ reply[r] # "error"
  BY <1>0, <1>1 DEF Phase, RequestInv, CallerInv
<1>6. Exchanged(r)!Owe
  BY <1>1, <1>2, <1>3, <1>4, <1>5 DEF Exchanged!Owe, Exchanged!Answer, Answer
<1> QED
  BY <1>6 DEF ExchangeStep, Exchanged!Next

\* Looking at the future, and the task that only begins.
LEMMA QueueMoves ==
  ASSUME IInv, IInv', NEW r \in Request, Settle(r) \/ StartTask(r)
  PROVE  ExchangeStep(r)
<1>0. TypeOK /\ RequestInv(r) /\ RequestInv(r)'
  BY DEF IInv
<1> USE DEF TypeOK, callerVars, rnsVars, eventVars
<1>1. /\ receipt'[r] = receipt[r] /\ kind'[r] = kind[r] /\ pc'[r] = pc[r]
      /\ reply'[r] = reply[r] /\ future'[r] = future[r]
  BY DEF Settle, StartTask
<1>2. ready'[r] \in Untold <=> ready[r] \in Untold
  <2>1. CASE Settle(r)
    <3>1. /\ ready[r] \in BeforeSettle
          /\ ready'[r] = IF future[r] = "pending" THEN Append(ready[r], "set") ELSE ready[r]
      BY <1>0, <2>1 DEF Settle, RequestInv
    <3>2. \/ ready'[r] = ready[r]
          \/ ready[r] = <<>> /\ ready'[r] = <<"set">>
          \/ ready[r] = <<"task">> /\ ready'[r] = <<"task", "set">>
          \/ ready[r] = <<"send">> /\ ready'[r] = <<"send", "set">>
      BY <3>1, TwoHandles DEF BeforeSettle, Handle
    <3> QED
      BY <3>2, QueueTable
  <2>2. CASE StartTask(r)
    <3>1. /\ ready[r] \in {<<"task">>, <<"task", "set">>}
          /\ ready'[r] = Tail(ready[r]) \o <<"send">>
      BY <1>0, <2>2, Heads DEF StartTask, Run, RequestInv
    <3> QED
      BY <3>1, QueueRun, QueueTable
  <2> QED
    BY <2>1, <2>2
<1>3. Told(r)' = Told(r)
  <2>1. Expired(r)' = Expired(r)
    BY <1>1 DEF Expired
  <2> QED
    BY <1>1, <1>2, <2>1, ToldStays
<1>4. Owed(r)' = Owed(r)
  BY <1>1, <1>2, OwedNow, OwedNext
<1>5. Phase(r)' = Phase(r)
  BY <1>1 DEF Phase
<1> QED
  BY <1>1, <1>3, <1>4, <1>5, Unnoticed

\* The hub has the event: the answer is told.
LEMMA SendEventExchanges ==
  ASSUME IInv, IInv', NEW r \in Request, SendEvent(r)
  PROVE  ExchangeStep(r)
<1>0. TypeOK /\ RequestInv(r)
  BY DEF IInv
<1>1. ready[r] \in Untold /\ ready'[r] \notin Untold
  <2>1. /\ ready[r] \in {<<"send">>, <<"send", "set">>, <<"send", "wake">>}
        /\ ready'[r] = Tail(ready[r]) \o <<>>
    BY <1>0, Heads DEF SendEvent, Run, RequestInv, TypeOK
  <2> QED
    BY <2>1, QueueRun, QueueTable
<1>2. receipt[r] \in Answer
  BY <1>0, <1>1, QueueTable DEF RequestInv
<1>3. /\ receipt'[r] = receipt[r] /\ kind'[r] = kind[r] /\ pc'[r] = pc[r]
      /\ reply'[r] = reply[r] /\ future'[r] = future[r]
  BY DEF SendEvent, callerVars, rnsVars
<1>4. /\ receipt[r] = "response" => responses'[r] = responses[r] + 1 /\ failures'[r] = failures[r]
      /\ receipt[r] = "failed" => responses'[r] = responses[r] /\ failures'[r] = failures[r] + 1
  BY <1>0 DEF SendEvent, TypeOK
<1>5. Owed(r) = receipt[r] /\ Owed(r)' = "none"
  BY <1>1, OwedNow, OwedNext
<1>6. Told(r)' = [Told(r) EXCEPT ![receipt[r]] = @ + 1]
  <2>1. Expired(r) \in {0, 1} /\ failures[r] \in Int /\ responses[r] \in Int
    BY <1>0 DEF Expired, TypeOK
  <2>2. Expired(r)' = Expired(r)
    BY <1>3 DEF Expired
  <2> HIDE DEF Expired
  <2>3. CASE receipt[r] = "response"
    BY <1>4, <2>1, <2>2, <2>3 DEF Told, Answer
  <2>4. CASE receipt[r] = "failed"
    <3>1. /\ failures'[r] - Expired(r)' = (failures[r] - Expired(r)) + 1
          /\ responses'[r] = responses[r]
      BY <1>4, <2>1, <2>2, <2>4
    <3> QED
      BY <2>2, <2>4, <3>1 DEF Told, Answer
  <2> QED
    BY <1>2, <2>3, <2>4 DEF Answer
<1>7. Phase(r)' = Phase(r)
  BY <1>3 DEF Phase
<1>8. Exchanged(r)!Tell
  BY <1>2, <1>3, <1>5, <1>6, <1>7 DEF Exchanged!Tell, Exchanged!Answer, Answer
<1> QED
  BY <1>8 DEF ExchangeStep, Exchanged!Next

\* The answer settles the future: from here on the deadline is silenced.
LEMMA SetResultExchanges ==
  ASSUME IInv, IInv', NEW r \in Request, SetResult(r)
  PROVE  ExchangeStep(r)
<1>0. TypeOK /\ RequestInv(r) /\ CallerInv(r)
  BY DEF IInv
<1>1. /\ receipt'[r] = receipt[r] /\ kind'[r] = kind[r] /\ pc'[r] = pc[r]
      /\ reply'[r] = reply[r]
      /\ future'[r] = IF future[r] = "pending" THEN receipt[r] ELSE future[r]
  BY <1>0 DEF SetResult, callerVars, rnsVars, TypeOK
<1>2. receipt[r] \in Answer /\ (ready'[r] \in Untold <=> ready[r] \in Untold)
  <2>1. /\ ready[r] \in {<<"set">>, <<"set", "send">>}
        /\ ready'[r] = Tail(ready[r]) \o (IF future[r] = "pending" THEN <<"wake">> ELSE <<>>)
    BY <1>0, Heads DEF SetResult, Run, RequestInv, TypeOK
  <2>2. ready[r] # <<>>
    BY <2>1
  <2> QED
    BY <1>0, <2>1, <2>2, QueueRun, QueueTable DEF RequestInv
<1>3. Owed(r)' = Owed(r)
  BY <1>1, <1>2, OwedNow, OwedNext
<1>4. Told(r)' = Told(r)
  <2>1. Expired(r)' = Expired(r)
    BY <1>1, <1>2 DEF Expired, Answer
  <2> QED
    BY <1>1, <1>2, <2>1, ToldStays
<1>5. CASE pc[r] = "wait" /\ future[r] = "pending"
  <2>1. Phase(r) = "open" /\ Phase(r)' = "silenced"
    BY <1>1, <1>2, <1>5 DEF Phase, Answer
  <2>2. Owed(r) = receipt[r] \/ Told(r)[receipt[r]] > 0
    BY <1>2, OwedNow, ToldCounts
  <2>3. Exchanged(r)!Silence
    BY <1>1, <1>2, <1>3, <1>4, <2>1, <2>2
       DEF Exchanged!Silence, Exchanged!Answer, Answer
  <2> QED
    BY <2>3 DEF ExchangeStep, Exchanged!Next
<1>6. CASE ~(pc[r] = "wait" /\ future[r] = "pending")
  <2>1. Phase(r)' = Phase(r)
    BY <1>0, <1>1, <1>6 DEF Phase, TypeOK
  <2> QED
    BY <1>1, <1>3, <1>4, <2>1, Unnoticed
<1> QED
  BY <1>5, <1>6

\* The caller wakes to an answer that was told before.
LEMMA WakeExchanges ==
  ASSUME IInv, IInv', NEW r \in Request, Wake(r)
  PROVE  ExchangeStep(r)
<1>0. TypeOK /\ RequestInv(r) /\ CallerInv(r)
  BY DEF IInv
<1>1. ready[r] = <<"wake">> /\ ready'[r] = <<>>
  BY <1>0, Heads, QueueRun DEF Wake, Run, RequestInv, TypeOK
<1>2. future[r] \in Answer /\ future[r] = receipt[r] /\ ready[r] \notin Untold
  BY <1>0, <1>1, QueueTable DEF RequestInv
<1>3. /\ receipt'[r] = receipt[r] /\ kind'[r] = kind[r] /\ future'[r] = future[r]
      /\ pc'[r] = "done"
      /\ reply'[r] = IF pc[r] = "wait" /\ kind[r] = "rest" THEN future[r] ELSE reply[r]
  BY <1>0 DEF Wake, rnsVars, TypeOK
<1>4. Owed(r)' = Owed(r)
  BY <1>1, OwedNow, OwedNext, QueueTable
<1>5. Told(r)' = Told(r)
  <2>1. Expired(r)' = Expired(r)
    BY <1>3 DEF Expired
  <2> QED
    BY <1>1, <1>3, <2>1, ToldStays, QueueTable
<1>6. Phase(r)' = "closed" /\ pc[r] # "idle"
  BY <1>0, <1>2, <1>3 DEF Phase, CallerInv, Answer
<1>7. CASE pc[r] = "done"
  BY <1>3, <1>4, <1>5, <1>6, <1>7, Unnoticed DEF Phase
<1>8. CASE pc[r] = "wait"
  <2>1. Phase(r) = "silenced"
    BY <1>2, <1>8 DEF Phase
  <2>2. CASE kind[r] = "ws"
    <3>1. Exchanged(r)!Retire
      BY <1>3, <1>4, <1>5, <1>6, <2>1, <2>2 DEF Exchanged!Retire
    <3> QED
      BY <3>1 DEF ExchangeStep, Exchanged!Next
  <2>3. CASE kind[r] = "rest"
    <3>1. Told(r)[future[r]] > 0
      BY <1>2, ToldCounts
    <3>2. Exchanged(r)!Reply
      BY <1>2, <1>3, <1>4, <1>5, <1>6, <1>8, <2>1, <2>3, <3>1
         DEF Exchanged!Reply, Exchanged!Answer, Answer
    <3> QED
      BY <3>2 DEF ExchangeStep, Exchanged!Next
  <2> QED
    BY <1>0, <1>8, <2>2, <2>3 DEF CallerInv
<1> QED
  BY <1>0, <1>6, <1>7, <1>8 DEF TypeOK

\* The deadline is told of, or yields, or is the reply.
LEMMA DeadlineExchanges ==
  ASSUME IInv, IInv', NEW r \in Request, Deadline(r)
  PROVE  ExchangeStep(r)
<1>0. TypeOK /\ RequestInv(r) /\ CallerInv(r)
  BY DEF IInv
<1>1. /\ pc[r] = "wait" /\ pc'[r] = "done" /\ kind'[r] = kind[r]
      /\ receipt'[r] = receipt[r] /\ ready'[r] = ready[r]
      /\ future[r] # "pending" => future[r] \in Answer /\ future'[r] = future[r]
  BY <1>0 DEF Deadline, WatchdogFires, RestTimesOut, rnsVars, TypeOK, CallerInv
<1>2. Owed(r)' = Owed(r)
  BY <1>1, OwedNow, OwedNext
<1>3. Phase(r)' = "closed" /\ Phase(r) = IF future[r] = "pending" THEN "open" ELSE "silenced"
  BY <1>1 DEF Phase, Answer
<1>4. CASE WatchdogFires(r)
  <2>1. kind[r] = "ws" /\ reply'[r] = reply[r] /\ responses'[r] = responses[r]
    BY <1>4 DEF WatchdogFires
  <2>2. CASE future[r] = "pending"
    <3>1. future'[r] = "timeout" /\ failures'[r] = failures[r] + 1
      BY <1>0, <1>4, <2>2 DEF WatchdogFires, TypeOK
    <3>2. Expired(r) = 0 /\ Expired(r)' = 1
      BY <2>2, <3>1 DEF Expired
    <3>3. failures'[r] - Expired(r)' = failures[r] - Expired(r)
      <4>1. failures[r] \in Int
        BY <1>0 DEF TypeOK
      <4>2. failures'[r] - 1 = failures[r] - 0
        BY ONLY <3>1, <4>1
      <4> QED
        BY ONLY <3>2, <4>2
    <3>4. Told(r)' = [Told(r) EXCEPT !["deadline"] = @ + 1]
      <4>1. Expired(r)' = Expired(r) + 1
        BY <3>2
      <4> QED
        BY <2>1, <3>3, <4>1 DEF Told, Answer
    <3>5. Exchanged(r)!Expire
      BY <1>1, <1>2, <1>3, <2>1, <2>2, <3>4 DEF Exchanged!Expire
    <3> QED
      BY <3>5 DEF ExchangeStep, Exchanged!Next
  <2>3. CASE future[r] # "pending"
    <3>1. Told(r)' = Told(r)
      <4>1. Expired(r)' = Expired(r)
        BY <1>1, <2>3 DEF Expired
      <4> QED
        BY <1>1, <4>1, ToldStays
    <3>2. Exchanged(r)!Retire
      BY <1>1, <1>2, <1>3, <2>1, <2>3, <3>1 DEF Exchanged!Retire
    <3> QED
      BY <3>2 DEF ExchangeStep, Exchanged!Next
  <2> QED
    BY <2>2, <2>3
<1>5. CASE RestTimesOut(r)
  <2>1. /\ kind[r] = "rest" /\ reply'[r] = "timeout"
        /\ future'[r] = IF future[r] = "pending" THEN "cancelled" ELSE future[r]
    BY <1>0, <1>5 DEF RestTimesOut, TypeOK
  <2>2. Told(r)' = Told(r)
    <3>1. Expired(r)' = Expired(r)
      BY <2>1 DEF Expired
    <3> QED
      BY <1>1, <3>1, ToldStays
  <2>3. Exchanged(r)!Reply
    BY <1>1, <1>2, <1>3, <2>1, <2>2 DEF Exchanged!Reply
  <2> QED
    BY <2>3 DEF ExchangeStep, Exchanged!Next
<1> QED
  BY <1>4, <1>5 DEF Deadline

LEMMA RequestSteps ==
  ASSUME IInv, IInv', [Next]_vars, NEW u \in Request
  PROVE  ExchangeStep(u)
<1>1. ASSUME NEW r \in Request, Step(r) PROVE ExchangeStep(u)
  <2>1. CASE u = r
    BY <1>1, <2>1, SendExchanges, CallBackExchanges, QueueMoves, SendEventExchanges,
       SetResultExchanges, WakeExchanges, DeadlineExchanges DEF Step, LoopStep
  <2>2. CASE u # r
    BY <1>1, <2>2, StepAbout, OthersExchange
  <2> QED
    BY <2>1, <2>2
<1>2. CASE UNCHANGED vars
  BY <1>2, Unnoticed DEF vars, Phase, Owed, Reporting, Told, Expired
<1> QED
  BY <1>1, <1>2 DEF Next, Step

\* Every request keeps the promises of Exchange: whatever callback, deadline
\* and queue do, each report is made once, a deadline that an answer has
\* silenced is not reported, and a reply comes after its event (request,
\* _on_response, _on_failed, _watchdog).
THEOREM RequestsExchange == Spec => RequestsAnswerTruly
<1>1. Init => \A r \in Request : Exchanged(r)!Init
  <2> SUFFICES ASSUME Init, NEW r \in Request PROVE Exchanged(r)!Init
    OBVIOUS
  <2>1. Owed(r) = "none" /\ Phase(r) = "idle"
    BY DEF Init, Owed, Phase, Reporting
  <2>2. Told(r) = [x \in Answer \cup {"deadline"} |-> 0]
    <3>1. responses[r] = 0 /\ Expired(r) = 0 /\ failures[r] - Expired(r) = 0
      BY DEF Init, Expired
    <3> QED
      BY <3>1 DEF Told, Answer
  <2> QED
    BY <2>1, <2>2 DEF Init, Exchanged!Init, Exchanged!Answer, Answer
<1>2. IInv /\ IInv' /\ [Next]_vars
        => [\A r \in Request : [Exchanged(r)!Next]_(Exchanged(r)!vars)]_vars
  BY RequestSteps DEF ExchangeStep
<1> QED
  BY <1>1, <1>2, Invariance, PTL DEF Spec, RequestsAnswerTruly
=============================================================================
