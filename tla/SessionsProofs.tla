--------------------------- MODULE SessionsProofs ---------------------------
(***************************************************************************)
(* Proofs about Sessions for every set of sessions, connections, requests  *)
(* and every pair of limits.                                               *)
(***************************************************************************)
EXTENDS Sessions, TLAPS

\* Nobody logs the anonymous session out.
HandlerInv ==
    \A c \in Conn :
        wsState[c] \in {"logout", "revoking"} => wsSession[c] # Anon

\* A logout tears its session down only after popping it, and Anon never.
LogoutInv ==
    \A s \in Session :
        tdState[s] # "idle" => s \in created \ registered /\ s # Anon

\* Teardown a will still reach connection c.
WillClose(a, c) ==
    /\ tdSession[a] = wsSession[c]
    /\ tdState[a] = "notify" \/ (tdState[a] = "close" /\ c \in tdLeft[a])

CoverInv ==
    \A c \in Conn :
        wsSession[c] # NoSession /\ ~wsClosed[c] =>
            wsSession[c] \in registered \/ \E a \in Ender : WillClose(a, c)

IInv == TypeOK /\ HandlerInv /\ LogoutInv /\ CoverInv

-----------------------------------------------------------------------------
\* Every reachable state has its declared type.
LEMMA InitType == Init => TypeOK
  BY ConstantsAssumption DEF Init, TypeOK, Ender, WsStates, AttachedStates

LEMMA EnterTeardownType ==
  ASSUME NEW a \in Ender, NEW s \in Session, TypeOK, EnterTeardown(a, s)
  PROVE  /\ created' \in SUBSET Session
         /\ registered' \in SUBSET created'
         /\ age' \in [Session -> 0 .. MaxLifetime + 1]
         /\ owned' \in [Session -> BOOLEAN]
         /\ background' = background
         /\ tdState' \in [Ender -> {"idle", "notify", "close"}]
         /\ tdSession' \in [Ender -> Session \cup {NoSession}]
         /\ tdLeft' \in [Ender -> SUBSET Conn]
  BY DEF TypeOK, EnterTeardown

LEMMA TouchType ==
  ASSUME NEW s \in Session \cup {NoSession}, TypeOK, Touch(s)
  PROVE  idle' \in [Session -> 0 .. Inactivity + 1]
<1>1. 0 \in 0 .. Inactivity + 1
  BY ConstantsAssumption
<1>2. idle' = [t \in Session |-> IF t = s THEN 0 ELSE idle[t]]
  BY DEF TypeOK, Touch
<1> QED
  BY <1>1, <1>2 DEF TypeOK

LEMMA NextType ==
  ASSUME TypeOK, [Next]_vars
  PROVE  TypeOK'
<1> USE ConstantsAssumption
<1> USE DEF registryVars, bookVars, wsVars, tdVars, AttachedStates
<1>1. CASE Tick
  BY <1>1 DEF TypeOK, Tick
<1>2. CASE SweepStart
  <2> PICK s \in registered :
         /\ expired' = {t \in registered : IsExpired(t)} \ {s}
         /\ EnterTeardown(Reaper, s)
    BY <1>2 DEF SweepStart
  <2>1. s \in Session /\ Reaper \in Ender /\ expired' \in SUBSET Session
    BY DEF TypeOK, Ender
  <2> QED
    BY <1>2, <2>1, EnterTeardownType DEF TypeOK, SweepStart
<1>3. CASE SweepNext
  <2> PICK s \in expired :
         /\ expired' = expired \ {s}
         /\ EnterTeardown(Reaper, s)
    BY <1>3 DEF SweepNext
  <2>1. s \in Session /\ Reaper \in Ender /\ expired' \in SUBSET Session
    BY DEF TypeOK, Ender
  <2> QED
    BY <1>3, <2>1, EnterTeardownType DEF TypeOK, SweepNext
<1>4. ASSUME NEW s \in Session, Login(s)
      PROVE  TypeOK'
  BY <1>4 DEF TypeOK, Login
<1>5. ASSUME NEW s \in Session, RestLogout(s)
      PROVE  TypeOK'
  <2>1. s \in Ender
    BY DEF Ender
  <2> QED
    BY <1>5, <2>1, EnterTeardownType, TouchType DEF TypeOK, RestLogout
<1>6. ASSUME NEW r \in Request, RestFinish(r)
      PROVE  TypeOK'
  BY <1>6 DEF TypeOK, RestFinish, Leaves
<1>7. ASSUME NEW r \in Request, NEW s \in Session, RestStart(r, s)
      PROVE  TypeOK'
  <2>1. CASE AuthEnabled
    BY <1>7, <2>1, TouchType DEF TypeOK, RestStart, UseToken
  <2>2. CASE ~AuthEnabled
    BY <1>7, <2>2, TouchType DEF TypeOK, RestStart, UseAnonymous
  <2> QED
    BY <2>1, <2>2
<1>8. ASSUME NEW a \in Ender, Teardown(a)
      PROVE  TypeOK'
  <2>1. CASE TeardownNotified(a)
    <3>1. AttachedTo(tdSession[a]) \in SUBSET Conn
      BY DEF AttachedTo
    <3> QED
      BY <2>1, <3>1 DEF TypeOK, TeardownNotified
  <2>2. ASSUME NEW c \in Conn, TeardownCloseOne(a, c)
        PROVE  TypeOK'
    BY <2>2 DEF TypeOK, TeardownCloseOne
  <2>3. CASE TeardownDone(a)
    BY <2>3 DEF TypeOK, TeardownDone
  <2> QED
    BY <1>8, <2>1, <2>2, <2>3 DEF Teardown
<1>9. ASSUME NEW c \in Conn, WsPeer(c)
      PROVE  TypeOK'
  <2>1. CASE WsConnect(c)
    BY <2>1 DEF TypeOK, WsConnect, UseAnonymous, Touch, WsStates
  <2>2. ASSUME NEW s \in Session, WsAuthenticate(c, s)
        PROVE  TypeOK'
    BY <2>2 DEF TypeOK, WsAuthenticate, UseToken, Touch, WsStates
  <2>3. CASE WsFrame(c)
    <3>1. wsSession[c] \in Session \cup {NoSession}
      BY DEF TypeOK
    <3> QED
      BY <2>3, <3>1, TouchType DEF TypeOK, WsFrame, WsStates
  <2>4. CASE WsLogout(c)
    <3>1. wsSession[c] \in Session \cup {NoSession}
      BY DEF TypeOK
    <3> QED
      BY <2>4, <3>1, TouchType DEF TypeOK, WsLogout, WsStates
  <2>5. CASE PeerClose(c)
    BY <2>5 DEF TypeOK, PeerClose
  <2> QED
    BY <1>9, <2>1, <2>2, <2>3, <2>4, <2>5 DEF WsPeer
<1>10. ASSUME NEW c \in Conn, WsProceed(c)
       PROVE  TypeOK'
  <2>1. CASE WsFrameDone(c)
    BY <2>1 DEF TypeOK, WsFrameDone, Leaves, WsStates
  <2>2. CASE WsRevoke(c)
    <3>1. CASE wsSession[c] \in registered
      <4>1. wsSession[c] \in Session /\ wsSession[c] \in Ender
        BY <3>1 DEF TypeOK, Ender
      <4>2. EnterTeardown(wsSession[c], wsSession[c])
        BY <2>2, <3>1 DEF WsRevoke
      <4> QED
        BY <2>2, <3>1, <4>1, <4>2, EnterTeardownType DEF TypeOK, WsRevoke, WsStates
    <3>2. CASE wsSession[c] \notin registered
      BY <2>2, <3>2 DEF TypeOK, WsRevoke, WsStates
    <3> QED
      BY <3>1, <3>2
  <2>3. CASE WsRevoked(c)
    BY <2>3 DEF TypeOK, WsRevoked, WsStates
  <2>4. CASE WsLeave(c)
    BY <2>4 DEF TypeOK, WsLeave, WsStates
  <2>5. CASE WsGone(c)
    BY <2>5 DEF TypeOK, WsGone, WsStates
  <2>6. CASE WsRejectClose(c)
    BY <2>6 DEF TypeOK, WsRejectClose, WsStates
  <2>7. CASE WsHandshakeLost(c)
    BY <2>7 DEF TypeOK, WsHandshakeLost, WsStates
  <2> QED
    BY <1>10, <2>1, <2>2, <2>3, <2>4, <2>5, <2>6, <2>7 DEF WsProceed
<1>11. ASSUME NEW c \in Conn, WsReject(c)
       PROVE  TypeOK'
  BY <1>11 DEF TypeOK, WsReject, WsStates
<1>12. ASSUME NEW s \in Session, BackgroundCreates(s) \/ BackgroundEnds(s)
       PROVE  TypeOK'
  BY <1>12 DEF TypeOK, BackgroundCreates, BackgroundEnds
<1>13. CASE UNCHANGED vars
  BY <1>13 DEF TypeOK, vars
<1> QED
  BY <1>1, <1>2, <1>3, <1>4, <1>5, <1>6, <1>7, <1>8, <1>9, <1>10, <1>11, <1>12,
     <1>13 DEF Next, Sweep

\* Every reachable state has its declared type (all of Sessions).
THEOREM TypeCorrect == Spec => []TypeOK
  BY InitType, NextType, PTL DEF Spec

-----------------------------------------------------------------------------
(***************************************************************************)
(* The inductive invariant.  NoOrphanConnection alone is not inductive: a  *)
(* teardown in its closing phase protects only the connections it has      *)
(* still to close, so the invariant must say which teardown will reach     *)
(* which connection (CoverInv); that needs every logout to be the only     *)
(* teardown run under its session's name (LogoutInv), which in turn needs  *)
(* to know what the WebSocket handlers hold (HandlerInv).                  *)
(***************************************************************************)

LEMMA InitInv == Init => IInv
<1> SUFFICES ASSUME Init PROVE IInv
  OBVIOUS
<1>1. TypeOK
  BY InitType
<1>2. HandlerInv /\ CoverInv
  BY ConstantsAssumption DEF Init, HandlerInv, CoverInv
<1>3. LogoutInv
  BY DEF Init, LogoutInv, Ender
<1> QED
  BY <1>1, <1>2, <1>3 DEF IInv

\* Popping s and starting its teardown keeps every connection covered, as
\* long as the teardown's runner was idle.
LEMMA EnterTeardownCovers ==
  ASSUME TypeOK, CoverInv,
         NEW a \in Ender, NEW s \in Session,
         tdState[a] = "idle",
         EnterTeardown(a, s),
         UNCHANGED <<wsSession, wsClosed>>
  PROVE  CoverInv'
<1> SUFFICES ASSUME NEW c \in Conn, wsSession[c] # NoSession, ~wsClosed[c],
                    wsSession[c] \notin registered'
             PROVE  \E b \in Ender : WillClose(b, c)'
  BY DEF CoverInv
<1>1. CASE wsSession[c] = s
  <2>1. WillClose(a, c)'
    BY <1>1 DEF WillClose, EnterTeardown, TypeOK
  <2> QED
    BY <2>1
<1>2. CASE wsSession[c] # s
  <2>1. wsSession[c] \notin registered
    BY <1>2 DEF EnterTeardown
  <2>2. PICK b \in Ender : WillClose(b, c)
    BY <2>1 DEF CoverInv
  <2>3. b # a
    BY <2>2 DEF WillClose
  <2>4. WillClose(b, c)'
    BY <2>2, <2>3 DEF WillClose, EnterTeardown, TypeOK
  <2> QED
    BY <2>4
<1> QED
  BY <1>1, <1>2

\* A logout that pops s leaves LogoutInv true; so does the reaper.
LEMMA EnterTeardownLogout ==
  ASSUME TypeOK, LogoutInv,
         NEW s \in Session, NEW a \in {s, Reaper},
         a = s => s \in registered /\ s # Anon,
         EnterTeardown(a, s)
  PROVE  LogoutInv'
<1> SUFFICES ASSUME NEW t \in Session, tdState'[t] # "idle"
             PROVE  t \in created' \ registered' /\ t # Anon
  BY DEF LogoutInv
<1>1. created' = created /\ registered' = registered \ {s}
  BY DEF EnterTeardown
<1>2. CASE a = t
  <2>1. a = s
    BY <1>2, ConstantsAssumption
  <2> QED
    BY <1>1, <1>2, <2>1 DEF TypeOK
<1>3. CASE a # t
  <2>1. tdState[t] # "idle"
    BY <1>3 DEF EnterTeardown, TypeOK, Ender
  <2> QED
    BY <1>1, <2>1 DEF LogoutInv
<1> QED
  BY <1>2, <1>3

\* Steps that leave the connections, the teardowns and every registration
\* in place keep CoverInv.
LEMMA CoverUnchanged ==
  ASSUME CoverInv,
         registered \subseteq registered',
         UNCHANGED <<wsSession, wsClosed, tdVars>>
  PROVE  CoverInv'
  BY DEF CoverInv, WillClose, tdVars

LEMMA NextInv ==
  ASSUME IInv, [Next]_vars
  PROVE  IInv'
<1> USE ConstantsAssumption
<1> USE DEF IInv, registryVars, bookVars, wsVars, tdVars
<1>0. TypeOK'
  BY NextType
<1>1. CASE Tick
  BY <1>0, <1>1, CoverUnchanged DEF Tick, HandlerInv, LogoutInv
<1>2. CASE Sweep
  <2>1. PICK s \in Session : /\ tdState[Reaper] = "idle"
                             /\ EnterTeardown(Reaper, s)
                             /\ UNCHANGED <<wsState, wsSession, wsClosed>>
    BY <1>2 DEF Sweep, SweepStart, SweepNext, TypeOK
  <2>2. Reaper \in Ender
    BY DEF Ender
  <2>3. CoverInv'
    BY <2>1, <2>2, EnterTeardownCovers
  <2>4. LogoutInv'
    BY <2>1, EnterTeardownLogout
  <2>5. HandlerInv'
    BY <2>1 DEF HandlerInv
  <2> QED
    BY <1>0, <2>3, <2>4, <2>5
<1>3. ASSUME NEW s \in Session, Login(s)
      PROVE  IInv'
  BY <1>0, <1>3, CoverUnchanged DEF Login, HandlerInv, LogoutInv, TypeOK
<1>4. ASSUME NEW s \in Session, RestLogout(s)
      PROVE  IInv'
  <2>1. /\ s \in registered /\ s # Anon
        /\ EnterTeardown(s, s)
        /\ UNCHANGED <<wsState, wsSession, wsClosed>>
    BY <1>4 DEF RestLogout
  <2>2. s \in Ender /\ tdState[s] = "idle"
    BY <2>1 DEF Ender, LogoutInv
  <2>3. CoverInv'
    BY <2>1, <2>2, EnterTeardownCovers
  <2>4. LogoutInv'
    BY <2>1, EnterTeardownLogout
  <2>5. HandlerInv'
    BY <2>1 DEF HandlerInv
  <2> QED
    BY <1>0, <2>3, <2>4, <2>5
<1>5. ASSUME NEW r \in Request, RestFinish(r)
      PROVE  IInv'
  BY <1>0, <1>5, CoverUnchanged DEF RestFinish, Leaves, HandlerInv, LogoutInv
<1>6. ASSUME NEW r \in Request, NEW s \in Session, RestStart(r, s)
      PROVE  IInv'
  <2>1. CASE AuthEnabled
    BY <1>0, <1>6, <2>1, CoverUnchanged
       DEF RestStart, UseToken, HandlerInv, LogoutInv
  <2>2. CASE ~AuthEnabled
    BY <1>0, <1>6, <2>2, CoverUnchanged
       DEF RestStart, UseAnonymous, HandlerInv, LogoutInv
  <2> QED
    BY <2>1, <2>2
<1>7. ASSUME NEW a \in Ender, Teardown(a)
      PROVE  IInv'
  <2>1. CASE TeardownNotified(a)
    <3>1. HandlerInv' /\ LogoutInv'
      BY <2>1 DEF TeardownNotified, HandlerInv, LogoutInv, TypeOK, Ender
    <3>2. CoverInv'
      <4> SUFFICES ASSUME NEW c \in Conn, wsSession[c] # NoSession,
                          ~wsClosed[c], wsSession[c] \notin registered
                   PROVE  \E b \in Ender : WillClose(b, c)'
        BY <2>1 DEF CoverInv, TeardownNotified
      <4>1. PICK b \in Ender : WillClose(b, c)
        BY DEF CoverInv
      <4>2. WillClose(b, c)'
        BY <2>1, <4>1 DEF WillClose, TeardownNotified, AttachedTo, TypeOK
      <4> QED
        BY <4>2
    <3> QED
      BY <1>0, <3>1, <3>2
  <2>2. ASSUME NEW d \in Conn, TeardownCloseOne(a, d)
        PROVE  IInv'
    <3>1. HandlerInv' /\ LogoutInv'
      BY <2>2 DEF TeardownCloseOne, HandlerInv, LogoutInv
    <3>2. CoverInv'
      <4> SUFFICES ASSUME NEW c \in Conn, wsSession[c] # NoSession,
                          ~wsClosed'[c], wsSession[c] \notin registered
                   PROVE  \E b \in Ender : WillClose(b, c)'
        BY <2>2 DEF CoverInv, TeardownCloseOne
      <4>1. c # d /\ ~wsClosed[c]
        BY <2>2 DEF TeardownCloseOne, TypeOK
      <4>2. PICK b \in Ender : WillClose(b, c)
        BY <4>1 DEF CoverInv
      <4>3. WillClose(b, c)'
        BY <2>2, <4>1, <4>2 DEF WillClose, TeardownCloseOne, TypeOK
      <4> QED
        BY <4>3
    <3> QED
      BY <1>0, <3>1, <3>2
  <2>3. CASE TeardownDone(a)
    <3>1. HandlerInv' /\ LogoutInv'
      BY <2>3 DEF TeardownDone, HandlerInv, LogoutInv, TypeOK, Ender
    <3>2. CoverInv'
      BY <2>3 DEF CoverInv, WillClose, TeardownDone, TypeOK
    <3> QED
      BY <1>0, <3>1, <3>2
  <2> QED
    BY <1>7, <2>1, <2>2, <2>3 DEF Teardown
<1>8. ASSUME NEW c \in Conn, WsPeer(c)
      PROVE  IInv'
  <2>1. CASE WsConnect(c)
    <3>1. CASE AuthEnabled
      BY <1>0, <2>1, <3>1, CoverUnchanged
         DEF WsConnect, HandlerInv, LogoutInv, AttachedStates, TypeOK
    <3>2. CASE ~AuthEnabled
      <4>1. HandlerInv' /\ LogoutInv'
        BY <2>1, <3>2 DEF WsConnect, UseAnonymous, HandlerInv, LogoutInv,
                          AttachedStates, TypeOK
      <4>2. CoverInv'
        BY <2>1, <3>2 DEF WsConnect, UseAnonymous, CoverInv, WillClose, TypeOK
      <4> QED
        BY <1>0, <4>1, <4>2
    <3> QED
      BY <3>1, <3>2
  <2>2. ASSUME NEW s \in Session, WsAuthenticate(c, s)
        PROVE  IInv'
    <3>1. HandlerInv' /\ LogoutInv'
      BY <2>2 DEF WsAuthenticate, UseToken, HandlerInv, LogoutInv,
                  AttachedStates, TypeOK
    <3>2. CoverInv'
      BY <2>2 DEF WsAuthenticate, UseToken, CoverInv, WillClose, TypeOK
    <3> QED
      BY <1>0, <3>1, <3>2
  <2>3. CASE WsFrame(c)
    BY <1>0, <2>3, CoverUnchanged
       DEF WsFrame, HandlerInv, LogoutInv, AttachedStates, TypeOK
  <2>4. CASE WsLogout(c)
    BY <1>0, <2>4, CoverUnchanged
       DEF WsLogout, HandlerInv, LogoutInv, AttachedStates, TypeOK
  <2>5. CASE PeerClose(c)
    BY <1>0, <2>5
       DEF PeerClose, HandlerInv, LogoutInv, CoverInv, WillClose, TypeOK
  <2> QED
    BY <1>8, <2>1, <2>2, <2>3, <2>4, <2>5 DEF WsPeer
<1>9. ASSUME NEW c \in Conn, WsProceed(c)
      PROVE  IInv'
  <2>1. CASE WsFrameDone(c)
    BY <1>0, <2>1, CoverUnchanged
       DEF WsFrameDone, Leaves, HandlerInv, LogoutInv, AttachedStates, TypeOK
  <2>2. CASE WsRevoke(c)
    <3>1. HandlerInv'
      BY <2>2 DEF WsRevoke, HandlerInv, AttachedStates, TypeOK
    <3>2. CASE wsSession[c] \in registered
      <4>1. /\ EnterTeardown(wsSession[c], wsSession[c])
            /\ UNCHANGED <<wsSession, wsClosed>>
        BY <2>2, <3>2 DEF WsRevoke
      <4>2. wsSession[c] \in Session /\ wsSession[c] # Anon
        BY <2>2, <3>2 DEF WsRevoke, HandlerInv, TypeOK
      <4>3. wsSession[c] \in Ender /\ tdState[wsSession[c]] = "idle"
        BY <3>2, <4>2 DEF Ender, LogoutInv
      <4>4. CoverInv'
        BY <4>1, <4>2, <4>3, EnterTeardownCovers
      <4>5. LogoutInv'
        BY <3>2, <4>1, <4>2, EnterTeardownLogout
      <4> QED
        BY <1>0, <3>1, <4>4, <4>5
    <3>3. CASE wsSession[c] \notin registered
      BY <1>0, <2>2, <3>1, <3>3, CoverUnchanged DEF WsRevoke, LogoutInv
    <3> QED
      BY <3>2, <3>3
  <2>3. CASE WsRevoked(c)
    BY <1>0, <2>3, CoverUnchanged
       DEF WsRevoked, HandlerInv, LogoutInv, AttachedStates, TypeOK
  <2>4. CASE WsLeave(c)
    BY <1>0, <2>4, CoverUnchanged
       DEF WsLeave, HandlerInv, LogoutInv, AttachedStates, TypeOK
  <2>5. CASE WsGone(c)
    <3>1. HandlerInv' /\ LogoutInv'
      BY <2>5 DEF WsGone, HandlerInv, LogoutInv, AttachedStates, TypeOK
    <3>2. CoverInv'
      BY <2>5 DEF WsGone, CoverInv, WillClose, TypeOK
    <3> QED
      BY <1>0, <3>1, <3>2
  <2>6. CASE WsRejectClose(c)
    BY <1>0, <2>6
       DEF WsRejectClose, HandlerInv, LogoutInv, CoverInv, WillClose, TypeOK
  <2>7. CASE WsHandshakeLost(c)
    BY <1>0, <2>7, CoverUnchanged
       DEF WsHandshakeLost, HandlerInv, LogoutInv, TypeOK
  <2> QED
    BY <1>9, <2>1, <2>2, <2>3, <2>4, <2>5, <2>6, <2>7 DEF WsProceed
<1>10. ASSUME NEW c \in Conn, WsReject(c)
       PROVE  IInv'
  <2>1. HandlerInv' /\ LogoutInv'
    BY <1>10 DEF WsReject, HandlerInv, LogoutInv, AttachedStates, TypeOK
  <2>2. CoverInv'
    BY <1>10 DEF WsReject, CoverInv, WillClose, TypeOK
  <2> QED
    BY <1>0, <2>1, <2>2
<1>11. ASSUME NEW s \in Session, BackgroundCreates(s) \/ BackgroundEnds(s)
       PROVE  IInv'
  BY <1>0, <1>11, CoverUnchanged
     DEF BackgroundCreates, BackgroundEnds, HandlerInv, LogoutInv
<1>12. CASE UNCHANGED vars
  BY <1>0, <1>12, CoverUnchanged DEF vars, HandlerInv, LogoutInv
<1> QED
  BY <1>1, <1>2, <1>3, <1>4, <1>5, <1>6, <1>7, <1>8, <1>9, <1>10, <1>11, <1>12
     DEF Next

\* No teardown, however it is interleaved with connects, logouts and sweeps,
\* leaves an open connection attached to a dead session (_teardown).
THEOREM NoOrphans == Spec => []NoOrphanConnection
<1>1. IInv => NoOrphanConnection
  BY DEF IInv, CoverInv, WillClose, NoOrphanConnection, BeingTornDown
<1> QED
  BY InitInv, NextInv, <1>1, PTL DEF Spec
-----------------------------------------------------------------------------
\* The reaper never has Anon on its list.
AnonSpared == Anon \notin expired

LEMMA NextSparesAnon ==
  ASSUME AnonSpared, [Next]_vars
  PROVE  AnonSpared'
<1> USE DEF AnonSpared, registryVars, bookVars, wsVars, tdVars
<1>1. CASE SweepStart
  BY <1>1 DEF SweepStart, IsExpired
<1>2. CASE SweepNext
  BY <1>2 DEF SweepNext
<1>3. CASE UNCHANGED expired
  BY <1>3
<1>4. CASE Tick
  BY <1>4 DEF Tick
<1>5. ASSUME NEW s \in Session, Login(s) \/ RestLogout(s)
      PROVE  UNCHANGED expired
  BY <1>5 DEF Login, RestLogout
<1>6. ASSUME NEW r \in Request,
             RestFinish(r) \/ \E s \in Session : RestStart(r, s)
      PROVE  UNCHANGED expired
  BY <1>6 DEF RestFinish, RestStart
<1>7. ASSUME NEW a \in Ender, Teardown(a)
      PROVE  UNCHANGED expired
  BY <1>7 DEF Teardown, TeardownNotified, TeardownCloseOne, TeardownDone
<1>8. ASSUME NEW c \in Conn, WsPeer(c) \/ WsProceed(c) \/ WsReject(c)
      PROVE  UNCHANGED expired
  BY <1>8 DEF WsPeer, WsProceed, WsReject, WsConnect, WsAuthenticate, WsFrame,
              WsLogout, PeerClose, WsFrameDone, WsRevoke, WsRevoked, WsLeave,
              WsGone, WsRejectClose, WsHandshakeLost
<1>9. ASSUME NEW s \in Session, BackgroundCreates(s) \/ BackgroundEnds(s)
      PROVE  UNCHANGED expired
  BY <1>9 DEF BackgroundCreates, BackgroundEnds
<1>10. CASE UNCHANGED vars
  BY <1>10 DEF vars
<1> QED
  BY <1>1, <1>2, <1>3, <1>4, <1>5, <1>6, <1>7, <1>8, <1>9, <1>10 DEF Next, Sweep

\* What takes a session out of the registry takes one other than Anon.
LEMMA NextKeepsAnon ==
  ASSUME IInv, AnonSpared, [Next]_vars, Anon \in registered
  PROVE  Anon \in registered'
<1> USE DEF registryVars, bookVars, wsVars, tdVars
<1>1. ASSUME NEW a, NEW s \in Session \ {Anon}, EnterTeardown(a, s)
      PROVE  Anon \in registered'
  BY <1>1 DEF EnterTeardown
<1>2. CASE SweepStart
  <2>1. PICK s \in registered : IsExpired(s) /\ EnterTeardown(Reaper, s)
    BY <1>2 DEF SweepStart
  <2> QED
    BY <1>1, <2>1 DEF IsExpired, IInv, TypeOK
<1>3. CASE SweepNext
  <2>1. PICK s \in expired : EnterTeardown(Reaper, s)
    BY <1>3 DEF SweepNext
  <2> QED
    BY <1>1, <2>1 DEF AnonSpared, IInv, TypeOK
<1>4. CASE Tick
  BY <1>4 DEF Tick
<1>5. ASSUME NEW s \in Session, Login(s) \/ RestLogout(s)
      PROVE  Anon \in registered'
  BY <1>1, <1>5 DEF Login, RestLogout
<1>6. ASSUME NEW r \in Request,
             RestFinish(r) \/ \E s \in Session : RestStart(r, s)
      PROVE  Anon \in registered'
  BY <1>6 DEF RestFinish, RestStart, UseToken, UseAnonymous
<1>7. ASSUME NEW a \in Ender, Teardown(a)
      PROVE  Anon \in registered'
  BY <1>7 DEF Teardown, TeardownNotified, TeardownCloseOne, TeardownDone
<1>8. ASSUME NEW c \in Conn, WsPeer(c) \/ WsReject(c)
      PROVE  Anon \in registered'
  BY <1>8 DEF WsPeer, WsReject, WsConnect, WsAuthenticate, WsFrame, WsLogout,
              PeerClose, UseToken, UseAnonymous
<1>9. ASSUME NEW c \in Conn, WsProceed(c)
      PROVE  Anon \in registered'
  <2>1. CASE WsRevoke(c)
    <3>1. wsSession[c] \in (Session \ {Anon}) \cup {NoSession}
      BY <2>1 DEF WsRevoke, IInv, HandlerInv, TypeOK
    <3>2. CASE wsSession[c] \in registered
      <4>1. wsSession[c] \in Session \ {Anon}
        BY <3>1, <3>2, ConstantsAssumption DEF IInv, TypeOK
      <4> QED
        BY <1>1, <2>1, <3>2, <4>1 DEF WsRevoke
    <3>3. CASE wsSession[c] \notin registered
      BY <2>1, <3>3 DEF WsRevoke
    <3> QED
      BY <3>2, <3>3
  <2> QED
    BY <1>9, <2>1 DEF WsProceed, WsFrameDone, WsRevoked, WsLeave, WsGone,
                      WsRejectClose, WsHandshakeLost
<1>10. ASSUME NEW s \in Session, BackgroundCreates(s) \/ BackgroundEnds(s)
       PROVE  Anon \in registered'
  BY <1>10 DEF BackgroundCreates, BackgroundEnds
<1>11. CASE UNCHANGED vars
  BY <1>11 DEF vars
<1> QED
  BY <1>2, <1>3, <1>4, <1>5, <1>6, <1>7, <1>8, <1>9, <1>10, <1>11 DEF Next, Sweep

\* With or without authentication, neither the reaper nor a logout ever takes
\* the anonymous session (_is_expired, rest_logout, ws_logout).
THEOREM AnonymousSessionStays == Spec => AnonymousStays
<1>1. Init => AnonSpared
  BY DEF Init, AnonSpared
<1>2. IInv /\ AnonSpared /\ [Next]_vars
        => (Anon \in registered => Anon \in registered')
  BY NextKeepsAnon
<1>3. AnonSpared /\ [Next]_vars => AnonSpared'
  BY NextSparesAnon
<1>4. IInv /\ AnonSpared /\ [Next]_vars
        => [(Anon \in registered => Anon \in registered')]_vars
  BY <1>2
<1> QED
  BY InitInv, NextInv, <1>1, <1>3, <1>4, PTL DEF Spec, AnonymousStays

-----------------------------------------------------------------------------
(***************************************************************************)
(* Every session implements SessionLife.                                   *)
(***************************************************************************)

\* A connection, a request or the background of s keeps the session object.
Held(s) ==
    \/ AttachedTo(s) # {} \/ background[s]
    \/ \E r \in Request : reqSession[r] = s

Heard(s) == \E c \in AttachedTo(s) : ~wsClosed[c]

\* Nothing belongs to a session that does not exist yet; the anonymous
\* session is never lost, so it is never created again.
BirthInv ==
    /\ \A s \in Session \ created : ~owned[s] /\ ~Held(s)
    /\ Anon \in created => Anon \in registered

\* What a step may do to session s.
Ages(s) ==
    /\ s \in created => s \in created'
    /\ s \in registered' => s \in registered \/ s \notin created
    /\ s \in created' \ created => s \in registered' /\ ~owned'[s]
    /\ s \in created \ registered' =>
          /\ Heard(s)' => s \in registered \/ Heard(s)
          /\ Held(s)' => Held(s)
          /\ owned'[s] => s \notin registered /\ (owned[s] \/ Held(s))
    /\ s \notin created' => ~owned'[s] /\ ~Held(s)'

LEMMA QuietAges ==
  ASSUME TypeOK, BirthInv, NEW s \in Session,
         UNCHANGED <<created, registered, bookVars, wsSession, reqSession>>,
         \A c \in Conn : wsClosed[c] => wsClosed'[c]
  PROVE  Ages(s)
<1>1. (Held(s)' <=> Held(s)) /\ (Heard(s)' => Heard(s))
  BY DEF Held, Heard, AttachedTo, bookVars
<1>2. owned'[s] <=> owned[s]
  BY DEF bookVars
<1>3. s \notin created => ~owned[s] /\ ~Held(s)
  BY DEF BirthInv
<1>4. s \in registered => s \in created
  BY DEF TypeOK
<1>5. (s \in registered' <=> s \in registered) /\ (s \in created' <=> s \in created)
  OBVIOUS
<1> QED
  BY <1>1, <1>2, <1>3, <1>4, <1>5 DEF Ages

\* A session is popped and the hooks run.
LEMMA TeardownAges ==
  ASSUME TypeOK, BirthInv, NEW s \in Session, NEW t \in Session, NEW a \in Ender,
         EnterTeardown(a, t), UNCHANGED <<wsSession, wsClosed, reqSession>>
  PROVE  Ages(s)
<1>1. (Held(s)' <=> Held(s)) /\ (Heard(s)' <=> Heard(s))
  BY DEF Held, Heard, AttachedTo, EnterTeardown
<1>2. /\ owned'[s] => owned[s] /\ s # t
      /\ s \in registered' <=> s \in registered /\ s # t
      /\ s \in created' <=> s \in created
  BY DEF EnterTeardown, TypeOK
<1>3. s \notin created => ~owned[s] /\ ~Held(s)
  BY DEF BirthInv
<1>4. s \in registered => s \in created
  BY DEF TypeOK
<1> QED
  BY <1>1, <1>2, <1>3, <1>4 DEF Ages

\* A session is looked up for a connection or a request and given to it.
LEMMA LookupAges ==
  ASSUME TypeOK, BirthInv, NEW s \in Session, NEW t \in Session,
         IF AuthEnabled THEN UseToken(t) ELSE t = Anon /\ UseAnonymous,
         UNCHANGED <<bookVars, wsClosed>>,
         \A c \in Conn : wsSession'[c] \in {wsSession[c], t},
         \A r \in Request : reqSession'[r] \in {reqSession[r], t}
  PROVE  Ages(s)
<1>1. /\ s \in created => s \in created'
      /\ s \in registered' => s \in registered \/ s \notin created
      /\ s \in created' \ created => s \in registered'
      /\ s \in registered => s \in registered'
      /\ s \notin registered' => s # t
      /\ s \in registered' => s \in created'
  <2>1. CASE AuthEnabled
    BY <2>1 DEF UseToken, TypeOK
  <2>2. CASE ~AuthEnabled
    BY <2>2, ConstantsAssumption DEF UseAnonymous, TypeOK, BirthInv
  <2> QED
    BY <2>1, <2>2
<1>2. s # t => (Held(s)' => Held(s)) /\ (Heard(s)' => Heard(s))
  <2> SUFFICES ASSUME s # t
               PROVE  (Held(s)' => Held(s)) /\ (Heard(s)' => Heard(s))
    OBVIOUS
  <2>1. AttachedTo(s)' \subseteq AttachedTo(s)
    BY DEF AttachedTo
  <2> QED
    BY <2>1 DEF Held, Heard, bookVars
<1>3. owned'[s] <=> owned[s]
  BY DEF bookVars
<1>4. s \notin created => ~owned[s] /\ ~Held(s)
  BY DEF BirthInv
<1>5. s \in registered => s \in created
  BY DEF TypeOK
<1> QED
  BY <1>1, <1>2, <1>3, <1>4, <1>5 DEF Ages

\* A handler, a task or a callback that holds session t goes on: it may
\* create something for it, and leave more behind that holds it.
LEMMA HandlerAges ==
  ASSUME TypeOK, BirthInv, NEW s \in Session, NEW t \in Session, Held(t),
         UNCHANGED <<created, registered, wsSession, wsClosed>>,
         \E creates, spawns \in BOOLEAN :
            /\ owned' = [owned EXCEPT ![t] = @ \/ creates]
            /\ background' = [background EXCEPT ![t] = @ \/ spawns],
         \A r \in Request : reqSession'[r] \in {reqSession[r], NoSession}
  PROVE  Ages(s)
<1>0. background'[s] => background[s] \/ s = t
  BY DEF TypeOK
<1>1. (Held(s)' => Held(s)) /\ (Heard(s)' => Heard(s))
  <2>1. AttachedTo(s)' = AttachedTo(s)
    BY DEF AttachedTo
  <2>2. ASSUME NEW r \in Request, reqSession'[r] = s
        PROVE  reqSession[r] = s
    BY <2>2, ConstantsAssumption
  <2> QED
    BY <1>0, <2>1, <2>2 DEF Held, Heard
<1>2. owned'[s] => owned[s] \/ s = t
  BY DEF TypeOK
<1>3. s \notin created => ~owned[s] /\ ~Held(s)
  BY DEF BirthInv
<1>4. s \in registered => s \in created
  BY DEF TypeOK
<1>5. (s \in registered' <=> s \in registered) /\ (s \in created' <=> s \in created)
  OBVIOUS
<1> QED
  BY <1>1, <1>2, <1>3, <1>4, <1>5 DEF Ages

LEMMA NextAges ==
  ASSUME IInv, BirthInv, [Next]_vars, NEW s \in Session
  PROVE  Ages(s)
<1> USE DEF IInv, registryVars, wsVars, tdVars
<1> DEFINE Quiet ==
      /\ UNCHANGED <<created, registered, bookVars, wsSession, reqSession>>
      /\ \A c \in Conn : wsClosed[c] => wsClosed'[c]
<1>0. Quiet => Ages(s)
  BY QuietAges
<1>1. CASE Tick
  BY <1>0, <1>1 DEF Tick
<1>2. CASE Sweep
  <2>1. PICK t \in Session : /\ EnterTeardown(Reaper, t)
                             /\ UNCHANGED <<wsSession, wsClosed, reqSession>>
    BY <1>2 DEF Sweep, SweepStart, SweepNext, TypeOK
  <2>2. Reaper \in Ender
    BY DEF Ender
  <2> QED
    BY <2>1, <2>2, TeardownAges
<1>3. ASSUME NEW t \in Session, Login(t)
      PROVE  Ages(s)
  <2>1. (Held(s)' <=> Held(s)) /\ (Heard(s)' <=> Heard(s))
    BY <1>3 DEF Login, Held, Heard, AttachedTo, bookVars
  <2>2. /\ created' = created \cup {t} /\ registered' = registered \cup {t}
        /\ t \notin created /\ owned' = owned
    BY <1>3 DEF Login, bookVars
  <2>3. /\ s \notin created => ~owned[s] /\ ~Held(s)
        /\ s \in registered => s \in created
    BY DEF BirthInv, TypeOK
  <2> QED
    BY <2>1, <2>2, <2>3 DEF Ages
<1>4. ASSUME NEW t \in Session, RestLogout(t)
      PROVE  Ages(s)
  <2>1. t \in Ender
    BY DEF Ender
  <2> QED
    BY <1>4, <2>1, TeardownAges DEF RestLogout
<1>5. ASSUME NEW r \in Request, RestFinish(r)
      PROVE  Ages(s)
  <2>1. reqSession[r] \in Session /\ Held(reqSession[r])
    BY <1>5 DEF RestFinish, TypeOK, Held
  <2> QED
    BY <1>5, <2>1, HandlerAges DEF RestFinish, Leaves, TypeOK
<1>6. ASSUME NEW r \in Request, NEW t \in Session, RestStart(r, t)
      PROVE  Ages(s)
  BY <1>6, LookupAges DEF RestStart, TypeOK
<1>7. ASSUME NEW a \in Ender, Teardown(a)
      PROVE  Ages(s)
  BY <1>0, <1>7 DEF Teardown, TeardownNotified, TeardownCloseOne, TeardownDone,
                    TypeOK
<1>8. ASSUME NEW c \in Conn, WsPeer(c)
      PROVE  Ages(s)
  <2>1. CASE WsConnect(c)
    <3>1. CASE AuthEnabled
      BY <1>0, <2>1, <3>1 DEF WsConnect
    <3>2. CASE ~AuthEnabled
      <4>1. Anon \in Session
        BY ConstantsAssumption
      <4> QED
        BY <2>1, <3>2, <4>1, LookupAges DEF WsConnect, TypeOK
    <3> QED
      BY <3>1, <3>2
  <2>2. ASSUME NEW t \in Session, WsAuthenticate(c, t)
        PROVE  Ages(s)
    <3>1. AuthEnabled
      BY <2>2 DEF WsAuthenticate, UseToken
    <3> QED
      BY <2>2, <3>1, LookupAges DEF WsAuthenticate, TypeOK
  <2>3. CASE WsFrame(c) \/ WsLogout(c) \/ PeerClose(c)
    BY <1>0, <2>3 DEF WsFrame, WsLogout, PeerClose, TypeOK
  <2> QED
    BY <1>8, <2>1, <2>2, <2>3 DEF WsPeer
<1>9. ASSUME NEW c \in Conn, WsProceed(c)
      PROVE  Ages(s)
  <2>1. CASE WsFrameDone(c)
    <3>1. wsSession[c] \in Session /\ Held(wsSession[c])
      BY <2>1 DEF WsFrameDone, TypeOK, AttachedStates, Held, AttachedTo
    <3> QED
      BY <2>1, <3>1, HandlerAges DEF WsFrameDone, Leaves
  <2>2. CASE WsRevoke(c)
    <3>1. wsSession[c] \in Session /\ wsSession[c] \in Ender
      BY <2>2 DEF WsRevoke, TypeOK, AttachedStates, Ender
    <3>2. CASE wsSession[c] \in registered
      BY <2>2, <3>1, <3>2, TeardownAges DEF WsRevoke
    <3>3. CASE wsSession[c] \notin registered
      BY <1>0, <2>2, <3>3 DEF WsRevoke
    <3> QED
      BY <3>2, <3>3
  <2>3. CASE WsRevoked(c) \/ WsLeave(c) \/ WsRejectClose(c) \/ WsHandshakeLost(c)
    BY <1>0, <2>3 DEF WsRevoked, WsLeave, WsRejectClose, WsHandshakeLost, TypeOK
  <2>4. CASE WsGone(c)
    <3>1. (Held(s)' => Held(s)) /\ (Heard(s)' => Heard(s))
      BY <2>4, ConstantsAssumption
         DEF WsGone, Held, Heard, AttachedTo, TypeOK, bookVars
    <3>2. UNCHANGED <<created, registered, owned>>
      BY <2>4 DEF WsGone, bookVars
    <3>3. /\ s \notin created => ~owned[s] /\ ~Held(s)
          /\ s \in registered => s \in created
      BY DEF BirthInv, TypeOK
    <3> QED
      BY <3>1, <3>2, <3>3 DEF Ages
  <2> QED
    BY <1>9, <2>1, <2>2, <2>3, <2>4 DEF WsProceed
<1>10. ASSUME NEW c \in Conn, WsReject(c)
       PROVE  Ages(s)
  BY <1>0, <1>10 DEF WsReject, TypeOK
<1>11. ASSUME NEW t \in Session, BackgroundCreates(t)
       PROVE  Ages(s)
  <2>1. Held(t)
    BY <1>11 DEF BackgroundCreates, Held
  <2>2. /\ owned' = [owned EXCEPT ![t] = @ \/ TRUE]
        /\ background' = [background EXCEPT ![t] = @ \/ FALSE]
    BY <1>11 DEF BackgroundCreates, TypeOK
  <2> QED
    BY <1>11, <2>1, <2>2, HandlerAges DEF BackgroundCreates
<1>12. ASSUME NEW t \in Session, BackgroundEnds(t)
       PROVE  Ages(s)
  <2>1. (Held(s)' => Held(s)) /\ (Heard(s)' => Heard(s))
    BY <1>12 DEF BackgroundEnds, Held, Heard, AttachedTo, TypeOK
  <2>2. UNCHANGED <<created, registered, owned>>
    BY <1>12 DEF BackgroundEnds
  <2>3. /\ s \notin created => ~owned[s] /\ ~Held(s)
        /\ s \in registered => s \in created
    BY DEF BirthInv, TypeOK
  <2> QED
    BY <2>1, <2>2, <2>3 DEF Ages
<1>13. CASE UNCHANGED vars
  BY <1>0, <1>13 DEF vars, bookVars
<1> QED
  BY <1>1, <1>2, <1>3, <1>4, <1>5, <1>6, <1>7, <1>8, <1>9, <1>10, <1>11, <1>12,
     <1>13 DEF Next, Sweep

LEMMA NextBirth ==
  ASSUME IInv, AnonSpared, BirthInv, [Next]_vars
  PROVE  BirthInv'
<1>1. \A s \in Session : Ages(s)
  BY NextAges
<1>2. \A s \in Session \ created' : ~owned'[s] /\ ~Held(s)'
  BY <1>1 DEF Ages
<1>3. Anon \in created' => Anon \in registered'
  <2>1. CASE Anon \in created
    BY <2>1, NextKeepsAnon DEF BirthInv
  <2>2. CASE Anon \notin created
    BY <1>1, <2>2, ConstantsAssumption DEF Ages
  <2> QED
    BY <2>1, <2>2
<1> QED
  BY <1>2, <1>3 DEF BirthInv

\* A step that ages s as above is a step of SessionLife, or none.
LEMMA AgesIsLife ==
  ASSUME TypeOK, TypeOK', BirthInv, NEW s \in Session, Ages(s)
  PROVE  [Life(s)!Next]_(Life(s)!vars)
<1>1. /\ s \in registered => s \in created
      /\ s \in registered' => s \in created'
      /\ s \notin created => ~owned[s] /\ ~Held(s)
      /\ s \notin created' => ~owned'[s] /\ ~Held(s)'
      /\ owned[s] \in BOOLEAN /\ owned'[s] \in BOOLEAN
  BY DEF TypeOK, BirthInv, Ages
<1> QED
  BY <1>1 DEF Ages, Held, Heard, Life!Next, Life!vars, Life!Create, Life!Serve,
              Life!End, Life!WindDown

\* Sessions end once and for all, and what is left of one only winds down
\* (get_by_token, _teardown, _ws_handler).
THEOREM SessionsImplementLife == Spec => SessionsWindDown
<1>1. Init => AnonSpared /\ BirthInv
  BY ConstantsAssumption DEF Init, AnonSpared, BirthInv, Held, AttachedTo
<1>2. Init => \A s \in Session : Life(s)!Init
  BY DEF Init, Life!Init
<1>3. IInv /\ IInv' /\ BirthInv /\ [Next]_vars
        => [\A s \in Session : [Life(s)!Next]_(Life(s)!vars)]_vars
  BY NextAges, AgesIsLife DEF IInv
<1> QED
  BY InitInv, NextInv, NextSparesAnon, NextBirth, <1>1, <1>2, <1>3, PTL
     DEF Spec, SessionsWindDown
=============================================================================
