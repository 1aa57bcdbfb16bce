--------------------------- MODULE EndpointsProofs ---------------------------
(***************************************************************************)
(* Proofs about Endpoints for every set of sessions, identities,           *)
(* destination hashes and requests.                                        *)
(***************************************************************************)
EXTENDS Endpoints, TLAPS

\* A request under way knows its session.
RequestInv ==
    \A r \in Request :
        request[r].op \notin {"none", "failed"} => request[r].session \in Session

IInv == TypeOK /\ RequestInv /\ OwnersAreRegistered /\ OnlyListenersHear

-----------------------------------------------------------------------------
\* Reachable states have their declared types.
LEMMA InitType == Init => TypeOK
  BY ConstantsAssumption DEF Init, TypeOK, NoRequest, RequestState

LEMMA NextType ==
  ASSUME TypeOK, RequestInv, [Next]_vars
  PROVE  TypeOK'
<1> USE ConstantsAssumption
<1>1. ASSUME NEW s \in Session, NEW i \in Identity, WsSetIdentity(s, i)
      PROVE  TypeOK'
  BY <1>1 DEF TypeOK, WsSetIdentity
<1>2. ASSUME NEW s \in Session, ClearIdentity(s)
      PROVE  TypeOK'
  BY <1>2 DEF TypeOK, ClearIdentity
<1>3. ASSUME NEW s \in Session, NEW h \in Hash, WsAdd(s, h)
      PROVE  TypeOK'
  BY <1>3 DEF TypeOK, WsAdd, CreateDestination, CreateInbound, CreateOutbound
<1>4. ASSUME NEW s \in Session, NEW h \in Hash, Remove(s, h)
      PROVE  TypeOK'
  BY <1>4 DEF TypeOK, Remove, Deregister
<1>5. ASSUME NEW s \in Session, NEW h \in Hash, WsListen(s, h)
      PROVE  TypeOK'
  BY <1>5 DEF TypeOK, WsListen, StartListening
<1>6. ASSUME NEW s \in Session, NEW h \in Hash, Unlisten(s, h)
      PROVE  TypeOK'
  BY <1>6 DEF TypeOK, Unlisten
<1>7. ASSUME NEW s \in Session, NEW r \in Request, RestSetIdentityCheck(r, s)
      PROVE  TypeOK'
  BY <1>7 DEF TypeOK, RestSetIdentityCheck, RequestState
<1>8. ASSUME NEW s \in Session, NEW r \in Request, RestAddCheck(r, s)
      PROVE  TypeOK'
  BY <1>8 DEF TypeOK, RestAddCheck, RequestState
<1>9. ASSUME NEW s \in Session, EndSession(s)
      PROVE  TypeOK'
  BY <1>9 DEF TypeOK, EndSession, Deregister
<1>10. ASSUME NEW s \in Session, Disconnect(s)
       PROVE  TypeOK'
  BY <1>10 DEF TypeOK, Disconnect
<1>11. ASSUME NEW s \in Session, LinksChange(s)
       PROVE  TypeOK'
  BY <1>11 DEF TypeOK, LinksChange
<1>12. ASSUME NEW r \in Request, RestSetIdentity(r)
       PROVE  TypeOK'
  BY <1>12 DEF TypeOK, RestSetIdentity, NoRequest, RequestState
<1>13. ASSUME NEW r \in Request, RestAdd(r)
       PROVE  TypeOK'
  <2>1. request' \in [Request -> RequestState]
    BY <1>13 DEF TypeOK, RestAdd, NoRequest, RequestState
  <2>2. /\ owned' \in [Session -> SUBSET Hash]
        /\ outbound' \in [Session -> SUBSET Hash]
        /\ registered' \subseteq Hash
    BY <1>13 DEF TypeOK, RestAdd, CreateDestination, CreateInbound, CreateOutbound
  <2> QED
    BY <1>13, <2>1, <2>2 DEF TypeOK, RestAdd
<1>14. ASSUME NEW s \in Session, NEW r \in Request, RestListenStart(r, s)
       PROVE  TypeOK'
  BY <1>14 DEF TypeOK, RestListenStart, RequestState
<1>15. ASSUME NEW r \in Request, RestListen(r)
       PROVE  TypeOK'
  <2>1. request' \in [Request -> RequestState]
    BY <1>15 DEF TypeOK, RestListen, NoRequest, RequestState
  <2>2. request[r].session \in Session
    BY <1>15 DEF RequestInv, RestListen
  <2>3. /\ callback' \in [Hash -> Session \cup {NoSession}]
        /\ listeners' \in [Session -> SUBSET Hash]
    BY <1>15, <2>2 DEF TypeOK, RestListen, StartListening
  <2> QED
    BY <1>15, <2>1, <2>3 DEF TypeOK, RestListen
<1>16. ASSUME NEW r \in Request, RestAddRaises(r) \/ RestAddFails(r)
       PROVE  TypeOK'
  BY <1>16 DEF TypeOK, RestAddRaises, RestAddFails, NoRequest, RequestState
<1>17. CASE UNCHANGED vars
  BY <1>17 DEF TypeOK, vars
<1> QED
  BY <1>1, <1>2, <1>3, <1>4, <1>5, <1>6, <1>7, <1>8, <1>9, <1>10, <1>11,
     <1>12, <1>13, <1>14, <1>15, <1>16, <1>17 DEF Next, Client

LEMMA NextRequest ==
  ASSUME TypeOK, RequestInv, [Next]_vars
  PROVE  RequestInv'
<1>1. CASE UNCHANGED request
  BY <1>1 DEF RequestInv
<1>2. ASSUME NEW r \in Request, NEW s \in Session,
             RestSetIdentityCheck(r, s) \/ RestAddCheck(r, s)
                \/ RestListenStart(r, s)
      PROVE  RequestInv'
  BY <1>2 DEF TypeOK, RequestInv, RestSetIdentityCheck, RestAddCheck,
              RestListenStart
<1>3. ASSUME NEW r \in Request,
             \/ RestSetIdentity(r) \/ RestAdd(r) \/ RestListen(r)
             \/ RestAddRaises(r) \/ RestAddFails(r)
      PROVE  RequestInv'
  BY <1>3 DEF TypeOK, RequestInv, RestSetIdentity, RestAdd, RestListen,
              RestAddRaises, RestAddFails, NoRequest
<1>4. CASE \E s \in Session : Client(s)
  BY <1>1, <1>2, <1>4
     DEF Client, WsSetIdentity, ClearIdentity, WsAdd, Remove, WsListen,
         Unlisten, EndSession, Disconnect, LinksChange
<1> QED
  BY <1>1, <1>3, <1>4 DEF Next, vars

-----------------------------------------------------------------------------
\* Creating a destination keeps the books: only an unregistered hash is taken.
LEMMA CreateKeepsBooks ==
  ASSUME NEW s \in Session, NEW h \in Hash,
         TypeOK, OwnersAreRegistered, CreateDestination(s, h)
  PROVE  OwnersAreRegistered'
<1>1. CASE CreateInbound(s, h)
  <2>1. \A t \in Session : owned'[t] = IF t = s THEN owned[t] \cup {h} ELSE owned[t]
    BY <1>1 DEF TypeOK, CreateInbound
  <2>2. \A t \in Session : h \notin owned[t]
    BY <1>1 DEF CreateInbound, OwnersAreRegistered
  <2> QED
    BY <1>1, <2>1, <2>2 DEF CreateInbound, OwnersAreRegistered
<1>2. CASE CreateOutbound(s, h)
  <2>1. \A t \in Session : owned'[t] \subseteq owned[t]
    BY <1>2 DEF TypeOK, CreateOutbound
  <2> QED
    BY <1>2, <2>1 DEF CreateOutbound, OwnersAreRegistered
<1> QED
  BY <1>1, <1>2 DEF CreateDestination

\* Taking destinations away from their owner and from RNS together does too.
LEMMA DeregisterKeepsBooks ==
  ASSUME NEW s \in Session, NEW gone \in SUBSET owned[s],
         TypeOK, OwnersAreRegistered,
         owned' = [owned EXCEPT ![s] = @ \ gone], Deregister(gone)
  PROVE  OwnersAreRegistered'
<1>1. \A t \in Session : owned'[t] = IF t = s THEN owned[t] \ gone ELSE owned[t]
  BY DEF TypeOK
<1>2. \A t \in Session : t # s => owned[t] \cap gone = {}
  BY DEF OwnersAreRegistered
<1> QED
  BY <1>1, <1>2 DEF Deregister, OwnersAreRegistered

\* What leaves the book of s with Remove leaves RNS, if s has it there.
LEMMA RemoveIsDeregister ==
  ASSUME NEW s \in Session, NEW h \in Hash, TypeOK, Remove(s, h)
  PROVE  /\ owned' = [owned EXCEPT ![s] = @ \ ({h} \cap owned[s])]
         /\ Deregister({h} \cap owned[s])
BY DEF TypeOK, Remove

LEMMA EndIsDeregister ==
  ASSUME NEW s \in Session, TypeOK, EndSession(s)
  PROVE  /\ owned' = [owned EXCEPT ![s] = @ \ owned[s]]
         /\ Deregister(owned[s])
BY DEF TypeOK, EndSession

LEMMA NextBooks ==
  ASSUME TypeOK, RequestInv, OwnersAreRegistered, [Next]_vars
  PROVE  OwnersAreRegistered'
<1>1. CASE UNCHANGED <<owned, registered>>
  BY <1>1 DEF OwnersAreRegistered
<1>2. ASSUME NEW s \in Session, NEW h \in Hash, CreateDestination(s, h)
      PROVE  OwnersAreRegistered'
  BY <1>2, CreateKeepsBooks
<1>3. ASSUME NEW s \in Session, NEW h \in Hash, Remove(s, h)
      PROVE  OwnersAreRegistered'
  BY <1>3, RemoveIsDeregister, DeregisterKeepsBooks
<1>4. ASSUME NEW s \in Session, EndSession(s)
      PROVE  OwnersAreRegistered'
  BY <1>4, EndIsDeregister, DeregisterKeepsBooks
<1>5. CASE \E s \in Session : Client(s)
  BY <1>1, <1>2, <1>3, <1>4, <1>5
     DEF Client, WsSetIdentity, ClearIdentity, WsAdd, WsListen, Unlisten,
         RestSetIdentityCheck, RestAddCheck, RestListenStart, Disconnect, LinksChange
<1>6. ASSUME NEW r \in Request,
             \/ RestSetIdentity(r) \/ RestAdd(r) \/ RestListen(r)
             \/ RestAddRaises(r) \/ RestAddFails(r)
      PROVE  OwnersAreRegistered'
  <2>1. RestAdd(r) => request[r].session \in Session
    BY DEF RequestInv, RestAdd
  <2> QED
    BY <1>1, <1>2, <1>6, <2>1
    DEF RestSetIdentity, RestAdd, RestListen, RestAddRaises, RestAddFails
<1>7. CASE UNCHANGED vars
  BY <1>1, <1>7 DEF vars
<1> QED
  BY <1>5, <1>6, <1>7 DEF Next

-----------------------------------------------------------------------------
(***************************************************************************)
(* What becomes of the owner of a registered destination.                  *)
(***************************************************************************)

\* Destination g has lost its owner to an outbound destination, or has one
\* that had ended before.
Caused(g) ==
    \/ \E s \in Session : g \in owned[s] \cap outbound'[s]
    \/ \E s \in ended : g \in owned'[s]

\* Who is heard no more in a step that ends no session had ended before.
LEMMA SilenceStrands ==
  ASSUME TypeOK, UNCHANGED <<ended, owned, registered>>, NEW g \in Hash, Stray(g)'
  PROVE  Stray(g) \/ Caused(g)
<1> SUFFICES ASSUME NEW s \in Session, Heard(s), g \in owned[s]
             PROVE  Caused(g)
  BY DEF Stray
<1>1. ~Heard(s)'
  BY DEF Stray
<1>2. s \in ended
  BY <1>1 DEF Heard
<1> QED
  BY <1>2 DEF Caused

\* Creation strands a destination by an outbound one in its place, or for an
\* ended session.
LEMMA CreateStrands ==
  ASSUME NEW s \in Session, NEW h \in Hash, TypeOK, CreateDestination(s, h),
         UNCHANGED <<ended, lingering>>, NEW g \in Hash, Stray(g)'
  PROVE  Stray(g) \/ Caused(g)
<1>0. \A t \in Session : Heard(t)' <=> Heard(t)
  BY DEF Heard
<1>1. CASE CreateInbound(s, h)
  <2>1. \A t \in Session : owned'[t] = IF t = s THEN owned[t] \cup {h} ELSE owned[t]
    BY <1>1 DEF TypeOK, CreateInbound
  <2>2. CASE g = h
    <3>1. ~Heard(s)
      BY <1>0, <2>1, <2>2 DEF Stray
    <3>2. s \in ended /\ g \in owned'[s]
      BY <2>1, <2>2, <3>1 DEF Heard
    <3> QED
      BY <3>2 DEF Caused
  <2>3. CASE g # h
    BY <1>0, <1>1, <2>1, <2>3 DEF CreateInbound, Stray
  <2> QED
    BY <2>2, <2>3
<1>2. CASE CreateOutbound(s, h)
  <2>1. \A t \in Session : owned'[t] = IF t = s THEN owned[t] \ {h} ELSE owned[t]
    BY <1>2 DEF TypeOK, CreateOutbound
  <2>2. h \in outbound'[s]
    BY <1>2 DEF TypeOK, CreateOutbound
  <2> QED
    BY <1>0, <1>2, <2>1, <2>2 DEF CreateOutbound, Stray, Caused
<1> QED
  BY <1>1, <1>2 DEF CreateDestination

\* Deregistering what leaves the book strands nothing.
LEMMA DeregisterStrands ==
  ASSUME NEW s \in Session, NEW gone \in SUBSET owned[s], TypeOK,
         owned' = [owned EXCEPT ![s] = @ \ gone], Deregister(gone),
         \A t \in Session : Heard(t) => Heard(t)',
         NEW g \in Hash, Stray(g)'
  PROVE  Stray(g)
<1>1. \A t \in Session : owned'[t] = IF t = s THEN owned[t] \ gone ELSE owned[t]
  BY DEF TypeOK
<1> QED
  BY <1>1 DEF Deregister, Stray

LEMMA NextStrands ==
  ASSUME TypeOK, RequestInv, [Next]_vars, NEW g \in Hash, Stray(g)'
  PROVE  Stray(g) \/ Caused(g)
<1> DEFINE Goal == Stray(g) \/ Caused(g)
<1>1. CASE UNCHANGED <<ended, owned, registered>>
  BY <1>1, SilenceStrands
<1>2. ASSUME NEW s \in Session, NEW h \in Hash, CreateDestination(s, h),
             UNCHANGED <<ended, lingering>>
      PROVE  Goal
  BY <1>2, CreateStrands
<1>3. ASSUME NEW s \in Session, NEW h \in Hash, Remove(s, h)
      PROVE  Goal
  <2>1. \A t \in Session : Heard(t) => Heard(t)'
    BY <1>3 DEF Remove, Heard
  <2> QED
    BY <1>3, <2>1, RemoveIsDeregister, DeregisterStrands
<1>4. ASSUME NEW s \in Session, EndSession(s)
      PROVE  Goal
  <2>1. \A t \in Session : Heard(t) => Heard(t)'
    BY <1>4 DEF EndSession, Heard
  <2> QED
    BY <1>4, <2>1, EndIsDeregister, DeregisterStrands
<1> HIDE DEF Goal
<1>5. CASE \E s \in Session : Client(s)
  BY <1>1, <1>2, <1>3, <1>4, <1>5
     DEF Goal, Client, WsSetIdentity, ClearIdentity, WsAdd, WsListen, Unlisten,
         RestSetIdentityCheck, RestAddCheck, RestListenStart, Disconnect, LinksChange
<1>6. ASSUME NEW r \in Request,
             \/ RestSetIdentity(r) \/ RestAdd(r) \/ RestListen(r)
             \/ RestAddRaises(r) \/ RestAddFails(r)
      PROVE  Goal
  <2>1. RestAdd(r) => request[r].session \in Session
    BY DEF RequestInv, RestAdd
  <2> QED
    BY <1>1, <1>2, <1>6, <2>1
    DEF Goal, RestSetIdentity, RestAdd, RestListen, RestAddRaises, RestAddFails
<1>7. CASE UNCHANGED vars
  BY <1>1, <1>7 DEF Goal, vars
<1> QED
  BY <1>5, <1>6, <1>7 DEF Next, Goal

-----------------------------------------------------------------------------
\* A step that leaves callbacks, listeners and the registry's hashes alone
\* takes nobody's packets away, if what leaves a book becomes ownerless.
LEMMA LossKeepsHearing ==
  ASSUME TypeOK, OnlyListenersHear, UNCHANGED <<callback, listeners>>,
         \A g \in Hash : Ownerless(g) => Ownerless(g)',
         \A s \in Session : \A g \in owned[s] : g \in owned'[s] \/ Ownerless(g)'
  PROVE  OnlyListenersHear'
BY ConstantsAssumption DEF TypeOK, OnlyListenersHear

LEMMA CreateKeepsHearing ==
  ASSUME NEW s \in Session, NEW h \in Hash, TypeOK, OwnersAreRegistered,
         OnlyListenersHear, CreateDestination(s, h),
         UNCHANGED <<callback, listeners>>
  PROVE  OnlyListenersHear'
<1>1. CASE CreateInbound(s, h)
  <2>1. \A t \in Session : owned'[t] = IF t = s THEN owned[t] \cup {h} ELSE owned[t]
    BY <1>1 DEF TypeOK, CreateInbound
  <2>2. \A g \in Hash : Ownerless(g) => Ownerless(g)'
    BY <1>1, <2>1 DEF CreateInbound, Ownerless
  <2> QED
    BY <2>1, <2>2, LossKeepsHearing
<1>2. CASE CreateOutbound(s, h)
  <2>1. \A t \in Session : owned'[t] = IF t = s THEN owned[t] \ {h} ELSE owned[t]
    BY <1>2 DEF TypeOK, CreateOutbound
  <2>2. \A g \in Hash : Ownerless(g) => Ownerless(g)'
    BY <1>2, <2>1 DEF CreateOutbound, Ownerless
  <2>3. h \in owned[s] => Ownerless(h)'
    BY <1>2, <2>1 DEF CreateOutbound, Ownerless, OwnersAreRegistered
  <2> QED
    BY <2>1, <2>2, <2>3, LossKeepsHearing
<1> QED
  BY <1>1, <1>2 DEF CreateDestination

LEMMA NextHearing ==
  ASSUME IInv, [Next]_vars
  PROVE  OnlyListenersHear'
<1> USE ConstantsAssumption DEF IInv
<1>1. CASE UNCHANGED <<owned, registered, callback, listeners>>
  BY <1>1, LossKeepsHearing DEF Ownerless
<1>2. ASSUME NEW s \in Session, NEW h \in Hash, CreateDestination(s, h),
             UNCHANGED <<callback, listeners>>
      PROVE  OnlyListenersHear'
  BY <1>2, CreateKeepsHearing
<1>3. ASSUME NEW s \in Session, NEW h \in Hash, Remove(s, h)
      PROVE  OnlyListenersHear'
  <2>1. \A g \in Hash : callback'[g] =
           IF g = h /\ h \in owned[s] THEN NoSession ELSE callback[g]
    BY <1>3 DEF Remove, Deregister
  <2>2. \A t \in Session :
           owned'[t] = IF t = s THEN owned[t] \ {h} ELSE owned[t]
    BY <1>3 DEF TypeOK, Remove
  <2>3. listeners' = listeners /\ registered' = registered \ ({h} \cap owned[s])
    BY <1>3 DEF Remove, Deregister
  <2> QED
    BY <2>1, <2>2, <2>3 DEF TypeOK, OnlyListenersHear, Ownerless
<1>4. ASSUME NEW s \in Session, NEW h \in Hash, StartListening(s, h),
             UNCHANGED <<owned, registered>>
      PROVE  OnlyListenersHear'
  <2>1. \A g \in Hash : callback'[g] =
           IF g = h /\ h \in owned[s] THEN s ELSE callback[g]
    BY <1>4 DEF TypeOK, StartListening
  <2>2. \A t \in Session :
           listeners'[t] = IF t = s THEN listeners[t] \cup {h} ELSE listeners[t]
    BY <1>4 DEF TypeOK, StartListening
  <2> QED
    BY <1>4, <2>1, <2>2 DEF TypeOK, OnlyListenersHear, Ownerless
\* What s stops to list it either owns, and then the callback goes too, or
\* the callback is not that of s or the destination is ownerless.
<1>5. ASSUME NEW s \in Session, NEW h \in Hash, Unlisten(s, h)
      PROVE  OnlyListenersHear'
  <2>1. \A g \in Hash : callback'[g] =
           IF g = h /\ h \in owned[s] THEN NoSession ELSE callback[g]
    BY <1>5 DEF TypeOK, Unlisten
  <2>2. \A t \in Session :
           listeners'[t] = IF t = s THEN listeners[t] \ {h} ELSE listeners[t]
    BY <1>5 DEF TypeOK, Unlisten
  <2>3. callback'[h] # s \/ Ownerless(h)
    BY <2>1 DEF TypeOK, OnlyListenersHear
  <2>4. UNCHANGED <<owned, registered>>
    BY <1>5 DEF Unlisten
  <2> QED
    BY <2>1, <2>2, <2>3, <2>4 DEF TypeOK, OnlyListenersHear, Ownerless
\* Every callback of s is on a destination s owns, which goes, or on a
\* ownerless one, which stays.
<1>6. ASSUME NEW s \in Session, EndSession(s)
      PROVE  OnlyListenersHear'
  <2>1. \A g \in Hash : callback'[g] =
           IF g \in owned[s] THEN NoSession ELSE callback[g]
    BY <1>6 DEF EndSession, Deregister
  <2>2. \A t \in Session : t # s =>
           owned'[t] = owned[t] /\ listeners'[t] = listeners[t]
    BY <1>6 DEF TypeOK, EndSession
  <2>3. \A g \in Hash : callback'[g] # s \/ Ownerless(g)
    BY <2>1 DEF TypeOK, OnlyListenersHear
  <2>4. /\ owned'[s] = {}
        /\ registered' = registered \ owned[s]
    BY <1>6 DEF TypeOK, EndSession, Deregister
  <2>5. \A g \in Hash : Ownerless(g) => Ownerless(g)'
    BY <2>2, <2>4 DEF Ownerless
  <2> QED
    BY <2>1, <2>2, <2>3, <2>5 DEF TypeOK, OnlyListenersHear
<1>7. CASE \E s \in Session : Client(s)
  BY <1>1, <1>2, <1>3, <1>4, <1>5, <1>6, <1>7
     DEF Client, WsSetIdentity, ClearIdentity, WsAdd, WsListen,
         RestSetIdentityCheck, RestAddCheck, RestListenStart, Disconnect,
         LinksChange
<1>8. ASSUME NEW r \in Request,
             \/ RestSetIdentity(r) \/ RestAdd(r) \/ RestListen(r)
             \/ RestAddRaises(r) \/ RestAddFails(r)
      PROVE  OnlyListenersHear'
  <2>1. RestAdd(r) \/ RestListen(r) => request[r].session \in Session
    BY DEF RequestInv, RestAdd, RestListen
  <2> QED
    BY <1>1, <1>2, <1>4, <1>8, <2>1
    DEF RestSetIdentity, RestAdd, RestListen, RestAddRaises, RestAddFails
<1>9. CASE UNCHANGED vars
  BY <1>1, <1>9 DEF vars
<1> QED
  BY <1>7, <1>8, <1>9 DEF Next

-----------------------------------------------------------------------------
LEMMA InitInv == Init => IInv
<1> SUFFICES ASSUME Init PROVE IInv
  OBVIOUS
<1>1. OwnersAreRegistered
  BY DEF Init, OwnersAreRegistered
<1>2. OnlyListenersHear
  BY DEF Init, OnlyListenersHear
<1>3. RequestInv
  BY DEF Init, RequestInv, NoRequest
<1> QED
  BY <1>1, <1>2, <1>3, InitType DEF IInv

LEMMA NextInv ==
  ASSUME IInv, [Next]_vars
  PROVE  IInv'
BY NextType, NextRequest, NextBooks, NextHearing DEF IInv

LEMMA Invariance == Spec => []IInv
BY InitInv, NextInv, PTL DEF Spec

\* Every variable keeps its declared type.
THEOREM TypeCorrect == Spec => []TypeOK
BY Invariance, PTL DEF IInv

\* An inbound destination a session owns is registered and nobody else's,
\* whatever requests straddle the end of their sessions (create, remove,
\* cleanup_session).
THEOREM BooksAgree == Spec => []OwnersAreRegistered
BY Invariance, PTL DEF IInv

\* Neither a removal nor the end of a session leaves a registered hash that
\* nobody can free: only an outbound destination in its place does, and a
\* creation for a session that had ended already (create, remove,
\* cleanup_session).
THEOREM RemovalsFree == Spec => RemovalsAndEndsFree
<1>1. IInv /\ [Next]_vars =>
        [\A h \in Hash :
            Stray(h)' => \/ Stray(h)
                         \/ \E s \in Session : h \in owned[s] \cap outbound'[s]
                         \/ \E s \in ended : h \in owned'[s]]_vars
  BY NextStrands DEF IInv, Caused
<1> QED
  BY Invariance, <1>1, PTL DEF Spec, RemovalsAndEndsFree

\* Packets of a destination that is in somebody's book reach only the session
\* that owns and lists it.
THEOREM ListenersHear == Spec => []OnlyListenersHear
BY Invariance, PTL DEF IInv

-----------------------------------------------------------------------------
(***************************************************************************)
(* Every session implements SessionLife.                                   *)
(***************************************************************************)

\* A request of s has been admitted and waits for its body.
Held(s) == \E r \in Request : request[r].session = s

Booked(s) == owned[s] \cup outbound[s] \cup listeners[s] # {}

\* What a step may do to session s.
Ages(s) ==
    /\ s \in ended => s \in ended'
    /\ s \in ended' =>
          /\ Heard(s)' => Heard(s)
          /\ Held(s)' => Held(s)
          /\ Booked(s)' => s \in ended /\ (Booked(s) \/ Held(s) \/ Heard(s))

\* A client of t acts; a request it starts is new.
LEMMA ClientAges ==
  ASSUME TypeOK, NEW s \in Session, NEW t \in Session, Heard(t),
         UNCHANGED <<ended, lingering>>,
         \A u \in Session \ {t} : UNCHANGED <<owned[u], outbound[u], listeners[u]>>,
         t \in ended => UNCHANGED request,
         \A r \in Request : request'[r].session \in {request[r].session, t}
  PROVE  Ages(s)
<1>1. s \in ended' => (Held(s)' => Held(s))
  BY DEF Held
<1>2. s # t => (Booked(s)' => Booked(s))
  BY DEF Booked
<1>3. (Heard(s)' <=> Heard(s)) /\ (s \in ended' <=> s \in ended)
  BY DEF Heard
<1> QED
  BY <1>1, <1>2, <1>3 DEF Ages

\* A request of t that waited goes on.
LEMMA RequestAges ==
  ASSUME TypeOK, NEW s \in Session, NEW r \in Request, NEW t \in Session,
         request[r].session = t,
         UNCHANGED <<ended, lingering>>,
         \A u \in Session \ {t} : UNCHANGED <<owned[u], outbound[u], listeners[u]>>,
         request' = [request EXCEPT ![r] = NoRequest]
  PROVE  Ages(s)
<1>1. Held(s)' => Held(s)
  BY ConstantsAssumption DEF Held, NoRequest, TypeOK
<1>2. s # t => (Booked(s)' => Booked(s))
  BY DEF Booked
<1>3. (Heard(s)' <=> Heard(s)) /\ (s \in ended' <=> s \in ended)
  BY DEF Heard
<1>4. s = t => Held(s)
  BY DEF Held
<1> QED
  BY <1>1, <1>2, <1>3, <1>4 DEF Ages

LEMMA NextAges ==
  ASSUME TypeOK, RequestInv, [Next]_vars, NEW s \in Session
  PROVE  Ages(s)
<1> USE DEF TypeOK
<1>1. ASSUME NEW t \in Session, NEW i \in Identity, WsSetIdentity(t, i)
      PROVE  Ages(s)
  BY <1>1, ClientAges DEF WsSetIdentity
<1>2. ASSUME NEW t \in Session, ClearIdentity(t)
      PROVE  Ages(s)
  BY <1>2, ClientAges DEF ClearIdentity
<1>3. ASSUME NEW t \in Session, NEW h \in Hash, WsAdd(t, h) \/ Remove(t, h)
      PROVE  Ages(s)
  BY <1>3, ClientAges
     DEF WsAdd, CreateDestination, CreateInbound, CreateOutbound, Remove
<1>4. ASSUME NEW t \in Session, NEW h \in Hash, WsListen(t, h) \/ Unlisten(t, h)
      PROVE  Ages(s)
  BY <1>4, ClientAges DEF WsListen, StartListening, Unlisten
<1>5. ASSUME NEW t \in Session, NEW r \in Request,
             RestSetIdentityCheck(r, t) \/ RestAddCheck(r, t) \/ RestListenStart(r, t)
      PROVE  Ages(s)
  <2>1. /\ t \notin ended
        /\ UNCHANGED <<ended, lingering, owned, outbound, listeners>>
        /\ \A q \in Request : request'[q].session \in {request[q].session, t}
    BY <1>5 DEF RestSetIdentityCheck, RestAddCheck, RestListenStart
  <2> QED
    BY <2>1, ClientAges DEF Heard
<1>6. ASSUME NEW t \in Session, EndSession(t)
      PROVE  Ages(s)
  <2>1. s # t => (Booked(s)' <=> Booked(s)) /\ (Heard(s)' <=> Heard(s))
    BY <1>6 DEF EndSession, Booked, Heard
  <2>2. ~Booked(t)' /\ Heard(t)
    BY <1>6 DEF EndSession, Booked, Heard
  <2>3. Held(s)' <=> Held(s)
    BY <1>6 DEF EndSession, Held
  <2>4. ended' = ended \cup {t}
    BY <1>6 DEF EndSession
  <2> QED
    BY <2>1, <2>2, <2>3, <2>4 DEF Ages
<1>7. ASSUME NEW t \in Session, Disconnect(t)
      PROVE  Ages(s)
  <2>1. (Booked(s)' <=> Booked(s)) /\ (Held(s)' <=> Held(s)) /\ (Heard(s)' => Heard(s))
    BY <1>7 DEF Disconnect, Booked, Held, Heard
  <2>2. ended' = ended
    BY <1>7 DEF Disconnect
  <2> QED
    BY <2>1, <2>2 DEF Ages
<1>8. ASSUME NEW t \in Session, LinksChange(t)
      PROVE  Ages(s)
  BY <1>8, ClientAges DEF LinksChange
<1>9. ASSUME NEW r \in Request, RestSetIdentity(r) \/ RestAdd(r) \/ RestListen(r)
      PROVE  Ages(s)
  <2>1. request[r].session \in Session
    BY <1>9 DEF RestSetIdentity, RestAdd, RestListen, RequestInv, NoRequest
  <2>2. /\ UNCHANGED <<ended, lingering>>
        /\ request' = [request EXCEPT ![r] = NoRequest]
        /\ \A u \in Session \ {request[r].session} : UNCHANGED <<owned[u], outbound[u], listeners[u]>>
    BY <1>9, <2>1 DEF RestSetIdentity, RestAdd, RestListen, CreateDestination,
                      CreateInbound, CreateOutbound, StartListening
  <2> QED
    BY <2>1, <2>2, RequestAges
<1>10. ASSUME NEW r \in Request, RestAddRaises(r) \/ RestAddFails(r)
       PROVE  Ages(s)
  <2>1. Held(s)' => Held(s)
    BY <1>10, ConstantsAssumption DEF RestAddRaises, RestAddFails, NoRequest, Held
  <2>2. (Booked(s)' <=> Booked(s)) /\ (Heard(s)' <=> Heard(s)) /\ ended' = ended
    BY <1>10 DEF RestAddRaises, RestAddFails, Booked, Heard
  <2> QED
    BY <2>1, <2>2 DEF Ages
<1>11. CASE UNCHANGED vars
  <2>1. (Booked(s)' <=> Booked(s)) /\ (Held(s)' <=> Held(s)) /\ (Heard(s)' <=> Heard(s))
    BY <1>11 DEF vars, Booked, Held, Heard
  <2>2. ended' = ended
    BY <1>11 DEF vars
  <2> QED
    BY <2>1, <2>2 DEF Ages
<1> QED
  BY <1>1, <1>2, <1>3, <1>4, <1>5, <1>6, <1>7, <1>8, <1>9, <1>10, <1>11
  DEF Next, Client

\* The hooks empty both books, and afterwards only requests that waited for
\* their bodies and connections not yet closed fill them again
\* (cleanup_session of packets and of destinations).
THEOREM EndpointsImplementLife == Spec => EndpointsWindDown
<1>1. Init => \A s \in Session : Life(s)!Init
  BY DEF Init, Life!Init
<1>2. IInv /\ [Next]_vars => [\A s \in Session : [Life(s)!Next]_(Life(s)!vars)]_vars
  <2> SUFFICES ASSUME IInv, [Next]_vars, NEW s \in Session
               PROVE  [Life(s)!Next]_(Life(s)!vars)
    OBVIOUS
  <2>1. Ages(s)
    BY NextAges DEF IInv
  <2> QED
    BY <2>1 DEF Ages, Held, Booked, Life!Next, Life!vars, Life!Serve, Life!End,
                Life!WindDown
<1> QED
  BY Invariance, <1>1, <1>2, PTL DEF Spec, EndpointsWindDown
=============================================================================
