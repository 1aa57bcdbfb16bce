----------------------------- MODULE LinksProofs -----------------------------
(***************************************************************************)
(* Proofs about Links for every set of calls and destinations, and every   *)
(* assignment of destinations to calls.                                    *)
(***************************************************************************)
EXTENDS Links, TLAPS

\* A call that has no link yet.
Early == {"idle", "admitted", "reuse", "reuse_identify", "resolving",
          "establishing"}

\* What the call has not done yet has not happened to its link.
PhaseInv ==
    \A o \in Open :
        /\ pc[o] # "idle" => kind[o] # "none"
        /\ pc[o] \in Early => link[o] = "none" /\ ~wired[o] /\ ~announced[o]
        /\ pc[o] \in {"wiring", "waiting", "giving_up", "identifying"} => link[o] # "none"
        /\ link[o] = "none" => estDue[o] = "no" /\ closeDue[o] = "no"
        /\ closeDue[o] # "no" => link[o] = "CLOSED"

\* link.established is deferred from the constructor on until identify() was
\* called, and a thread that is about to send it has seen that it is not.
DeferInv ==
    \A o \in Open :
        /\ pc[o] \in {"wiring", "waiting", "giving_up", "identifying"} =>
              suppress[o] = Defers(o)
        /\ pc[o] \in {"waiting", "giving_up", "identifying"} =>
              kind[o] = "ws" \/ awaits[o]
        /\ pc[o] = "identifying" => auto[o]
        /\ wired[o] /\ Defers(o) /\ ~suppress[o] =>
              identified[o] /\ pc[o] = "done" /\ outcome[o] = "ok"
        /\ estDue[o] = "send" => wired[o] /\ ~suppress[o]

\* Link e is going to echo client id o.
Holds(e, o) ==
    \/ openClientId[e] = o
    \/ estDue[e] = "send" /\ taken[e] = o

\* An id is held by one link at most, and by none once it was echoed.
IdInv ==
    /\ \A o, e, f \in Open : Holds(e, o) /\ Holds(f, o) => e = f
    /\ \A o, e \in Open : Holds(e, o) => echoes[o] = 0
    /\ \A o, e \in Open : pc[o] = "idle" => echoes[o] = 0 /\ ~Holds(e, o)

IInv ==
    /\ TypeOK
    /\ PhaseInv
    /\ DeferInv
    /\ IdInv
    /\ IdentifyBeforeEstablished
    /\ EchoOnce
    /\ TimedOutIsClosed

-----------------------------------------------------------------------------
\* One lemma for each conjunct of the invariant.
LEMMA NextType ==
  ASSUME IInv, [Next]_vars
  PROVE  TypeOK'
<1> USE ConstantsAssumption DEF IInv, vars, sessionVars, callVars, rnsVars,
   reportVars, entryVars, eventVars, Outcomes, Failures, Refusals,
   IdentifyFailures, Steps
<1>1. CASE UNCHANGED vars
  BY <1>1 DEF TypeOK
<1>2. ASSUME NEW o \in Open, WsOpen(o)
      PROVE  TypeOK'
  <2>1. PICK a \in BOOLEAN : auto' = [auto EXCEPT ![o] = a]
    BY <1>2 DEF WsOpen
  <2>2. /\ kind' = [kind EXCEPT ![o] = "ws"]
        /\ UNCHANGED <<sessionVars, awaits, rnsVars, suppress, identified,
                       eventVars>>
    BY <1>2 DEF WsOpen
  <2>3. \/ pc' = [pc EXCEPT ![o] = "reuse"] /\ UNCHANGED outcome
        \/ pc' = [pc EXCEPT ![o] = "resolving"] /\ UNCHANGED outcome
        \/ /\ pc' = [pc EXCEPT ![o] = "done"]
           /\ \E failure \in Refusals : outcome' = [outcome EXCEPT ![o] = failure]
    BY <1>2 DEF WsOpen, Finish, Goto
  <2>4. /\ openLinks' \in [Dest -> Open \cup {NoOpen}]
        /\ openClientId' \in [Open -> Open \cup {NoOpen}]
        /\ uses' \in [Open -> Open \cup {NoOpen}]
    BY <1>2 DEF TypeOK, WsOpen, Reusable
  <2>5. /\ pc' \in [Open -> Steps] /\ outcome' \in [Open -> Outcomes]
        /\ \A p \in Open : pc'[p] = "done" <=> outcome'[p] # "none"
    BY <1>2, <2>3 DEF TypeOK, WsOpen
  <2> QED
    BY <2>1, <2>2, <2>4, <2>5 DEF TypeOK
<1>3. ASSUME NEW o \in Open, RestAdmit(o)
      PROVE  TypeOK'
  BY <1>3 DEF TypeOK, RestAdmit, Goto
<1>4. ASSUME NEW o \in Open, RestOpen(o)
      PROVE  TypeOK'
  <2>1. /\ pc' \in [Open -> Steps] /\ outcome' \in [Open -> Outcomes]
        /\ \A p \in Open : pc'[p] = "done" <=> outcome'[p] # "none"
    BY <1>4 DEF TypeOK, RestOpen, Finish, Goto
  <2>2. /\ openClientId' \in [Open -> Open \cup {NoOpen}]
        /\ identified' \in [Open -> BOOLEAN]
    BY <1>4 DEF TypeOK, RestOpen
  <2>3. auto' \in [Open -> BOOLEAN] /\ awaits' \in [Open -> BOOLEAN]
    BY <1>4 DEF TypeOK, RestOpen
  <2>4. UNCHANGED <<sessionVars, openLinks, kind, uses, rnsVars, suppress,
                    eventVars>>
    BY <1>4 DEF RestOpen
  <2> QED
    BY <2>1, <2>2, <2>3, <2>4 DEF TypeOK
<1>5. ASSUME NEW d \in Dest, Close(d)
      PROVE  TypeOK'
  <2>1. link' \in [Open -> {"none", "PENDING", "ACTIVE", "STALE", "CLOSED"}]
    BY <1>5 DEF TypeOK, Close
  <2>2. openLinks' \in [Dest -> Open \cup {NoOpen}]
    BY <1>5 DEF TypeOK, Close
  <2>3. UNCHANGED <<sessionVars, callVars, wired, reportVars, entryVars,
                    eventVars>>
    BY <1>5 DEF Close
  <2> QED
    BY <2>1, <2>2, <2>3 DEF TypeOK
<1>6. ASSUME NEW d \in Dest, IdentifyLink(d)
      PROVE  TypeOK'
  BY <1>6 DEF TypeOK, IdentifyLink
<1>7. ASSUME EndSession
      PROVE  TypeOK'
  BY <1>7 DEF TypeOK, EndSession
<1>8. ASSUME Disconnect
      PROVE  TypeOK'
  BY <1>8 DEF TypeOK, Disconnect
<1>9. ASSUME NEW o \in Open, WsReused(o)
      PROVE  TypeOK'
  BY <1>9 DEF TypeOK, WsReused, Finish, Goto
<1>10. ASSUME NEW o \in Open, WsReuseIdentify(o)
      PROVE  TypeOK'
  <2>1. /\ pc' \in [Open -> Steps] /\ outcome' \in [Open -> Outcomes]
        /\ \A p \in Open : pc'[p] = "done" <=> outcome'[p] # "none"
    BY <1>10 DEF TypeOK, WsReuseIdentify, Finish, Goto
  <2>2. identified' \in [Open -> BOOLEAN]
    BY <1>10 DEF TypeOK, WsReuseIdentify
  <2>3. UNCHANGED <<sessionVars, openLinks, kind, auto, awaits, uses, rnsVars,
                    openClientId, suppress, eventVars>>
    BY <1>10 DEF WsReuseIdentify
  <2> QED
    BY <2>1, <2>2, <2>3 DEF TypeOK
<1>11. ASSUME NEW o \in Open, Resolve(o)
      PROVE  TypeOK'
  BY <1>11 DEF TypeOK, Resolve, Finish, Goto
<1>12. ASSUME NEW o \in Open, CreateLink(o)
      PROVE  TypeOK'
  <2>1. openLinks' \in [Dest -> Open \cup {NoOpen}]
    BY <1>12 DEF TypeOK, CreateLink
  <2>2. suppress' \in [Open -> BOOLEAN]
    BY <1>12 DEF TypeOK, CreateLink, Defers
  <2> QED
    BY <1>12, <2>1, <2>2 DEF TypeOK, CreateLink, Goto
<1>13. ASSUME NEW o \in Open, WireCallbacks(o)
      PROVE  TypeOK'
  BY <1>13 DEF TypeOK, WireCallbacks, Finish, Goto
<1>14. ASSUME NEW o \in Open, SeeActive(o)
      PROVE  TypeOK'
  BY <1>14 DEF TypeOK, SeeActive, Finish, Goto
<1>15. ASSUME NEW o \in Open, GiveUp(o)
      PROVE  TypeOK'
  BY <1>15 DEF TypeOK, GiveUp, Goto
<1>16. ASSUME NEW o \in Open, TimedOut(o)
      PROVE  TypeOK'
  BY <1>16 DEF TypeOK, TimedOut, Finish, Goto
<1>17. ASSUME NEW o \in Open, Identify(o)
      PROVE  TypeOK'
  <2>0. openClientId' \in [Open -> Open \cup {NoOpen}]
    BY <1>17 DEF TypeOK, Identify
  <2>1. /\ openClientId' \in [Open -> Open \cup {NoOpen}]
        /\ suppress' \in [Open -> BOOLEAN]
        /\ identified' \in [Open -> BOOLEAN]
    BY <1>17, <2>0 DEF TypeOK, Identify
  <2>2. CASE Announce(o, openClientId[o])
    <3>1. echoes' \in [Open -> Nat] /\ announced' \in [Open -> BOOLEAN]
      BY <2>2 DEF TypeOK, Announce
    <3> QED
      BY <1>17, <2>1, <3>1 DEF TypeOK, Identify, Finish, Goto
  <2>3. CASE UNCHANGED eventVars
    BY <1>17, <2>1, <2>3 DEF TypeOK, Identify, Finish, Goto
  <2> QED
    BY <1>17, <2>2, <2>3 DEF Identify
<1>18. ASSUME NEW o \in Open,
             RnsActive(o) \/ RnsStale(o) \/ RnsRecover(o) \/
                RnsClose(o)
      PROVE  TypeOK'
  <2>1. /\ link' \in [Open -> {"none", "PENDING", "ACTIVE", "STALE", "CLOSED"}]
        /\ estDue' \in [Open -> {"no", "due", "send"}]
        /\ closeDue' \in [Open -> {"no", "due", "evict"}]
    BY <1>18 DEF TypeOK, RnsActive, RnsStale, RnsRecover, RnsClose
  <2>2. UNCHANGED <<sessionVars, openLinks, callVars, wired, taken, entryVars,
                    eventVars>>
    BY <1>18 DEF RnsActive, RnsStale, RnsRecover, RnsClose
  <2> QED
    BY <2>1, <2>2 DEF TypeOK
<1>19. ASSUME NEW o \in Open, OnEstablished(o)
      PROVE  TypeOK'
  BY <1>19 DEF TypeOK, OnEstablished
<1>20. ASSUME NEW o \in Open, OnEstablishedSend(o)
      PROVE  TypeOK'
  BY <1>20 DEF TypeOK, OnEstablishedSend, Announce
<1>21. ASSUME NEW o \in Open, OnClosed(o) \/ OnClosedEvict(o)
      PROVE  TypeOK'
  BY <1>21 DEF TypeOK, OnClosed, OnClosedEvict
<1>22. ASSUME NEW o \in Open, LinkRefused(o)
      PROVE  TypeOK'
  BY <1>22 DEF TypeOK, LinkRefused, Finish, Goto
<1> QED
  BY <1>1, <1>2, <1>3, <1>4, <1>5, <1>6, <1>7, <1>8, <1>9, <1>10, <1>11,
     <1>12, <1>13, <1>14, <1>15, <1>16, <1>17, <1>18, <1>19, <1>20, <1>21,
     <1>22 DEF Next, Client, OpenStep, Rns, RnsThread

LEMMA NextPhase ==
  ASSUME IInv, [Next]_vars
  PROVE  PhaseInv'
<1> USE ConstantsAssumption DEF IInv, PhaseInv, Early, LiveStatus,
   Refusals, IdentifyFailures,
   sessionVars, callVars, rnsVars, reportVars, entryVars, eventVars
<1>1. CASE UNCHANGED <<kind, pc, link, wired, announced, estDue, closeDue>>
  BY <1>1
<1>2. ASSUME NEW o \in Open, WsOpen(o) \/ RestAdmit(o) \/ RestOpen(o)
      PROVE  PhaseInv'
  BY <1>2 DEF TypeOK, WsOpen, Goto, RestAdmit, RestOpen, Finish
<1>3. ASSUME NEW d \in Dest, Close(d)
      PROVE  PhaseInv'
  BY <1>3 DEF TypeOK, Close
<1>4. ASSUME EndSession
      PROVE  PhaseInv'
  BY <1>4 DEF TypeOK, EndSession
<1>5. ASSUME NEW o \in Open,
             WsReused(o) \/ WsReuseIdentify(o) \/ Resolve(o) \/ LinkRefused(o)
      PROVE  PhaseInv'
  BY <1>5 DEF TypeOK, WsReused, Finish, Goto, WsReuseIdentify, Resolve,
     LinkRefused
<1>6. ASSUME NEW o \in Open, CreateLink(o)
      PROVE  PhaseInv'
  BY <1>6 DEF TypeOK, CreateLink, Goto
<1>7. ASSUME NEW o \in Open, WireCallbacks(o) \/ SeeActive(o) \/ GiveUp(o)
      PROVE  PhaseInv'
  BY <1>7 DEF TypeOK, WireCallbacks, Finish, Goto, SeeActive, GiveUp
<1>8. ASSUME NEW o \in Open, TimedOut(o) \/ Identify(o)
      PROVE  PhaseInv'
  BY <1>8 DEF TypeOK, TimedOut, Finish, Goto, Identify, Announce
<1>9. ASSUME NEW o \in Open, RnsActive(o) \/ RnsStale(o)
      PROVE  PhaseInv'
  BY <1>9 DEF TypeOK, RnsActive, RnsStale
<1>10. ASSUME NEW o \in Open, RnsRecover(o) \/ RnsClose(o)
      PROVE  PhaseInv'
  BY <1>10 DEF TypeOK, RnsRecover, RnsClose
<1>11. ASSUME NEW o \in Open, OnEstablished(o) \/ OnEstablishedSend(o)
      PROVE  PhaseInv'
  BY <1>11 DEF TypeOK, OnEstablished, OnEstablishedSend, Announce
<1>12. ASSUME NEW o \in Open, OnClosed(o) \/ OnClosedEvict(o)
      PROVE  PhaseInv'
  BY <1>12 DEF TypeOK, OnClosed, OnClosedEvict
<1>13. CASE Client
  BY <1>1, <1>2, <1>3, <1>4, <1>5, <1>6, <1>7, <1>8, <1>9, <1>10, <1>11,
     <1>12, <1>13 DEF Client, IdentifyLink, Disconnect
<1>14. CASE \E o \in Open : OpenStep(o)
  BY <1>1, <1>2, <1>3, <1>4, <1>5, <1>6, <1>7, <1>8, <1>9, <1>10, <1>11,
     <1>12, <1>14 DEF OpenStep
<1>15. CASE \E o \in Open : Rns(o) \/ RnsThread(o)
  BY <1>1, <1>2, <1>3, <1>4, <1>5, <1>6, <1>7, <1>8, <1>9, <1>10, <1>11,
     <1>12, <1>15 DEF Rns, RnsThread
<1>16. CASE UNCHANGED vars
  BY <1>1, <1>16 DEF vars
<1> QED
  BY <1>13, <1>14, <1>15, <1>16 DEF Next

LEMMA NextDefer ==
  ASSUME IInv, [Next]_vars
  PROVE  DeferInv'
<1> USE ConstantsAssumption DEF IInv, DeferInv, PhaseInv, Early, Defers,
   Refusals, IdentifyFailures,
   sessionVars, callVars, rnsVars, reportVars, entryVars, eventVars
<1>1. CASE UNCHANGED <<kind, auto, awaits, pc, outcome, wired, suppress, identified,
                     estDue>>
  BY <1>1
<1>2. ASSUME NEW o \in Open, WsOpen(o)
      PROVE  DeferInv'
  BY <1>2 DEF TypeOK, WsOpen, Finish, Goto
<1>3. ASSUME NEW o \in Open, RestAdmit(o) \/ RestOpen(o)
      PROVE  DeferInv'
  BY <1>3 DEF TypeOK, RestAdmit, Goto, RestOpen, Finish
<1>4. ASSUME NEW d \in Dest, IdentifyLink(d)
      PROVE  DeferInv'
  BY <1>4 DEF TypeOK, IdentifyLink
<1>5. ASSUME NEW o \in Open,
             WsReused(o) \/ WsReuseIdentify(o) \/ Resolve(o) \/ LinkRefused(o)
      PROVE  DeferInv'
  BY <1>5 DEF TypeOK, WsReused, Finish, Goto, WsReuseIdentify, Resolve,
     LinkRefused
<1>6. ASSUME NEW o \in Open, CreateLink(o)
      PROVE  DeferInv'
  BY <1>6 DEF TypeOK, CreateLink, Goto
<1>7. ASSUME NEW o \in Open, WireCallbacks(o)
      PROVE  DeferInv'
  BY <1>7 DEF TypeOK, WireCallbacks, Finish, Goto
<1>8. ASSUME NEW o \in Open, SeeActive(o) \/ GiveUp(o)
      PROVE  DeferInv'
  BY <1>8 DEF TypeOK, SeeActive, Finish, Goto, GiveUp
<1>9. ASSUME NEW o \in Open, TimedOut(o) \/ Identify(o)
      PROVE  DeferInv'
  BY <1>9 DEF TypeOK, TimedOut, Finish, Goto, Identify, Announce
<1>10. ASSUME NEW o \in Open, RnsActive(o) \/ RnsRecover(o)
      PROVE  DeferInv'
  BY <1>10 DEF TypeOK, RnsActive, RnsRecover
<1>11. ASSUME NEW o \in Open, OnEstablished(o) \/ OnEstablishedSend(o)
      PROVE  DeferInv'
  BY <1>11 DEF TypeOK, OnEstablished, OnEstablishedSend, Announce
<1>12. CASE Client
  BY <1>1, <1>2, <1>3, <1>4, <1>5, <1>6, <1>7, <1>8, <1>9, <1>10, <1>11,
     <1>12 DEF Client, Close, EndSession, Disconnect
<1>13. CASE \E o \in Open : OpenStep(o)
  BY <1>1, <1>2, <1>3, <1>4, <1>5, <1>6, <1>7, <1>8, <1>9, <1>10, <1>11,
     <1>13 DEF OpenStep
<1>14. CASE \E o \in Open : Rns(o) \/ RnsThread(o)
  BY <1>1, <1>2, <1>3, <1>4, <1>5, <1>6, <1>7, <1>8, <1>9, <1>10, <1>11,
     <1>14 DEF Rns, RnsThread, RnsStale, RnsClose, OnClosed, OnClosedEvict
<1>15. CASE UNCHANGED vars
  BY <1>1, <1>15 DEF vars
<1> QED
  BY <1>12, <1>13, <1>14, <1>15 DEF Next

LEMMA NextIds ==
  ASSUME IInv, [Next]_vars
  PROVE  IdInv'
<1> USE ConstantsAssumption DEF IInv, IdInv, Holds, DeferInv, PhaseInv,
   Early, Defers, sessionVars, callVars, rnsVars, reportVars, entryVars,
   eventVars
<1>1. CASE UNCHANGED <<openClientId, estDue, taken, echoes, pc>>
  BY <1>1
\* An idle call holds no entry yet; the id it overwrites is lost.
<1>2. ASSUME NEW o \in Open, WsOpen(o)
      PROVE  IdInv'
  BY <1>2 DEF TypeOK, WsOpen, Finish, Goto
<1>3. ASSUME NEW o \in Open, RestAdmit(o) \/ RestOpen(o)
      PROVE  IdInv'
  BY <1>3 DEF TypeOK, RestAdmit, Goto, RestOpen, Finish
<1>4. ASSUME NEW o \in Open,
             WsReused(o) \/ WsReuseIdentify(o) \/ Resolve(o) \/ LinkRefused(o)
      PROVE  IdInv'
  BY <1>4 DEF TypeOK, WsReused, Finish, Goto, WsReuseIdentify, Resolve,
     LinkRefused
<1>5. ASSUME NEW o \in Open, CreateLink(o) \/ WireCallbacks(o)
      PROVE  IdInv'
  BY <1>5 DEF TypeOK, CreateLink, Goto, WireCallbacks, Finish
<1>6. ASSUME NEW o \in Open, SeeActive(o) \/ GiveUp(o) \/ TimedOut(o)
      PROVE  IdInv'
  BY <1>6 DEF TypeOK, SeeActive, Finish, Goto, GiveUp, TimedOut
\* An entry about to be identified defers, so no thread has taken its id.
<1>7. ASSUME NEW o \in Open, Identify(o)
      PROVE  IdInv'
  BY <1>7 DEF TypeOK, Identify, Finish, Goto, Announce
<1>8. ASSUME NEW o \in Open, RnsActive(o) \/ RnsRecover(o)
      PROVE  IdInv'
  BY <1>8 DEF TypeOK, RnsActive, RnsRecover
<1>9. ASSUME NEW o \in Open, OnEstablished(o)
      PROVE  IdInv'
  <2>1. \A e, p \in Open : Holds(e, p)' => Holds(e, p)
    BY <1>9 DEF TypeOK, OnEstablished
  <2> QED
    BY <1>9, <2>1 DEF OnEstablished
<1>10. ASSUME NEW o \in Open, OnEstablishedSend(o)
      PROVE  IdInv'
  BY <1>10 DEF TypeOK, OnEstablishedSend, Announce
<1>11. CASE Client
  BY <1>1, <1>2, <1>3, <1>4, <1>5, <1>6, <1>7, <1>8, <1>9, <1>10, <1>11 DEF
     Client, Close, IdentifyLink, EndSession, Disconnect
<1>12. CASE \E o \in Open : OpenStep(o)
  BY <1>1, <1>2, <1>3, <1>4, <1>5, <1>6, <1>7, <1>8, <1>9, <1>10, <1>12 DEF
     OpenStep
<1>13. CASE \E o \in Open : Rns(o) \/ RnsThread(o)
  BY <1>1, <1>2, <1>3, <1>4, <1>5, <1>6, <1>7, <1>8, <1>9, <1>10, <1>13 DEF
     Rns, RnsThread, RnsStale, RnsClose, OnClosed, OnClosedEvict
<1>14. CASE UNCHANGED vars
  BY <1>1, <1>14 DEF vars
<1> QED
  BY <1>11, <1>12, <1>13, <1>14 DEF Next

LEMMA NextIdentified ==
  ASSUME IInv, [Next]_vars
  PROVE  IdentifyBeforeEstablished'
<1> USE ConstantsAssumption DEF IInv, IdentifyBeforeEstablished, PhaseInv,
   DeferInv, Early, Defers, sessionVars, callVars, rnsVars, reportVars,
   entryVars, eventVars
<1>1. CASE UNCHANGED <<kind, auto, awaits, identified, announced>>
  BY <1>1
<1>2. ASSUME NEW o \in Open, WsOpen(o)
      PROVE  IdentifyBeforeEstablished'
  BY <1>2 DEF TypeOK, WsOpen, Finish, Goto
<1>3. ASSUME NEW o \in Open, RestAdmit(o) \/ RestOpen(o)
      PROVE  IdentifyBeforeEstablished'
  BY <1>3 DEF TypeOK, RestAdmit, Goto, RestOpen, Finish
<1>4. ASSUME NEW d \in Dest, IdentifyLink(d)
      PROVE  IdentifyBeforeEstablished'
  BY <1>4 DEF TypeOK, IdentifyLink
<1>5. ASSUME NEW o \in Open, WsReuseIdentify(o)
      PROVE  IdentifyBeforeEstablished'
  <2>1. UNCHANGED <<kind, auto, awaits, announced>>
    BY <1>5 DEF WsReuseIdentify
  <2>2. \A p \in Open : identified[p] => identified'[p]
    BY <1>5 DEF TypeOK, WsReuseIdentify
  <2> QED
    BY <2>1, <2>2
<1>6. ASSUME NEW o \in Open, Identify(o)
      PROVE  IdentifyBeforeEstablished'
  BY <1>6 DEF TypeOK, Identify, Finish, Goto, Announce
<1>7. ASSUME NEW o \in Open, OnEstablishedSend(o)
      PROVE  IdentifyBeforeEstablished'
  BY <1>7 DEF TypeOK, OnEstablishedSend, Announce
<1>8. CASE Client
  BY <1>1, <1>2, <1>3, <1>4, <1>5, <1>6, <1>7, <1>8 DEF Client, Close,
     EndSession, Disconnect
<1>9. CASE \E o \in Open : OpenStep(o)
  BY <1>1, <1>2, <1>3, <1>4, <1>5, <1>6, <1>7, <1>9 DEF OpenStep, WsReused,
     Resolve, CreateLink, LinkRefused, WireCallbacks, SeeActive, GiveUp,
     TimedOut, Finish, Goto
<1>10. CASE \E o \in Open : Rns(o) \/ RnsThread(o)
  BY <1>1, <1>2, <1>3, <1>4, <1>5, <1>6, <1>7, <1>10 DEF Rns, RnsThread,
     RnsActive, RnsStale, RnsRecover, RnsClose, OnEstablished, OnClosed,
     OnClosedEvict
<1>11. CASE UNCHANGED vars
  BY <1>1, <1>11 DEF vars
<1> QED
  BY <1>8, <1>9, <1>10, <1>11 DEF Next

LEMMA NextEchoes ==
  ASSUME IInv, [Next]_vars
  PROVE  EchoOnce'
<1> USE ConstantsAssumption DEF IInv, EchoOnce, IdInv, Holds, sessionVars,
   callVars, rnsVars, reportVars, entryVars, eventVars
<1>1. CASE UNCHANGED <<echoes>>
  BY <1>1
<1>2. ASSUME NEW o \in Open, Identify(o)
      PROVE  EchoOnce'
  BY <1>2 DEF TypeOK, Identify, Finish, Goto, Announce
<1>3. ASSUME NEW o \in Open, OnEstablishedSend(o)
      PROVE  EchoOnce'
  BY <1>3 DEF TypeOK, OnEstablishedSend, Announce
<1>4. CASE Client
  BY <1>1, <1>2, <1>3, <1>4 DEF Client, WsOpen, RestAdmit, RestOpen,
     Close, IdentifyLink, EndSession, Disconnect
<1>5. CASE \E o \in Open : OpenStep(o)
  BY <1>1, <1>2, <1>3, <1>5 DEF OpenStep, WsReused, WsReuseIdentify,
     Resolve, CreateLink, LinkRefused, WireCallbacks, SeeActive, GiveUp,
     TimedOut, Finish, Goto
<1>6. CASE \E o \in Open : Rns(o) \/ RnsThread(o)
  BY <1>1, <1>2, <1>3, <1>6 DEF Rns, RnsThread, RnsActive, RnsStale,
     RnsRecover, RnsClose, OnEstablished, OnClosed, OnClosedEvict
<1>7. CASE UNCHANGED vars
  BY <1>1, <1>7 DEF vars
<1> QED
  BY <1>4, <1>5, <1>6, <1>7 DEF Next

LEMMA NextClosed ==
  ASSUME IInv, [Next]_vars
  PROVE  TimedOutIsClosed'
<1> USE ConstantsAssumption DEF IInv, TimedOutIsClosed, Refusals,
   IdentifyFailures, sessionVars, callVars, rnsVars, reportVars, entryVars, eventVars
<1>1. CASE UNCHANGED <<outcome, link>>
  BY <1>1
<1>2. ASSUME NEW o \in Open,
             WsReused(o) \/ WsReuseIdentify(o) \/ Resolve(o) \/ LinkRefused(o)
      PROVE  TimedOutIsClosed'
  BY <1>2 DEF TypeOK, WsReused, Finish, Goto, WsReuseIdentify, Resolve,
     LinkRefused
<1>3. ASSUME NEW o \in Open, WsOpen(o) \/ RestOpen(o)
      PROVE  TimedOutIsClosed'
  BY <1>3 DEF TypeOK, WsOpen, RestOpen, Finish, Goto
<1>4. ASSUME NEW o \in Open, CreateLink(o)
      PROVE  TimedOutIsClosed'
  BY <1>4 DEF TypeOK, CreateLink, Goto
<1>5. ASSUME NEW o \in Open, WireCallbacks(o) \/ SeeActive(o)
      PROVE  TimedOutIsClosed'
  BY <1>5 DEF TypeOK, WireCallbacks, Finish, Goto, SeeActive
<1>6. ASSUME NEW o \in Open, TimedOut(o) \/ Identify(o)
      PROVE  TimedOutIsClosed'
  BY <1>6 DEF TypeOK, TimedOut, Finish, Goto, Identify, Announce
<1>7. ASSUME NEW d \in Dest, Close(d)
      PROVE  TimedOutIsClosed'
  BY <1>7 DEF TypeOK, Close
<1>8. ASSUME EndSession
      PROVE  TimedOutIsClosed'
  BY <1>8 DEF TypeOK, EndSession
<1>9. ASSUME NEW o \in Open,
             RnsActive(o) \/ RnsStale(o) \/ RnsRecover(o) \/
                RnsClose(o)
      PROVE  TimedOutIsClosed'
  BY <1>9 DEF TypeOK, RnsActive, RnsStale, RnsRecover, RnsClose
<1>10. CASE Client
  BY <1>1, <1>2, <1>3, <1>4, <1>5, <1>6, <1>7, <1>8, <1>9, <1>10 DEF Client,
     RestAdmit, IdentifyLink, Disconnect, Goto
<1>11. CASE \E o \in Open : OpenStep(o)
  BY <1>1, <1>2, <1>3, <1>4, <1>5, <1>6, <1>7, <1>8, <1>9, <1>11 DEF
     OpenStep, GiveUp, Goto
<1>12. CASE \E o \in Open : Rns(o) \/ RnsThread(o)
  BY <1>1, <1>2, <1>3, <1>4, <1>5, <1>6, <1>7, <1>8, <1>9, <1>12 DEF Rns,
     RnsThread, OnEstablished, OnEstablishedSend, OnClosed, OnClosedEvict,
     Announce
<1>13. CASE UNCHANGED vars
  BY <1>1, <1>13 DEF vars
<1> QED
  BY <1>10, <1>11, <1>12, <1>13 DEF Next

-----------------------------------------------------------------------------
LEMMA InitInv == Init => IInv
<1> SUFFICES ASSUME Init PROVE IInv
  OBVIOUS
<1> USE ConstantsAssumption
<1>1. TypeOK
  BY DEF Init, TypeOK, Outcomes, Failures, Steps
<1>2. PhaseInv /\ DeferInv
  BY DEF Init, PhaseInv, DeferInv, Early, Defers
<1>3. IdInv
  BY DEF Init, IdInv, Holds
<1>4. IdentifyBeforeEstablished /\ EchoOnce /\ TimedOutIsClosed
  BY DEF Init, IdentifyBeforeEstablished, EchoOnce, TimedOutIsClosed
<1> QED
  BY <1>1, <1>2, <1>3, <1>4 DEF IInv

LEMMA NextInv ==
  ASSUME IInv, [Next]_vars
  PROVE  IInv'
BY NextType, NextPhase, NextDefer, NextIds, NextIdentified,
   NextEchoes, NextClosed DEF IInv

LEMMA Invariance == Spec => []IInv
BY InitInv, NextInv, PTL DEF Spec

\* Every variable keeps its declared type.
THEOREM TypeCorrect == Spec => []TypeOK
BY Invariance, PTL DEF IInv

\* auto_identify: identify() is called before link.established goes out,
\* whichever thread sends it (_create_link_entry, _on_established).
THEOREM IdentifyComesFirst == Spec => []IdentifyBeforeEstablished
BY Invariance, PTL DEF IInv

\* However many calls reuse however many links, a client id comes back at
\* most once (entry.open_client_id).
THEOREM IdsEchoOnce == Spec => []EchoOnce
BY Invariance, PTL DEF IInv

\* A call that times out leaves no link open (_wait_for_active).
THEOREM TimeoutsClose == Spec => []TimedOutIsClosed
BY Invariance, PTL DEF IInv

-----------------------------------------------------------------------------
(***************************************************************************)
(* The cache and the cleanup hook.                                         *)
(***************************************************************************)

\* A call that has begun is never idle again.
LEMMA NoWayBack ==
  ASSUME TypeOK, [Next]_vars, NEW p \in Open, pc'[p] = "idle"
  PROVE  pc[p] = "idle"
<1> USE DEF TypeOK, callVars
<1>1. CASE UNCHANGED pc
  BY <1>1
<1>2. ASSUME NEW o \in Open, NEW s, s # "idle", Goto(o, s)
      PROVE  pc[p] = "idle"
  BY <1>2 DEF Goto
<1>3. CASE Client
  <2>1. CASE \E o \in Open : WsOpen(o) \/ RestAdmit(o) \/ RestOpen(o)
    BY <1>2, <2>1 DEF WsOpen, RestAdmit, RestOpen, Finish
  <2>2. CASE \E d \in Dest : Close(d) \/ IdentifyLink(d)
    BY <1>1, <2>2 DEF Close, IdentifyLink
  <2>3. CASE EndSession \/ Disconnect
    BY <1>1, <2>3 DEF EndSession, Disconnect
  <2> QED
    BY <1>3, <2>1, <2>2, <2>3 DEF Client
<1>4. ASSUME NEW o \in Open, OpenStep(o)
      PROVE  pc[p] = "idle"
  <2>1. CASE WsReused(o) \/ WsReuseIdentify(o) \/ LinkRefused(o)
    BY <1>2, <2>1 DEF WsReused, WsReuseIdentify, LinkRefused, Finish
  <2>2. CASE Resolve(o) \/ CreateLink(o) \/ WireCallbacks(o)
    BY <1>2, <2>2 DEF Resolve, CreateLink, WireCallbacks, Finish
  <2>3. CASE SeeActive(o) \/ GiveUp(o) \/ TimedOut(o) \/ Identify(o)
    BY <1>2, <2>3 DEF SeeActive, GiveUp, TimedOut, Identify, Finish
  <2> QED
    BY <1>4, <2>1, <2>2, <2>3 DEF OpenStep
<1>5. ASSUME NEW o \in Open, Rns(o) \/ RnsThread(o)
      PROVE  pc[p] = "idle"
  BY <1>1, <1>5 DEF Rns, RnsActive, RnsStale, RnsRecover, RnsClose, RnsThread,
     OnEstablished, OnEstablishedSend, OnClosed, OnClosedEvict
<1>6. CASE UNCHANGED vars
  BY <1>1, <1>6 DEF vars
<1> QED
  BY <1>3, <1>4, <1>5, <1>6 DEF Next

\* A call that acts is no longer idle: either it is o itself, or it asks for
\* another destination than o.
LEMMA NextCache ==
  ASSUME IInv, LiveLinkIsCached, [Next]_vars
  PROVE  LiveLinkIsCached'
<1> SUFFICES ASSUME NEW o \in Open, Undisturbed(o)', link'[o] \in LiveStatus
             PROVE  openLinks'[Target[o]] = o
  BY DEF LiveLinkIsCached
<1> USE DEF callVars
<1>1. TypeOK /\ PhaseInv /\ openLinks \in [Dest -> Open \cup {NoOpen}]
  BY DEF IInv, TypeOK
<1>2. Undisturbed(o)
  BY <1>1, NoWayBack DEF Undisturbed
<1>3. \A p \in Open : pc'[p] # "idle" => p = o \/ Target[p] # Target[o]
  BY DEF Undisturbed
<1>4. Target \in [Open -> Dest]
  BY ConstantsAssumption
<1>5. CASE UNCHANGED openLinks /\ link[o] \in LiveStatus
  BY <1>2, <1>5 DEF LiveLinkIsCached
<1>6. CASE UNCHANGED <<openLinks, link>>
  BY <1>5, <1>6
<1>7. ASSUME NEW p \in Open, WsOpen(p)
      PROVE  openLinks'[Target[o]] = o
  <2>1. UNCHANGED link /\ pc[p] = "idle" /\ pc'[p] # "idle"
    BY <1>1, <1>7 DEF WsOpen, Finish, Goto, rnsVars, TypeOK
  <2>2. p # o
    BY <1>1, <2>1 DEF PhaseInv, Early, LiveStatus
  <2>3. Target[p] # Target[o]
    BY <1>3, <2>1, <2>2
  <2>4. UNCHANGED openLinks \/ openLinks' = [openLinks EXCEPT ![Target[p]] = p]
    BY <1>7 DEF WsOpen
  <2> QED
    BY <1>1, <1>2, <1>4, <2>1, <2>3, <2>4 DEF LiveLinkIsCached
<1>8. ASSUME NEW p \in Open, CreateLink(p)
      PROVE  openLinks'[Target[o]] = o
  <2>1. /\ pc'[p] # "idle"
        /\ openLinks' = [openLinks EXCEPT ![Target[p]] = p]
        /\ link' = [link EXCEPT ![p] = "PENDING"]
    BY <1>1, <1>8 DEF CreateLink, Goto, TypeOK
  <2>2. CASE p = o
    BY <1>1, <1>4, <2>1, <2>2
  <2>3. CASE p # o
    <3>1. Target[p] # Target[o] /\ link[o] \in LiveStatus
      BY <1>1, <1>3, <2>1, <2>3 DEF TypeOK
    <3> QED
      BY <1>1, <1>2, <1>4, <2>1, <3>1 DEF LiveLinkIsCached
  <2> QED
    BY <2>2, <2>3
<1>9. ASSUME NEW p \in Open, TimedOut(p)
      PROVE  openLinks'[Target[o]] = o
  <2>1. /\ pc'[p] # "idle"
        /\ openLinks' = [openLinks EXCEPT ![Target[p]] = NoOpen]
        /\ link' = [link EXCEPT ![p] = "CLOSED"]
    BY <1>1, <1>9 DEF TimedOut, Finish, Goto, TypeOK
  <2>2. p # o
    BY <1>1, <2>1 DEF TypeOK, LiveStatus
  <2>3. Target[p] # Target[o] /\ link[o] \in LiveStatus
    BY <1>1, <1>3, <2>1, <2>2 DEF TypeOK
  <2> QED
    BY <1>1, <1>2, <1>4, <2>1, <2>3 DEF LiveLinkIsCached
<1>10. ASSUME NEW d \in Dest, Close(d)
       PROVE  openLinks'[Target[o]] = o
  <2> DEFINE e == openLinks[d]
  <2>1. /\ e # NoOpen
        /\ openLinks' = [openLinks EXCEPT ![d] = NoOpen]
        /\ link' = IF link[e] = "none" THEN link
                   ELSE [link EXCEPT ![e] = "CLOSED"]
    BY <1>10 DEF Close
  <2>2. e \in Open
    BY <1>1, <2>1
  <2>3. link[o] \in LiveStatus /\ e # o
    BY <1>1, <2>1, <2>2 DEF TypeOK, LiveStatus
  <2>4. openLinks[Target[o]] = o
    BY <1>2, <2>3 DEF LiveLinkIsCached
  <2> QED
    BY <1>1, <1>4, <2>1, <2>3, <2>4
<1>11. ASSUME EndSession
       PROVE  openLinks'[Target[o]] = o
  <2>1. link' = [p \in Open |->
                   IF openLinks[Target[p]] = p /\ link[p] # "none"
                   THEN "CLOSED" ELSE link[p]]
    BY <1>11 DEF EndSession
  <2>2. link[o] \in LiveStatus /\ openLinks[Target[o]] # o
    BY <2>1 DEF LiveStatus
  <2> QED
    BY <1>2, <2>2 DEF LiveLinkIsCached
<1>12. ASSUME NEW p \in Open,
              RnsActive(p) \/ RnsStale(p) \/ RnsRecover(p) \/ RnsClose(p)
       PROVE  openLinks'[Target[o]] = o
  <2>1. /\ UNCHANGED openLinks
        /\ link[p] \in LiveStatus
        /\ \E s : link' = [link EXCEPT ![p] = s]
    BY <1>12 DEF RnsActive, RnsStale, RnsRecover, RnsClose, LiveStatus
  <2>2. link[o] \in LiveStatus
    BY <1>1, <2>1 DEF TypeOK
  <2> QED
    BY <1>5, <2>1, <2>2
\* The link whose thread evicts is closed.
<1>13. ASSUME NEW p \in Open, OnClosedEvict(p)
       PROVE  openLinks'[Target[o]] = o
  <2>1. /\ openLinks' = [openLinks EXCEPT ![Target[p]] = NoOpen]
        /\ closeDue[p] = "evict"
        /\ UNCHANGED <<pc, link>>
    BY <1>13 DEF OnClosedEvict
  <2>2. link[p] = "CLOSED"
    BY <1>1, <2>1 DEF PhaseInv
  <2>3. p # o /\ pc[p] # "idle"
    BY <1>1, <2>1, <2>2 DEF LiveStatus, PhaseInv, Early
  <2>4. Target[p] # Target[o]
    BY <1>3, <2>1, <2>3
  <2> QED
    BY <1>1, <1>2, <1>4, <2>1, <2>4 DEF LiveLinkIsCached
<1>14. CASE Client
  BY <1>6, <1>7, <1>10, <1>11, <1>14 DEF Client, RestAdmit, RestOpen,
     IdentifyLink, Disconnect, rnsVars
<1>15. ASSUME NEW p \in Open, OpenStep(p)
       PROVE  openLinks'[Target[o]] = o
  BY <1>6, <1>8, <1>9, <1>15 DEF OpenStep, WsReused, WsReuseIdentify, LinkRefused,
     Resolve, WireCallbacks, SeeActive, GiveUp, Identify, rnsVars
<1>16. ASSUME NEW p \in Open, Rns(p) \/ RnsThread(p)
       PROVE  openLinks'[Target[o]] = o
  BY <1>6, <1>12, <1>13, <1>16 DEF Rns, RnsThread, OnEstablished,
     OnEstablishedSend, OnClosed
<1>17. CASE UNCHANGED vars
  BY <1>6, <1>17 DEF vars
<1> QED
  BY <1>14, <1>15, <1>16, <1>17 DEF Next

LEMMA CacheInvariance == Spec => [](IInv /\ LiveLinkIsCached)
<1>1. Init => LiveLinkIsCached
  BY DEF Init, LiveLinkIsCached, LiveStatus
<1>2. IInv /\ LiveLinkIsCached /\ [Next]_vars => IInv' /\ LiveLinkIsCached'
  BY NextInv, NextCache
<1> QED
  BY <1>1, <1>2, InitInv, PTL DEF Spec

\* As long as no other call asks for its destination, a link that is up or
\* coming up is in session.open_links, through closes, timeouts, evictions.
THEOREM OwnLinkIsCached == Spec => []LiveLinkIsCached
BY CacheInvariance, PTL

\* Only the cleanup hook ends the session.
LEMMA EndIsCleanup ==
  ASSUME Next, sessionState = "live", sessionState' = "ended"
  PROVE  EndSession
<1>1. CASE Client
  BY <1>1 DEF Client, WsOpen, RestAdmit, RestOpen, Close, IdentifyLink,
     Disconnect, sessionVars
<1>2. ASSUME NEW o \in Open, OpenStep(o)
      PROVE  FALSE
  BY <1>2 DEF OpenStep, WsReused, WsReuseIdentify, LinkRefused, Resolve,
     CreateLink, WireCallbacks, SeeActive, GiveUp, TimedOut, Identify,
     sessionVars
<1>3. ASSUME NEW o \in Open, Rns(o) \/ RnsThread(o)
      PROVE  FALSE
  BY <1>3 DEF Rns, RnsActive, RnsStale, RnsRecover, RnsClose, RnsThread,
     OnEstablished, OnEstablishedSend, OnClosed, OnClosedEvict, sessionVars
<1> QED
  BY <1>1, <1>2, <1>3 DEF Next

\* ... so the cleanup hook, which walks session.open_links, leaves no link up
\* whose place in the cache no other call took.
THEOREM CleanupIsComplete == Spec => CleanupClosesAll
<1>1. IInv /\ LiveLinkIsCached /\ [Next]_vars =>
         [sessionState = "live" /\ sessionState' = "ended"
             => \A o \in Open : Undisturbed(o) => link'[o] \notin LiveStatus]_vars
  <2> SUFFICES ASSUME IInv, LiveLinkIsCached, Next,
                      sessionState = "live", sessionState' = "ended",
                      NEW o \in Open, Undisturbed(o)
               PROVE  link'[o] \notin LiveStatus
    BY DEF vars
  <2>1. EndSession
    BY EndIsCleanup
  <2> QED
    BY <2>1 DEF EndSession, LiveLinkIsCached, LiveStatus
<1> QED
  BY <1>1, CacheInvariance, PTL DEF Spec, CleanupClosesAll

-----------------------------------------------------------------------------
(***************************************************************************)
(* The links of a session implement SessionLife.                           *)
(***************************************************************************)

\* An open call is under way.
Held == \E o \in Open : pc[o] \notin {"idle", "done"}

Booked == \E d \in Dest : openLinks[d] # NoOpen

\* What a step may do to the session.
Ages ==
    \/ sessionState = "live" /\ sessionState' = "live"
    \/ /\ sessionState = "live" /\ sessionState' = "ended"
       /\ Held' => Held
       /\ ~Booked'
    \/ /\ sessionState = "ended" /\ sessionState' = "ended"
       /\ connected' => connected
       /\ Held' => Held \/ connected
       /\ Booked' => Booked \/ Held \/ connected

\* A step of call o, which is under way, books at most its own link.
LEMMA CallAges ==
  ASSUME TypeOK, NEW o \in Open, pc[o] \notin {"idle", "done"},
         UNCHANGED sessionVars
  PROVE  Ages
<1>1. Held
  BY DEF Held
<1> QED
  BY <1>1 DEF Ages, TypeOK, sessionVars

\* A step that starts no call and books nothing.
LEMMA QuietAges ==
  ASSUME TypeOK, UNCHANGED <<sessionState, pc>>, connected' => connected,
         \A d \in Dest : openLinks'[d] \in {openLinks[d], NoOpen}
  PROVE  Ages
<1>1. (Held' <=> Held) /\ (Booked' => Booked)
  BY DEF Held, Booked
<1> QED
  BY <1>1 DEF Ages, TypeOK

LEMMA NextAges ==
  ASSUME TypeOK, [Next]_vars
  PROVE  Ages
<1> USE DEF sessionVars, callVars, entryVars, rnsVars, reportVars, eventVars
<1>1. ASSUME NEW o \in Open, WsOpen(o)
      PROVE  Ages
  BY <1>1 DEF WsOpen, Ages, TypeOK
<1>2. ASSUME NEW o \in Open, RestAdmit(o)
      PROVE  Ages
  BY <1>2 DEF RestAdmit, Ages
<1>3. ASSUME NEW o \in Open, OpenStep(o) \/ RestOpen(o)
      PROVE  Ages
  <2>1. pc[o] \notin {"idle", "done"}
    BY <1>3 DEF OpenStep, WsReused, WsReuseIdentify, RestOpen, Resolve, CreateLink,
                LinkRefused, WireCallbacks, SeeActive, GiveUp, TimedOut, Identify
  <2>2. UNCHANGED <<sessionState, connected>>
    BY <1>3 DEF OpenStep, WsReused, WsReuseIdentify, RestOpen, Resolve, CreateLink,
                LinkRefused, WireCallbacks, SeeActive, GiveUp, TimedOut, Identify
  <2> QED
    BY <2>1, <2>2, CallAges
<1>4. ASSUME NEW d \in Dest, Close(d)
      PROVE  Ages
  BY <1>4, QuietAges DEF Close, TypeOK
<1>5. ASSUME NEW d \in Dest, IdentifyLink(d)
      PROVE  Ages
  BY <1>5, QuietAges DEF IdentifyLink
<1>6. CASE EndSession
  <2>1. (Held' <=> Held) /\ ~Booked'
    BY <1>6 DEF EndSession, Held, Booked
  <2> QED
    BY <1>6, <2>1 DEF EndSession, Ages
<1>7. CASE Disconnect
  BY <1>7, QuietAges DEF Disconnect
<1>8. ASSUME NEW o \in Open, Rns(o)
      PROVE  Ages
  BY <1>8, QuietAges DEF Rns, RnsActive, RnsStale, RnsRecover, RnsClose
<1>9. ASSUME NEW o \in Open, RnsThread(o)
      PROVE  Ages
  <2>1. CASE OnClosedEvict(o)
    BY <2>1, QuietAges DEF OnClosedEvict, TypeOK
  <2>2. CASE OnEstablished(o) \/ OnEstablishedSend(o) \/ OnClosed(o)
    BY <2>2, QuietAges DEF OnEstablished, OnEstablishedSend, OnClosed
  <2> QED
    BY <1>9, <2>1, <2>2 DEF RnsThread
<1>10. CASE UNCHANGED vars
  BY <1>10, QuietAges DEF vars
<1> QED
  BY <1>1, <1>2, <1>3, <1>4, <1>5, <1>6, <1>7, <1>8, <1>9, <1>10 DEF Next, Client

\* Cleanup empties session.open_links, and afterwards only an open call that
\* was under way, or comes in over a connection that is still open, puts a
\* link into it (cleanup_session, _create_link_entry, _wait_for_active).
THEOREM LinksImplementLife == Spec => LinksWindDown
<1>1. Init => Life!Init
  BY DEF Init, Life!Init
<1>2. TypeOK /\ [Next]_vars => [Life!Next]_(Life!vars)
  <2> SUFFICES ASSUME TypeOK, [Next]_vars
               PROVE  [Life!Next]_(Life!vars)
    OBVIOUS
  <2>1. Ages
    BY NextAges
  <2> QED
    BY <2>1 DEF Ages, Held, Booked, Life!Next, Life!vars, Life!Serve, Life!End,
                Life!WindDown
<1> QED
  BY InitInv, NextType, <1>1, <1>2, TypeCorrect, PTL DEF Spec, LinksWindDown, Life!Spec

-----------------------------------------------------------------------------
(***************************************************************************)
(* Every call implements OpenCall.                                         *)
(***************************************************************************)

LEMMA Answers ==
  ASSUME NEW o \in Open
  PROVE  /\ pc[o] = "idle" => Answer(o) = "idle"
         /\ pc[o] = "identifying" => Answer(o) = "confirmed"
         /\ pc[o] = "done" => Answer(o) = outcome[o]
         /\ pc[o] \notin {"idle", "identifying", "done"} => Answer(o) = "open"
         /\ pc'[o] = "idle" => Answer(o)' = "idle"
         /\ pc'[o] = "identifying" => Answer(o)' = "confirmed"
         /\ pc'[o] = "done" => Answer(o)' = outcome'[o]
         /\ pc'[o] \notin {"idle", "identifying", "done"} => Answer(o)' = "open"
  BY DEF Answer

\* What a step may do to call o when it is not a step of o's coroutine.
Aside(o) ==
    /\ UNCHANGED <<pc[o], outcome[o], kind[o], auto[o], awaits[o], announced[o]>>
    /\ \/ link'[o] = link[o]
       \/ link[o] \in {"PENDING", "STALE"} /\ link'[o] = "ACTIVE"
       \/ link[o] = "ACTIVE" /\ link'[o] = "STALE"
       \/ link[o] # "none" /\ link'[o] = "CLOSED"

LEMMA AsideIsQuiet ==
  ASSUME NEW o \in Open, Aside(o)
  PROVE  [Call(o)!Next]_(Call(o)!vars)
<1>1. Answer(o)' = Answer(o) /\ Defers(o)' = Defers(o) /\ announced'[o] = announced[o]
  BY DEF Aside, Answer, Defers
<1> QED
  BY <1>1 DEF Aside, Call!Next, Call!vars, Call!LinkChanges

\* The coroutines of the other calls, the operations of the session and RNS
\* leave call o alone, but for the status of its link.
LEMMA OthersStepAside ==
  ASSUME IInv, NEW o \in Open, NEW p \in Open \ {o},
         WsOpen(p) \/ RestAdmit(p) \/ RestOpen(p) \/ OpenStep(p) \/ Rns(p) \/
            RnsThread(p)
  PROVE  Aside(o)
<1> USE DEF IInv, TypeOK, Aside, callVars, rnsVars, reportVars, eventVars
<1>1. CASE WsOpen(p) \/ RestAdmit(p)
  BY <1>1 DEF WsOpen, RestAdmit, Finish, Goto
<1>5. CASE RestOpen(p)
  BY <1>5 DEF RestOpen, Finish, Goto
<1>2. CASE OpenStep(p)
  <2>1. CASE WsReused(p) \/ WsReuseIdentify(p) \/ Resolve(p)
    BY <2>1 DEF WsReused, WsReuseIdentify, Resolve, Finish, Goto
  <2>2. CASE LinkRefused(p)
    BY <2>2 DEF LinkRefused, Finish, Goto
  <2>3. CASE CreateLink(p) \/ WireCallbacks(p)
    BY <2>3 DEF CreateLink, WireCallbacks, Finish, Goto
  <2>4. CASE SeeActive(p) \/ GiveUp(p) \/ TimedOut(p)
    BY <2>4 DEF SeeActive, GiveUp, TimedOut, Finish, Goto
  <2>5. CASE Identify(p)
    BY <2>5 DEF Identify, Finish, Goto, Announce
  <2> QED
    BY <1>2, <2>1, <2>2, <2>3, <2>4, <2>5 DEF OpenStep
<1>3. CASE Rns(p)
  BY <1>3 DEF Rns, RnsActive, RnsStale, RnsRecover, RnsClose
<1>4. CASE RnsThread(p)
  BY <1>4 DEF RnsThread, OnEstablished, OnEstablishedSend, OnClosed, OnClosedEvict, Announce
<1> QED
  BY <1>1, <1>2, <1>3, <1>4, <1>5

\* The operations of the session.
LEMMA SessionStepsAside ==
  ASSUME IInv, NEW o \in Open,
         (\E d \in Dest : Close(d) \/ IdentifyLink(d)) \/ EndSession \/ Disconnect
  PROVE  Aside(o)
<1> USE DEF IInv, TypeOK, Aside, callVars, rnsVars, reportVars, eventVars
<1>1. ASSUME NEW d \in Dest, Close(d)
      PROVE  Aside(o)
  BY <1>1 DEF Close
<1>2. ASSUME NEW d \in Dest, IdentifyLink(d)
      PROVE  Aside(o)
  BY <1>2 DEF IdentifyLink
<1>3. CASE EndSession
  BY <1>3 DEF EndSession
<1>4. CASE Disconnect
  BY <1>4 DEF Disconnect
<1> QED
  BY <1>1, <1>2, <1>3, <1>4

\* RNS at work on the link of o.  A report that goes out is one that is not
\* deferred, or not any more (DeferInv).
LEMMA RnsOfCall ==
  ASSUME IInv, NEW o \in Open, Rns(o) \/ RnsThread(o)
  PROVE  [Call(o)!Next]_(Call(o)!vars)
<1> USE DEF callVars, rnsVars, reportVars, eventVars
<1>1. CASE Rns(o)
  <2>1. Aside(o)
    BY <1>1 DEF IInv, TypeOK, Aside, LiveStatus, Rns, RnsActive, RnsStale, RnsRecover, RnsClose
  <2> QED
    BY <2>1, AsideIsQuiet
<1>2. CASE OnEstablished(o) \/ OnClosed(o) \/ OnClosedEvict(o)
  <2>1. Aside(o)
    BY <1>2 DEF Aside, OnEstablished, OnClosed, OnClosedEvict
  <2> QED
    BY <2>1, AsideIsQuiet
<1>3. CASE OnEstablishedSend(o)
  <2>1. link[o] # "none" /\ (Defers(o) => pc[o] = "done" /\ outcome[o] = "ok")
    BY <1>3 DEF OnEstablishedSend, IInv, PhaseInv, DeferInv
  <2>2. /\ UNCHANGED <<pc, outcome, kind, auto, awaits, link>>
        /\ announced'[o] = TRUE
    BY <1>3 DEF OnEstablishedSend, Announce, IInv, TypeOK
  <2>3. Answer(o)' = Answer(o) /\ Defers(o)' = Defers(o)
    BY <2>2 DEF Answer, Defers
  <2> QED
    BY <2>1, <2>2, <2>3, Answers DEF Call!Next, Call!Announce
<1> QED
  BY <1>1, <1>2, <1>3 DEF RnsThread

\* The call begins, looks its destination up and dials.
LEMMA CallBegins ==
  ASSUME IInv, NEW o \in Open,
         WsOpen(o) \/ RestAdmit(o) \/ RestOpen(o) \/ Resolve(o) \/ CreateLink(o) \/
            LinkRefused(o)
  PROVE  [Call(o)!Next]_(Call(o)!vars)
<1> USE DEF callVars, rnsVars, eventVars, Refusals, IdentifyFailures
<1> DEFINE Ends == {"reused", "no_known_identity", "identify_failed",
                    "invalid_request", "internal"}
<1>0. /\ pc \in [Open -> Steps] /\ outcome \in [Open -> Outcomes]
      /\ pc[o] \in Early => link[o] = "none"
  BY DEF IInv, TypeOK, PhaseInv
<1>1. CASE WsOpen(o) \/ RestAdmit(o)
  <2>1. /\ pc[o] = "idle" /\ UNCHANGED <<link, announced>>
        /\ \/ pc'[o] \in {"admitted", "reuse", "resolving"}
           \/ pc'[o] = "done" /\ outcome'[o] \in {"invalid_request", "internal"}
    BY <1>0, <1>1 DEF WsOpen, RestAdmit, Finish, Goto
  <2> QED
    BY <1>0, <2>1, Answers DEF Early, Call!Next, Call!Begin, Call!Refuse
<1>2. CASE RestOpen(o)
  <2>1. /\ pc[o] = "admitted" /\ UNCHANGED <<link, announced>>
        /\ \/ pc'[o] = "resolving"
           \/ pc'[o] = "done" /\ outcome'[o] \in Ends
    BY <1>0, <1>2 DEF RestOpen, Finish, Goto
  <2> QED
    BY <1>0, <2>1, Answers DEF Early, Call!Next, Call!Ask, Call!EndWithout
<1>3. CASE Resolve(o)
  <2>1. /\ pc[o] = "resolving" /\ UNCHANGED <<link, announced>>
        /\ \/ pc'[o] = "establishing"
           \/ pc'[o] = "done" /\ outcome'[o] \in Ends
    BY <1>0, <1>3 DEF Resolve, Finish, Goto
  <2> QED
    BY <1>0, <2>1, Answers DEF Early, Call!Next, Call!Ask, Call!EndWithout
<1>4. CASE CreateLink(o)
  <2>1. /\ pc[o] = "establishing" /\ pc'[o] = "wiring"
        /\ link'[o] = "PENDING" /\ UNCHANGED announced
    BY <1>0, <1>4 DEF IInv, TypeOK, CreateLink, Goto
  <2> QED
    BY <1>0, <2>1, Answers DEF Early, Call!Next, Call!Dial
<1>5. CASE LinkRefused(o)
  <2>1. /\ pc[o] = "establishing" /\ UNCHANGED <<link, announced>>
        /\ pc'[o] = "done" /\ outcome'[o] \in Ends
    BY <1>0, <1>5 DEF LinkRefused, Finish, Goto
  <2> QED
    BY <1>0, <2>1, Answers DEF Early, Call!Next, Call!EndWithout
<1> QED
  BY <1>1, <1>2, <1>3, <1>4, <1>5

\* A WebSocket call that reuses a link has none of its own.
LEMMA CallReuses ==
  ASSUME IInv, NEW o \in Open, WsReused(o) \/ WsReuseIdentify(o)
  PROVE  [Call(o)!Next]_(Call(o)!vars)
<1> USE DEF callVars, rnsVars, eventVars, IdentifyFailures
<1>1. /\ pc[o] \in {"reuse", "reuse_identify"} /\ link[o] = "none"
      /\ UNCHANGED <<link, announced>>
      /\ \/ pc'[o] = "reuse_identify"
         \/ pc'[o] = "done" /\ outcome'[o] \in {"reused", "identify_failed", "internal"}
  BY DEF IInv, TypeOK, PhaseInv, Early, WsReused, WsReuseIdentify, Finish, Goto
<1> QED
  BY <1>1, Answers DEF Call!Next, Call!Ask, Call!EndWithout

\* The call waits for its link, and ends.
LEMMA CallEnds ==
  ASSUME IInv, NEW o \in Open,
         WireCallbacks(o) \/ SeeActive(o) \/ GiveUp(o) \/ TimedOut(o) \/ Identify(o)
  PROVE  [Call(o)!Next]_(Call(o)!vars)
<1> USE DEF callVars, rnsVars, eventVars, IdentifyFailures
<1>0. /\ pc \in [Open -> Steps] /\ outcome \in [Open -> Outcomes]
      /\ pc[o] \in {"wiring", "waiting", "giving_up", "identifying"} => link[o] # "none"
      /\ pc[o] \in {"waiting", "giving_up", "identifying"} => kind[o] = "ws" \/ awaits[o]
  BY DEF IInv, TypeOK, PhaseInv, DeferInv
<1>1. ASSUME UNCHANGED <<kind, auto, awaits>>
      PROVE  Defers(o)' = Defers(o)
  BY <1>1 DEF Defers
<1>2. CASE WireCallbacks(o)
  <2>1. /\ pc[o] = "wiring" /\ UNCHANGED <<kind, auto, awaits, link, announced>>
        /\ \/ pc'[o] = "waiting" /\ UNCHANGED outcome
           \/ pc'[o] = "done" /\ outcome'[o] = "pending" /\ ~Defers(o)
    BY <1>0, <1>2 DEF WireCallbacks, Finish, Goto, Defers
  <2>2. Defers(o)' = Defers(o)
    BY <1>1, <2>1
  <2> QED
    BY <1>0, <2>1, <2>2, Answers DEF Call!Next, Call!vars, Call!EndWith
<1>3. CASE SeeActive(o)
  <2>1. /\ pc[o] = "waiting" /\ link[o] = "ACTIVE"
        /\ UNCHANGED <<kind, auto, awaits, link, announced>>
        /\ \/ pc'[o] = "identifying" /\ auto[o]
           \/ pc'[o] = "done" /\ outcome'[o] = "ok" /\ ~auto[o]
    BY <1>0, <1>3 DEF SeeActive, Finish, Goto
  <2>2. Defers(o)' = Defers(o) /\ (Defers(o) <=> auto[o])
    BY <1>0, <1>1, <2>1 DEF Defers
  <2> QED
    BY <1>0, <2>1, <2>2, Answers DEF Call!Next, Call!Confirm, Call!EndWith
<1>4. CASE GiveUp(o)
  <2>1. /\ pc[o] = "waiting" /\ pc'[o] = "giving_up"
        /\ UNCHANGED <<kind, auto, awaits, link, announced>>
    BY <1>0, <1>4 DEF GiveUp, Goto
  <2> QED
    BY <1>1, <2>1, Answers DEF Call!vars
<1>5. CASE TimedOut(o)
  <2>1. /\ pc[o] = "giving_up" /\ pc'[o] = "done" /\ outcome'[o] = "timed_out"
        /\ link'[o] = "CLOSED" /\ UNCHANGED <<kind, auto, awaits, announced>>
    BY <1>0, <1>5 DEF IInv, TypeOK, TimedOut, Finish, Goto
  <2> QED
    BY <1>0, <1>1, <2>1, Answers DEF Call!Next, Call!GiveUp
<1>6. CASE Identify(o)
  <2>1. /\ pc[o] = "identifying" /\ pc'[o] = "done"
        /\ UNCHANGED <<kind, auto, awaits, link>>
        /\ \/ outcome'[o] = "ok" /\ announced'[o] = TRUE
           \/ outcome'[o] \in {"identify_failed", "internal"} /\ UNCHANGED announced
    BY <1>0, <1>6 DEF IInv, TypeOK, Identify, Finish, Goto, Announce
  <2> QED
    BY <1>0, <1>1, <2>1, Answers DEF Call!Next, Call!EndConfirmed
<1> QED
  BY <1>2, <1>3, <1>4, <1>5, <1>6

LEMMA CallSteps ==
  ASSUME IInv, [Next]_vars, NEW o \in Open
  PROVE  [Call(o)!Next]_(Call(o)!vars)
<1>1. CASE \E p \in Open : WsOpen(p) \/ RestAdmit(p) \/ RestOpen(p) \/ OpenStep(p)
                          \/ Rns(p) \/ RnsThread(p)
  <2>1. PICK p \in Open : WsOpen(p) \/ RestAdmit(p) \/ RestOpen(p) \/ OpenStep(p)
                          \/ Rns(p) \/ RnsThread(p)
    BY <1>1
  <2>2. CASE p = o
    BY <2>1, <2>2, CallBegins, CallReuses, CallEnds, RnsOfCall DEF OpenStep
  <2>3. CASE p # o
    BY <2>1, <2>3, OthersStepAside, AsideIsQuiet
  <2> QED
    BY <2>2, <2>3
<1>2. CASE (\E d \in Dest : Close(d) \/ IdentifyLink(d)) \/ EndSession \/ Disconnect
  BY <1>2, SessionStepsAside, AsideIsQuiet
<1>3. CASE UNCHANGED vars
  <2>1. Aside(o)
    BY <1>3 DEF Aside, vars
  <2> QED
    BY <2>1, AsideIsQuiet
<1> QED
  BY <1>1, <1>2, <1>3 DEF Next, Client

\* However calls, RNS threads and the end of the session interleave, every
\* open call keeps the promises of OpenCall: it ends once and truly, dials
\* once, and does not announce a link it failed to identify (open_link,
\* continue_open_link_ws, _wait_for_active, _on_established).
THEOREM CallsAnswerTruly == Spec => OpensAnswerTruly
<1>1. Init => \A o \in Open : Call(o)!Init
  BY DEF Init, Call!Init, Answer, Defers
<1>2. IInv /\ [Next]_vars => [\A o \in Open : [Call(o)!Next]_(Call(o)!vars)]_vars
  BY CallSteps
<1> QED
  BY <1>1, <1>2, Invariance, PTL DEF Spec, OpensAnswerTruly
=============================================================================
