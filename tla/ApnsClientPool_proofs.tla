------------------------ MODULE ApnsClientPool_proofs ------------------------
(***************************************************************************)
(* Theorems about the APNs client pool, for any set of sessions, any id    *)
(* width, any list bound and any set of unstable clients.                  *)
(***************************************************************************)
EXTENDS ApnsClientPool, SequenceTheorems, TLAPS

\* The parts of TypeOK, by the group of actions that assigns them.
TypeSession ==
  /\ messageID \in 0 .. IdMod - 1
  /\ pc \in [Sessions -> {"idle", "loaded", "numbered"}]
  /\ tmp \in [Sessions -> 0 .. IdMod - 1]
  /\ id \in [Sessions -> 0 .. IdMod - 1]

TypeClient ==
  /\ fMsgList \in Seq(Message)
  /\ writeEv \in BOOLEAN
  /\ status \in [Clients -> {"offline", "online"}]
  /\ sock \in [Clients -> SockStates]
  /\ timer \in [Clients -> BOOLEAN]
  /\ task \in [Clients -> TaskSteps]
  /\ disarmed \in BOOLEAN

TypePool ==
  /\ fQueue \in {<<>>, <<"advance">>, <<"primery">>,
                 <<"advance", "primery">>, <<"primery", "advance">>}
  /\ poolEv \in SUBSET Events
  /\ pool \in [at : Clients \cup {"none"}, step : PoolSteps]
  /\ gone \in BOOLEAN
  /\ lcsFind \in BOOLEAN

LEMMA TypeParts == TypeOK <=> TypeSession /\ TypeClient /\ TypePool
  BY DEF TypeOK, TypeSession, TypeClient, TypePool

LEMMA TypePartsNext == TypeOK' <=> TypeSession' /\ TypeClient' /\ TypePool'
  BY DEF TypeOK, TypeSession, TypeClient, TypePool

\* The increment stays in range.
LEMMA ModRange == \A n \in 0 .. IdMod - 1 : (n + 1) % IdMod \in 0 .. IdMod - 1
  BY PoolAssumption

LEMMA AppendOne ==
  ASSUME NEW S, NEW a \in S, NEW c \in S
  PROVE  Append(<<a>>, c) = <<a, c>>
<1>1. <<a>> \in Seq(S) /\ Len(<<a>>) = 1 /\ <<a>>[1] = a
  OBVIOUS
<1>2. Append(<<a>>, c) \in Seq(S) /\ Len(Append(<<a>>, c)) = 2
  BY <1>1
<1>3. Append(<<a>>, c)[1] = a /\ Append(<<a>>, c)[2] = c
  BY <1>1
<1>4. <<a, c>> \in Seq(S) /\ Len(<<a, c>>) = 2 /\ <<a, c>>[1] = a /\ <<a, c>>[2] = c
  OBVIOUS
<1>5. \A i \in 1 .. 2 : Append(<<a>>, c)[i] = <<a, c>>[i]
  BY <1>3, <1>4
<1> QED
  BY ONLY <1>2, <1>4, <1>5, SeqEqual

LEMMA EnQueueType ==
  ASSUME NEW q \in {<<>>, <<"advance">>, <<"primery">>,
                    <<"advance", "primery">>, <<"primery", "advance">>},
         NEW c \in Queued
  PROVE  /\ EnQueue(q, c) \in {<<>>, <<"advance">>, <<"primery">>,
                    <<"advance", "primery">>, <<"primery", "advance">>}
         /\ InQueue(EnQueue(q, c), c)
         /\ \A d : InQueue(q, d) => InQueue(EnQueue(q, c), d)
<1>1. CASE InQueue(q, c)
  BY <1>1 DEF EnQueue
<1>2. CASE ~ InQueue(q, c)
  <2>1. EnQueue(q, c) = Append(q, c)
    BY <1>2 DEF EnQueue
  <2>2. q \in {<<>>, <<"advance">>, <<"primery">>}
    <3>1. \A a, b \in Queued : q = <<a, b>> /\ a # b => InQueue(q, c)
      BY DEF InQueue, Queued
    <3> QED
      BY <1>2, <3>1 DEF Queued
  <2>3. q = <<>> => Append(q, c) = <<c>>
    OBVIOUS
  <2>4a. ASSUME NEW a \in Queued, q = <<a>> PROVE Append(q, c) = <<a, c>>
    BY <2>4a, AppendOne, Zenon
  <2>4. \A a : q = <<a>> => a # c
    BY <1>2 DEF InQueue
  <2>5. Append(q, c) \in {<<>>, <<"advance">>, <<"primery">>,
                    <<"advance", "primery">>, <<"primery", "advance">>}
    BY <2>2, <2>3, <2>4a, <2>4 DEF Queued
  <2>6. InQueue(Append(q, c), c) /\ \A d : InQueue(q, d) => InQueue(Append(q, c), d)
    <3>0. /\ <<>> \in Seq(Queued)
          /\ <<"advance">> \in Seq(Queued)
          /\ <<"primery">> \in Seq(Queued)
      BY DEF Queued
    <3>1. q \in Seq(Queued)
      BY <2>2, <3>0, Zenon
    <3>2. Len(q) \in Nat /\ Len(Append(q, c)) = Len(q) + 1
      BY <3>1
    <3>3. Append(q, c)[Len(q) + 1] = c
      BY <3>1
    <3>4. \A i \in 1 .. Len(q) : Append(q, c)[i] = q[i]
      BY <3>1
    <3>5. InQueue(Append(q, c), c)
      BY <3>2, <3>3 DEF InQueue
    <3>6. ASSUME NEW d, InQueue(q, d) PROVE InQueue(Append(q, c), d)
      BY <3>2, <3>4, <3>6 DEF InQueue
    <3> QED
      BY <3>5, <3>6
  <2> QED
    BY <2>1, <2>5, <2>6
<1> QED
  BY <1>1, <1>2

LEMMA RemoveType ==
  ASSUME NEW q \in {<<>>, <<"advance">>, <<"primery">>,
                    <<"advance", "primery">>, <<"primery", "advance">>},
         NEW c \in Queued
  PROVE  Remove(q, c) \in {<<>>, <<"advance">>, <<"primery">>}
  BY DEF Remove, InQueue, Queued

LEMMA TypeInit == Init => TypeOK
<1> SUFFICES ASSUME Init PROVE TypeOK
  OBVIOUS
<1>1. TypeSession
  BY PoolAssumption DEF Init, TypeSession
<1>2. TypeClient
  <2>1. fMsgList \in Seq(Message)
    BY DEF Init
  <2> QED
    BY <2>1 DEF Init, TypeClient, Clients, SockStates, TaskSteps
<1>3. TypePool
  <2>1. pool \in [at : Clients \cup {"none"}, step : PoolSteps]
    BY DEF Init, Idle, PoolSteps
  <2>2. fQueue \in {<<>>, <<"advance">>, <<"primery">>,
                   <<"advance", "primery">>, <<"primery", "advance">>}
    BY DEF Init
  <2> QED
    BY <2>1, <2>2 DEF Init, TypePool
<1> QED
  BY <1>1, <1>2, <1>3, TypeParts

LEMMA TypeStep == TypeOK /\ [Next]_vars => TypeOK'
<1> SUFFICES ASSUME TypeOK, [Next]_vars PROVE TypeOK'
  OBVIOUS
<1>T. TypeSession /\ TypeClient /\ TypePool
  BY TypeParts
<1>1. ASSUME NEW s \in Sessions, Publish(s) PROVE TypeOK'
  <2>1. CASE LoadID(s)
    BY <1>T, <2>1, TypePartsNext
    DEF LoadID, TypeSession, TypeClient, TypePool, clientVars, poolVars
  <2>2. CASE StoreID(s)
    BY <1>T, <2>2, TypePartsNext, ModRange
    DEF StoreID, TypeSession, TypeClient, TypePool, clientVars, poolVars
  <2>3. CASE OnSendMessage(s)
    BY <1>T, <2>3, TypePartsNext
    DEF OnSendMessage, ListAppend, TypeSession, TypeClient, TypePool, poolVars,
        Message
  <2> QED
    BY <1>1, <2>1, <2>2, <2>3 DEF Publish
<1>2. CASE AdvanceTask
  <2>1. CASE TrySendNothing
    BY <1>T, <2>1, TypePartsNext
    DEF TrySendNothing, TypeSession, TypeClient, TypePool, sessionVars, poolVars
  <2>2. CASE TrySendHead
    BY <1>T, <2>2, TypePartsNext
    DEF TrySendHead, TypeSession, TypeClient, TypePool, sessionVars, poolVars
  <2>3. CASE TrySendFails
    BY <1>T, <2>3, TypePartsNext
    DEF TrySendFails, TypeSession, TypeClient, TypePool, sessionVars, poolVars,
        TaskSteps, SockStates
  <2>4. CASE AdvanceReInitialize
    BY <1>T, <2>4, TypePartsNext
    DEF AdvanceReInitialize, TypeSession, TypeClient, TypePool, sessionVars,
        poolVars, ReInitializeParam, SockStates, TaskSteps
  <2>5. CASE AskToConnect
    BY <1>T, <2>5, TypePartsNext, EnQueueType
    DEF AskToConnect, TypeSession, TypeClient, TypePool, sessionVars,
        Queued, Events, TaskSteps
  <2> QED
    BY <1>2, <2>1, <2>2, <2>3, <2>4, <2>5 DEF AdvanceTask
<1>6. ASSUME NEW c \in Clients, ClientTask(c) PROVE TypeOK'
  <2>1. CASE OfflineTimer(c)
    BY <1>T, <2>1, TypePartsNext
    DEF OfflineTimer, TypeSession, TypeClient, TypePool, sessionVars, poolVars,
        TaskSteps
  <2>2. CASE ReplaceSocket(c)
    BY <1>T, <2>2, TypePartsNext
    DEF ReplaceSocket, TypeSession, TypeClient, TypePool, sessionVars,
        SockStates, TaskSteps
  <2> QED
    BY <1>6, <2>1, <2>2 DEF ClientTask
<1>3. CASE PoolRun
  <2>1. CASE RunLcs
    BY <1>T, <2>1, TypePartsNext
    DEF RunLcs, TypeSession, TypeClient, TypePool, sessionVars, clientVars
  <2>2. CASE RunConnect
    <3>1. fQueue # <<>> => Head(fQueue) \in Clients
      BY <1>T DEF TypePool, Clients
    <3> QED
      BY <1>T, <2>2, <3>1, TypePartsNext
      DEF RunConnect, TypeSession, TypeClient, TypePool, sessionVars,
          clientVars, Idle, PoolSteps
  <2>3. CASE RunTimeout
    BY <1>T, <2>3, TypePartsNext
    DEF RunTimeout, TypeSession, TypeClient, TypePool, sessionVars, Clients,
        ReInitializeParam, SockStates, PoolSteps
  <2>4. ASSUME NEW c \in Queued, ConnectQueueStep(c) PROVE TypeOK'
    <3>1. /\ c \in Clients
          /\ Idle \in [at : Clients \cup {"none"}, step : PoolSteps]
          /\ After(c) \in [at : Clients \cup {"none"}, step : PoolSteps]
      BY <1>T DEF TypePool, Idle, After, Queued, Clients, PoolSteps
    <3>0. ASSUME NEW q, IterateAfterRemoval(q)
          PROVE  pool' \in [at : Clients \cup {"none"}, step : PoolSteps]
      BY <3>0, <3>1 DEF IterateAfterRemoval, Queued, Clients, PoolSteps
    <3>2. Remove(fQueue, c) \in {<<>>, <<"advance">>, <<"primery">>}
      BY <1>T, RemoveType DEF TypePool
    <3>3. CASE VisitOffline(c)
      BY <1>T, <3>1, <3>3, TypePartsNext
      DEF VisitOffline, TypeSession, TypeClient, TypePool, sessionVars,
          clientVars, PoolSteps
    <3>4. CASE VisitOnline(c)
      BY <1>T, <3>0, <3>2, <3>4, TypePartsNext
      DEF VisitOnline, TypeSession, TypeClient, TypePool, sessionVars, clientVars
    <3>5. CASE ConnectSucceeds(c)
      BY <1>T, <3>1, <3>5, TypePartsNext
      DEF ConnectSucceeds, TypeSession, TypeClient, TypePool, sessionVars,
          SockStates, Connected, PoolSteps
    <3>6. CASE ConnectFails(c)
      BY <1>T, <3>1, <3>6, TypePartsNext
      DEF ConnectFails, HandshakeFails, TypeSession, TypeClient, TypePool,
          sessionVars, SockStates
    <3>7. CASE LeaveQueue(c)
      BY <1>T, <3>1, <3>2, <3>7, TypePartsNext
      DEF LeaveQueue, TypeSession, TypeClient, TypePool, sessionVars,
          clientVars, PoolSteps
    <3>8. CASE OnlineStatus(c)
      BY <1>T, <3>1, <3>8, TypePartsNext
      DEF OnlineStatus, TypeSession, TypeClient, TypePool, sessionVars, PoolSteps
    <3>9. CASE OnlineTimer(c)
      BY <1>T, <3>1, <3>9, TypePartsNext
      DEF OnlineTimer, KeepAlive, TypeSession, TypeClient, TypePool,
          sessionVars, PoolSteps
    <3>10. CASE WakeClient(c)
      BY <1>T, <3>0, <3>10, TypePartsNext
      DEF WakeClient, NotifySendMsg, TypeSession, TypeClient, TypePool, sessionVars
    <3> QED
      BY <2>4, <3>3, <3>4, <3>5, <3>6, <3>7, <3>8, <3>9, <3>10
      DEF ConnectQueueStep
  <2>5. CASE FeedbackConnects
    BY <1>T, <2>5, TypePartsNext
    DEF FeedbackConnects, TypeSession, TypeClient, TypePool, sessionVars,
        SockStates, Connected, Idle, PoolSteps
  <2>6. CASE FeedbackFails
    BY <1>T, <2>6, TypePartsNext
    DEF FeedbackFails, HandshakeFails, TypeSession, TypeClient, TypePool,
        sessionVars, SockStates, Idle, PoolSteps
  <2> QED
    BY <1>3, <2>1, <2>2, <2>3, <2>4, <2>5, <2>6 DEF PoolRun
<1>4. CASE Environment
  <2>1. CASE OnResponse
    BY <1>T, <2>1, TypePartsNext
    DEF OnResponse, TypeSession, TypeClient, TypePool, sessionVars, clientVars
  <2>2. CASE NotifyQueryResult
    BY <1>T, <2>2, TypePartsNext
    DEF NotifyQueryResult, TypeSession, TypeClient, TypePool, sessionVars,
        clientVars, Events
  <2>3. CASE PoolTimeout
    BY <1>T, <2>3, TypePartsNext
    DEF PoolTimeout, TypeSession, TypeClient, TypePool, sessionVars,
        clientVars, Events
  <2>5. ASSUME NEW c \in Clients, OnNetDisconnect(c) PROVE TypeOK'
    BY <1>T, <2>5, TypePartsNext
    DEF OnNetDisconnect, TypeSession, TypeClient, TypePool, sessionVars,
        poolVars, SockStates, TaskSteps
  <2>6. ASSUME NEW c \in Clients, OnTimeout(c) PROVE TypeOK'
    BY <1>T, <2>6, TypePartsNext
    DEF OnTimeout, TypeSession, TypeClient, TypePool, sessionVars, poolVars,
        TaskSteps
  <2>7. ASSUME NEW c \in Clients, NEW from, NEW to \in SockStates,
               SockChanges(c, from, to)
        PROVE  TypeOK'
    BY <1>T, <2>7, TypePartsNext
    DEF SockChanges, TypeSession, TypeClient, TypePool, sessionVars, poolVars
  <2> QED
    BY <1>4, <2>1, <2>2, <2>3, <2>5, <2>6, <2>7, UnstableAssumption
    DEF Environment, PeerCloses, PeerStalls, PeerReads, SockStates, Connected,
        Clients
<1>5. CASE UNCHANGED vars
  BY <1>5 DEF vars, TypeOK, Message
<1> QED
  BY <1>1, <1>2, <1>3, <1>4, <1>5, <1>6 DEF Next

\* The state of the pool stays within its types, for any constants.
THEOREM TypeCorrect == Spec => []TypeOK
  BY TypeInit, TypeStep, PTL DEF Spec
-----------------------------------------------------------------------------
(* The wake-up of the send list.                                           *)

\* A client is offline for as long as the pool's task has not reported its
\* connection, and whose timer is off while it is online was disarmed after it
\* had been put online.
ConnectingIsOffline ==
  pool.step \in {"connecting", "connected", "left"}
    => pool.at \in Queued /\ status[pool.at] = "offline"

OnlineHasTimer ==
  status["advance"] = "online" => timer["advance"] \/ AboutToArm \/ disarmed

WakeInv ==
  /\ HealthyConnectionWakes
  /\ ConnectingIsOffline
  /\ OnlineHasTimer
  /\ AdvanceSocketHasParameters

USE DEF WriteEvent

LEMMA WakeInit == Init => WakeInv
  BY DEF Init, WakeInv, HealthyConnectionWakes, ConnectingIsOffline,
     OnlineHasTimer, AdvanceSocketHasParameters, Idle, Clients

LEMMA WakeStep == TypeOK /\ WakeInv /\ [Next]_vars => WakeInv'
<1> SUFFICES ASSUME TypeOK, WakeInv, [Next]_vars PROVE WakeInv'
  OBVIOUS
<1> USE DEF WakeInv, HealthyConnectionWakes, ConnectingIsOffline,
            OnlineHasTimer, AdvanceSocketHasParameters, AboutToArm, AboutToWake
<1>T. /\ status \in [Clients -> {"offline", "online"}]
      /\ sock \in [Clients -> SockStates]
      /\ timer \in [Clients -> BOOLEAN]
      /\ task \in [Clients -> TaskSteps]
      /\ disarmed \in BOOLEAN
      /\ writeEv \in BOOLEAN
      /\ "advance" \in Clients
  BY DEF TypeOK, Clients
<1>1. ASSUME NEW s \in Sessions, Publish(s) PROVE WakeInv'
  BY <1>1 DEF Publish, LoadID, StoreID, OnSendMessage, clientVars, poolVars
<1>2. CASE AdvanceTask
  <2>1. CASE TrySendNothing
    BY <2>1 DEF TrySendNothing, poolVars
  <2>2. CASE TrySendHead
    BY <2>2 DEF TrySendHead, poolVars
  <2>3. CASE TrySendFails
    <3>1. status' = status \/ status' = [status EXCEPT !["advance"] = "offline"]
      BY <2>3 DEF TrySendFails
    <3>2. UNCHANGED <<timer, disarmed, pool, fMsgList>>
      BY <2>3 DEF TrySendFails, poolVars
    <3>3. sock'["advance"] \in {"bare", "ready"} /\ sock["advance"] # "bare"
      BY <1>T, <2>3 DEF TrySendFails
    <3>4. sock'["advance"] # "bare"
      BY <1>T, <2>3, <3>3 DEF TrySendFails
    <3>5. HealthyConnectionWakes' /\ AdvanceSocketHasParameters'
      BY <3>3, <3>4 DEF Connected
    <3>6. ConnectingIsOffline' /\ OnlineHasTimer'
      BY <1>T, <3>1, <3>2 DEF Queued, Clients
    <3> QED
      BY <3>5, <3>6
  <2>4. CASE AdvanceReInitialize
    BY <1>T, <2>4 DEF AdvanceReInitialize, ReInitializeParam, poolVars, Connected
  <2>5. CASE AskToConnect
    <3>1. sock["advance"] # "bare"
      BY <2>5 DEF AskToConnect
    <3> QED
      BY <2>5, <3>1 DEF AskToConnect
  <2> QED
    BY <1>2, <2>1, <2>2, <2>3, <2>4, <2>5 DEF AdvanceTask
<1>6. ASSUME NEW c \in Clients, ClientTask(c) PROVE WakeInv'
  <2>1. CASE OfflineTimer(c)
    <3>1. UNCHANGED <<fMsgList, writeEv, status, sock, pool>>
      BY <2>1 DEF OfflineTimer, poolVars
    <3>2. AdvanceSocketHasParameters'
      BY <1>T, <2>1, <3>1 DEF OfflineTimer
    <3>3. OnlineHasTimer'
      BY <1>T, <2>1, <3>1 DEF OfflineTimer
    <3> QED
      BY <3>1, <3>2, <3>3
  <2>2. CASE ReplaceSocket(c)
    BY <1>T, <2>2 DEF ReplaceSocket, Connected
  <2> QED
    BY <1>6, <2>1, <2>2 DEF ClientTask
<1>3. CASE PoolRun
  <2>1. CASE RunLcs
    BY <2>1 DEF RunLcs, clientVars, Idle
  <2>2. CASE RunConnect
    BY <2>2 DEF RunConnect, clientVars, Idle
  <2>3. CASE RunTimeout
    BY <1>T, <2>3 DEF RunTimeout, ReInitializeParam, Connected, Idle, Clients
  <2>4. ASSUME NEW c \in Queued, ConnectQueueStep(c) PROVE WakeInv'
    <3>1. c \in Clients
      BY DEF Queued, Clients
    <3>0. ASSUME NEW q, IterateAfterRemoval(q)
          PROVE  pool'.step \in {"idle", "visit"}
      BY <3>0 DEF IterateAfterRemoval, Idle
    <3>2. CASE VisitOffline(c)
      BY <3>2 DEF VisitOffline, clientVars
    <3>3. CASE VisitOnline(c)
      BY <3>0, <3>3 DEF VisitOnline, clientVars
    <3>4. CASE ConnectSucceeds(c)
      BY <1>T, <3>1, <3>4 DEF ConnectSucceeds, Connected
    <3>5. CASE ConnectFails(c)
      <4>1. UNCHANGED <<fMsgList, writeEv, status, timer, task, disarmed>>
        BY <3>5 DEF ConnectFails, HandshakeFails
      <4>2. sock'["advance"] \in {sock["advance"], "half"}
        BY <1>T, <3>1, <3>5 DEF ConnectFails, HandshakeFails
      <4>3. pool.step = "connecting" /\ pool'.step \in {"idle", "visit"}
        BY <3>5 DEF ConnectFails, After, Idle
      <4> QED
        BY <4>1, <4>2, <4>3 DEF Connected
    <3>6. CASE LeaveQueue(c)
      BY <3>6 DEF LeaveQueue, clientVars
    <3>7. CASE OnlineStatus(c)
      <4>1. UNCHANGED <<fMsgList, writeEv, sock, timer, task, disarmed>>
        BY <3>7 DEF OnlineStatus
      <4>2. CASE c = "advance"
        BY <1>T, <3>7, <4>1, <4>2 DEF OnlineStatus
      <4>3. CASE c # "advance"
        <5>1. status'["advance"] = status["advance"]
          BY <1>T, <3>1, <3>7, <4>3 DEF OnlineStatus
        <5>2. /\ pool = [at |-> c, step |-> "left"]
              /\ pool' = [at |-> c, step |-> "online"]
          BY <3>7 DEF OnlineStatus
        <5> QED
          BY <4>1, <4>3, <5>1, <5>2
      <4> QED
        BY <4>2, <4>3
    <3>8. CASE OnlineTimer(c)
      <4>1. UNCHANGED <<fMsgList, writeEv, status, sock, task>>
        BY <3>8 DEF OnlineTimer
      <4>2. /\ pool = [at |-> c, step |-> "online"]
            /\ pool' = [at |-> c, step |-> "armed"]
        BY <3>8 DEF OnlineTimer
      <4>3. OnlineHasTimer'
        BY <1>T, <3>1, <3>8, <4>1, <4>2 DEF OnlineTimer, KeepAlive
      <4> QED
        BY <4>1, <4>2, <4>3
    <3>9. CASE WakeClient(c)
      <4>1. UNCHANGED <<fMsgList, status, sock, timer, task, disarmed>>
        BY <3>9 DEF WakeClient
      <4>2. pool.step = "armed" /\ pool'.step \in {"idle", "visit"}
        BY <3>0, <3>9 DEF WakeClient
      <4>3. writeEv' = (writeEv \/ c = "advance") /\ pool.at = c
        BY <3>9 DEF WakeClient, NotifySendMsg
      <4> QED
        BY <1>T, <4>1, <4>2, <4>3
    <3> QED
      BY <2>4, <3>2, <3>3, <3>4, <3>5, <3>6, <3>7, <3>8, <3>9 DEF ConnectQueueStep
  <2>5. CASE FeedbackConnects
    BY <1>T, <2>5 DEF FeedbackConnects, Idle
  <2>6. CASE FeedbackFails
    <3>1. UNCHANGED <<fMsgList, writeEv, status, timer, task, disarmed>>
      BY <2>6 DEF FeedbackFails, HandshakeFails
    <3>2. sock'["advance"] = sock["advance"]
      BY <1>T, <2>6 DEF FeedbackFails, HandshakeFails
    <3> QED
      BY <2>6, <3>1, <3>2 DEF FeedbackFails, Idle
  <2> QED
    BY <1>3, <2>1, <2>2, <2>3, <2>4, <2>5, <2>6 DEF PoolRun
<1>4. CASE Environment
  <2>1. CASE OnResponse \/ NotifyQueryResult \/ PoolTimeout
    BY <2>1 DEF OnResponse, NotifyQueryResult, PoolTimeout, clientVars
  <2>2. ASSUME NEW c \in Clients, OnNetDisconnect(c) PROVE WakeInv'
    BY <1>T, <2>2 DEF OnNetDisconnect, poolVars, Queued, Clients
  <2>3. ASSUME NEW c \in Clients, OnTimeout(c) PROVE WakeInv'
    BY <1>T, <2>3 DEF OnTimeout, poolVars, Queued, Clients
  <2>5. ASSUME NEW c \in Clients, NEW from \in SUBSET Connected,
               NEW to \in Connected, SockChanges(c, from, to)
        PROVE  WakeInv'
    BY <1>T, <2>5 DEF SockChanges, poolVars, Connected
  <2> QED
    BY <1>4, <2>1, <2>2, <2>3, <2>5, UnstableAssumption
    DEF Environment, PeerCloses, PeerStalls, PeerReads, Connected, Clients
<1>5. CASE UNCHANGED vars
  BY <1>5 DEF vars
<1> QED
  BY <1>1, <1>2, <1>3, <1>4, <1>5, <1>6 DEF Next

LEMMA WakeInvariant == Spec => [](TypeOK /\ WakeInv)
  BY TypeInit, TypeStep, WakeInit, WakeStep, PTL DEF Spec

\* A message never waits without a pending write event on a connection that
\* is up and known to be up, unless the pool's task is about to signal one.
THEOREM HealthyConnectionAlwaysWakes == Spec => []HealthyConnectionWakes
  BY WakeInvariant, PTL DEF WakeInv

\* A stranded message has a way back to the connect queue, unless the timer of
\* its client was switched off after the client had been put online.
THEOREM StrandedAlwaysRecoverable == Spec => []StrandedCanRecover
<1>1. TypeOK /\ WakeInv => StrandedCanRecover
  BY DEF TypeOK, WakeInv, OnlineHasTimer, StrandedCanRecover, Clients
<1> QED
  BY <1>1, WakeInvariant, PTL

\* Only in the middle of its own OnTimeout does the advance client hold a
\* socket without parameters.
THEOREM AdvanceSocketAlwaysHasParameters == Spec => []AdvanceSocketHasParameters
  BY WakeInvariant, PTL DEF WakeInv

-----------------------------------------------------------------------------
(* Refinement.                                                             *)

LEMMA ChannelInit == Init => Channel!Init
  BY DEF Init, Channel!Init, Connected, Clients

LEMMA ChannelStep ==
  TypeOK /\ [Next]_vars
    => [Channel!Next]_<<fMsgList, sock["advance"] \in Connected>>
<1> SUFFICES ASSUME TypeOK, [Next]_vars
             PROVE  [Channel!Next]_<<fMsgList, sock["advance"] \in Connected>>
  OBVIOUS
<1>1. CASE UNCHANGED fMsgList
  <2>1. CASE (sock["advance"] \in Connected)' = (sock["advance"] \in Connected)
    BY <1>1, <2>1
  <2>2. CASE (sock["advance"] \in Connected)' # (sock["advance"] \in Connected)
    <3>1. Channel!LinkChanges
      BY <1>1, <2>2 DEF Channel!LinkChanges
    <3> QED
      BY <3>1 DEF Channel!Next
  <2> QED
    BY <2>1, <2>2
<1>2. ASSUME NEW s \in Sessions, OnSendMessage(s)
      PROVE  Channel!Accept
  <2>1. [by |-> s, id |-> id[s]] \in Message
    BY DEF TypeOK, Message
  <2> QED
    BY <1>2, <2>1 DEF OnSendMessage, ListAppend, Channel!Accept
<1>3. CASE TrySendHead
  BY <1>3 DEF TrySendHead, Channel!Take, Channel!Next
<1>4. CASE \E s \in Sessions : Publish(s)
  <2>1. (\E s \in Sessions : OnSendMessage(s)) \/ UNCHANGED fMsgList
    BY <1>4 DEF Publish, LoadID, StoreID, clientVars
  <2> QED
    BY <1>1, <1>2, <2>1 DEF Channel!Next
<1>5. CASE AdvanceTask
  <2>1. TrySendHead \/ UNCHANGED fMsgList
    BY <1>5 DEF AdvanceTask, TrySendNothing, TrySendFails,
       AdvanceReInitialize, AskToConnect
  <2> QED
    BY <1>1, <1>3, <2>1
<1>9. CASE \E c \in Clients : ClientTask(c)
  BY <1>1, <1>9 DEF ClientTask, OfflineTimer, ReplaceSocket
<1>6. CASE PoolRun
  <2>1. UNCHANGED fMsgList
    BY <1>6 DEF PoolRun, RunLcs, RunConnect, RunTimeout, ConnectQueueStep,
       VisitOffline, VisitOnline, ConnectSucceeds, ConnectFails, HandshakeFails,
       LeaveQueue, OnlineStatus, OnlineTimer, WakeClient, FeedbackConnects,
       FeedbackFails, clientVars
  <2> QED
    BY <1>1, <2>1
<1>7. CASE Environment
  <2>1. UNCHANGED fMsgList
    BY <1>7 DEF Environment, OnResponse, NotifyQueryResult, PoolTimeout,
       OnNetDisconnect, OnTimeout, PeerCloses, PeerStalls,
       PeerReads, SockChanges, clientVars
  <2> QED
    BY <1>1, <2>1
<1>8. CASE UNCHANGED vars
  BY <1>8 DEF vars
<1> QED
  BY <1>4, <1>5, <1>6, <1>7, <1>8, <1>9 DEF Next

\* The pool implements the first-in first-out channel it promises: nothing is
\* reordered, duplicated or taken while the link is down.
THEOREM PoolIsChannel == Spec => ChannelSpec
  BY TypeInit, TypeStep, ChannelInit, ChannelStep, PTL
  DEF Spec, ChannelSpec, Channel!Spec
=============================================================================
