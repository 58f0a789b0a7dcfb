------------------------- MODULE MqttRegistry_proofs -------------------------
(***************************************************************************)
(* Theorems about the MQTT registry, for any sets of session objects,      *)
(* tokens and providers.                                                   *)
(***************************************************************************)
EXTENDS MqttRegistry, TLAPS

Named(s) == connectStatus[s] \in {"connected", "disconnecting"}

\* A session that got through its CONNECT has a token, a free address none.
NamedHasToken ==
  \A s \in Sessions :
    /\ Named(s) => clientId[s] \in Tokens
    /\ ~ Live(s) => clientId[s] = None

\* What a provider holds has got through its CONNECT.
HeldIsNamed ==
  \A p \in Providers :
    LET s == provider[p].session IN
    /\ s = None => provider[p] = Idle
    /\ s # None /\ s \notin abandoned => Named(s) /\ clientId[s] = provider[p].token

\* Only a session that got through its CONNECT has met an entry left behind.
ShadowedIsNamed == \A s \in shadowed : Named(s)

\* Two sessions with one token make it contested.
SharedIsContested ==
  \A r, s \in Sessions :
    r # s /\ clientId[r] = clientId[s] /\ clientId[s] # None
      => clientId[s] \in contested

IInv ==
  /\ TypeOK
  /\ NamedHasToken
  /\ HeldIsNamed
  /\ SharedIsContested
  /\ ShadowedIsNamed
  /\ EntryIsConnected
  /\ ConnectedIsReachable

USE RegistryAssumption

LEMMA InvInit == Init => IInv
<1> SUFFICES ASSUME Init PROVE IInv
  OBVIOUS
<1>1. TypeOK
  BY DEF Init, TypeOK, Idle
<1>2. NamedHasToken /\ SharedIsContested /\ ShadowedIsNamed /\ ConnectedIsReachable
  BY DEF Init, NamedHasToken, Named, SharedIsContested, ShadowedIsNamed, Live,
     ConnectedIsReachable
<1>3. HeldIsNamed /\ EntryIsConnected
  BY DEF Init, HeldIsNamed, EntryIsConnected, Idle
<1> QED
  BY <1>1, <1>2, <1>3 DEF IInv

\* What sending a packet may change.
LEMMA SendStep ==
  ASSUME TypeOK, NEW s \in Sessions, Send(s) \/ NoSend
  PROVE fMsgList' \in [Sessions -> 0 .. MaxQueue]
<1>1. CASE Send(s)
  BY <1>1 DEF Send, TypeOK
<1>2. CASE NoSend
  BY <1>2 DEF NoSend, TypeOK
<1> QED
  BY <1>1, <1>2

LEMMA RegistryTypes ==
  ASSUME TypeOK, NEW t \in Tokens \cup {None}
  PROVE /\ DeleteMqttSession(t) \in [Tokens -> Sessions \cup {None}]
        /\ t # None => \A s \in Sessions :
             AddMqttSession(t, s) \in [Tokens -> Sessions \cup {None}]
  BY DEF TypeOK, DeleteMqttSession, AddMqttSession

LEMMA AcceptStep ==
  ASSUME IInv, NEW s \in Sessions, Accept(s) PROVE IInv'
<1> USE DEF IInv, TypeOK, Accept, NoSend, Live, excuses
<1>1. TypeOK'
  OBVIOUS
<1>2. NamedHasToken' /\ HeldIsNamed'
  BY DEF NamedHasToken, HeldIsNamed, Named
<1>3. EntryIsConnected' /\ ConnectedIsReachable'
  BY DEF EntryIsConnected, ConnectedIsReachable
<1>4. SharedIsContested'
  BY DEF SharedIsContested
<1>5. ShadowedIsNamed'
  BY DEF ShadowedIsNamed, Named
<1> QED
  BY <1>1, <1>2, <1>3, <1>4, <1>5

\* CONNECT, with the outcome of the registration.
LEMMA ConnectStep ==
  ASSUME IInv, NEW s \in Sessions, NEW t \in Tokens, Connect(s, t) PROVE IInv'
<1> USE DEF IInv, Connect, TakeToken, Live
<1>1. TypeOK'
  <2>1. registry' \in [Tokens -> Sessions \cup {None}]
    BY RegistryTypes
  <2>2. fMsgList' \in [Sessions -> 0 .. MaxQueue]
    BY SendStep
  <2> QED
    BY <2>1, <2>2 DEF TypeOK
<1> USE DEF TypeOK
<1>2. NamedHasToken'
  BY DEF NamedHasToken, Named
<1>3. HeldIsNamed'
  BY DEF HeldIsNamed, Named
<1>4. SharedIsContested'
  BY DEF SharedIsContested, NamedHasToken
<1>5. EntryIsConnected'
  BY DEF EntryIsConnected, AddMqttSession
<1>6. ConnectedIsReachable'
  <2> SUFFICES ASSUME NEW r \in Sessions,
                      connectStatus'[r] = "connected", r \notin closing',
                      clientId'[r] \notin contested'
               PROVE registry'[clientId'[r]] = r <=> r \notin shadowed'
    BY DEF ConnectedIsReachable
  <2>1. CASE r = s
    <3>1. clientId'[s] = t /\ s \notin shadowed
      BY DEF ShadowedIsNamed, Named
    <3>2. registry[t] \notin {None, s} => LeftBehind(t)
      BY <2>1, <3>1 DEF LeftBehind
    <3>3. LeftBehind(t) => registry[t] \in Sessions
      BY DEF LeftBehind
    <3>4. s \in shadowed' <=> LeftBehind(t) /\ registry[t] # s
      BY <3>1
    <3>5. registry'[t] = s <=> registry[t] \in {None, s}
      BY DEF AddMqttSession
    <3> QED
      BY <2>1, <3>1, <3>2, <3>3, <3>4, <3>5
  <2>2. CASE r # s
    <3>1. /\ connectStatus[r] = "connected"
          /\ clientId'[r] = clientId[r]
          /\ clientId[r] \in Tokens
          /\ r \in shadowed' <=> r \in shadowed
      BY <2>2 DEF NamedHasToken, Named
    <3>2. clientId[r] # t
      BY <2>2, <3>1
    <3>3. registry'[clientId[r]] = registry[clientId[r]]
      BY <3>1, <3>2 DEF AddMqttSession
    <3>4. r \notin closing /\ clientId[r] \notin contested
      BY <2>2, <3>1
    <3> QED
      BY <3>1, <3>3, <3>4 DEF ConnectedIsReachable
  <2> QED
    BY <2>1, <2>2
<1>7. ShadowedIsNamed'
  BY DEF ShadowedIsNamed, Named
<1> QED
  BY <1>1, <1>2, <1>3, <1>4, <1>5, <1>6, <1>7

LEMMA RefusedStep ==
  ASSUME IInv, NEW s \in Sessions, NEW t \in Tokens \cup {None}, ConnectRefused(s, t)
  PROVE IInv'
<1> USE DEF IInv, ConnectRefused, ServerDisconnect, TakeToken, Live
<1>1. TypeOK'
  <2>1. registry' \in [Tokens -> Sessions \cup {None}]
    BY RegistryTypes
  <2>2. fMsgList' \in [Sessions -> 0 .. MaxQueue]
    BY SendStep
  <2> QED
    BY <2>1, <2>2 DEF TypeOK
<1> USE DEF TypeOK
<1>2. NamedHasToken' /\ HeldIsNamed'
  BY DEF NamedHasToken, HeldIsNamed, Named
<1>3. SharedIsContested'
  BY DEF SharedIsContested, NamedHasToken
<1>4. EntryIsConnected'
  BY DEF EntryIsConnected, DeleteMqttSession
<1>5. ConnectedIsReachable'
  <2> SUFFICES ASSUME NEW r \in Sessions,
                      connectStatus'[r] = "connected", r \notin closing',
                      clientId'[r] \notin contested'
               PROVE registry'[clientId'[r]] = r <=> r \notin shadowed'
    BY DEF ConnectedIsReachable
  <2>1. r # s /\ clientId[r] \in Tokens /\ (registry[clientId[r]] = r <=> r \notin shadowed)
    BY DEF ConnectedIsReachable, NamedHasToken, Named
  <2>2. clientId'[r] = clientId[r] /\ clientId[r] # t
    BY <2>1
  <2> QED
    BY <2>1, <2>2 DEF DeleteMqttSession
<1>6. ShadowedIsNamed'
  BY DEF ShadowedIsNamed, Named
<1> QED
  BY <1>1, <1>2, <1>3, <1>4, <1>5, <1>6

\* A session that is named takes its own entry away, nobody else's unless the
\* token is contested.
LEMMA EraseStep ==
  ASSUME IInv, NEW s \in Sessions, ConnectAgain(s) \/ Disconnect(s)
  PROVE IInv'
<1> USE DEF IInv, ConnectAgain, Disconnect, ServerDisconnect, NoSend, Live, excuses
<1>1. TypeOK'
  <2>1. registry' \in [Tokens -> Sessions \cup {None}]
    BY RegistryTypes DEF TypeOK
  <2> QED
    BY <2>1 DEF TypeOK
<1> USE DEF TypeOK
<1>2. NamedHasToken' /\ HeldIsNamed'
  BY DEF NamedHasToken, HeldIsNamed, Named
<1>3. SharedIsContested'
  BY DEF SharedIsContested
<1>4. EntryIsConnected'
  BY DEF EntryIsConnected, DeleteMqttSession
<1>5. ConnectedIsReachable'
  <2> SUFFICES ASSUME NEW r \in Sessions,
                      connectStatus'[r] = "connected", r \notin closing',
                      clientId'[r] \notin contested'
               PROVE registry'[clientId'[r]] = r <=> r \notin shadowed'
    BY DEF ConnectedIsReachable
  <2>1. r # s /\ clientId[r] \in Tokens /\ (registry[clientId[r]] = r <=> r \notin shadowed)
    BY DEF ConnectedIsReachable, NamedHasToken, Named
  <2>2. clientId[r] # clientId[s]
    BY <2>1 DEF SharedIsContested
  <2> QED
    BY <2>1, <2>2 DEF DeleteMqttSession
<1>6. ShadowedIsNamed'
  BY DEF ShadowedIsNamed, Named
<1> QED
  BY <1>1, <1>2, <1>3, <1>4, <1>5, <1>6

LEMMA OtherSessionStep ==
  ASSUME IInv, NEW s \in Sessions, PingReq(s) \/ WriteEvent(s) PROVE IInv'
<1> USE DEF IInv, PingReq, WriteEvent, Live, excuses
<1>1. TypeOK'
  <2>1. CASE PingReq(s)
    BY <2>1, SendStep DEF TypeOK
  <2>2. CASE WriteEvent(s)
    BY <2>2 DEF TypeOK
  <2> QED
    BY <2>1, <2>2
<1>2. NamedHasToken' /\ HeldIsNamed' /\ SharedIsContested' /\ ShadowedIsNamed'
  BY DEF NamedHasToken, HeldIsNamed, SharedIsContested, ShadowedIsNamed, Named
<1>3. EntryIsConnected' /\ ConnectedIsReachable'
  BY DEF EntryIsConnected, ConnectedIsReachable
<1> QED
  BY <1>1, <1>2, <1>3

LEMMA DeleteStep ==
  ASSUME IInv, NEW s \in Sessions, Delete(s) PROVE IInv'
<1> USE DEF IInv, TypeOK, Delete, Live
<1>1. TypeOK'
  OBVIOUS
<1>2. NamedHasToken' /\ SharedIsContested' /\ ShadowedIsNamed'
  BY DEF NamedHasToken, SharedIsContested, ShadowedIsNamed, Named
<1>3. HeldIsNamed'
  BY DEF HeldIsNamed, Named, Held
<1>4. EntryIsConnected'
  BY DEF EntryIsConnected, Held
<1>5. ConnectedIsReachable'
  BY DEF ConnectedIsReachable
<1> QED
  BY <1>1, <1>2, <1>3, <1>4, <1>5

LEMMA ProviderInvStep ==
  ASSUME IInv, NEW p \in Providers, ProviderStep(p) PROVE IInv'
<1> USE DEF IInv, Live, excuses
<1>1. ASSUME NEW t \in Tokens, Find(p, t) PROVE IInv'
  <2> USE <1>1 DEF Find, NoSend, FindMqttSession, Idle
  <2>1. TypeOK'
    BY DEF TypeOK
  <2> USE DEF TypeOK
  <2>2. HeldIsNamed'
    BY DEF HeldIsNamed, EntryIsConnected, Named
  <2>3. NamedHasToken' /\ SharedIsContested' /\ ShadowedIsNamed'
    BY DEF NamedHasToken, SharedIsContested, ShadowedIsNamed, Named
  <2>4. EntryIsConnected' /\ ConnectedIsReachable'
    BY DEF EntryIsConnected, ConnectedIsReachable
  <2> QED
    BY <2>1, <2>2, <2>3, <2>4
<1>2. CASE Publish(p)
  <2> USE <1>2 DEF Publish, Idle
  <2>1. TypeOK'
    <3>1. provider[p].session \in Sessions
      BY RegistryAssumption DEF TypeOK, HeldIsNamed
    <3> QED
      BY <3>1, SendStep DEF TypeOK
  <2> USE DEF TypeOK
  <2>2. HeldIsNamed'
    BY DEF HeldIsNamed, Named
  <2>3. NamedHasToken' /\ SharedIsContested' /\ ShadowedIsNamed'
    BY DEF NamedHasToken, SharedIsContested, ShadowedIsNamed, Named
  <2>4. EntryIsConnected' /\ ConnectedIsReachable'
    BY DEF EntryIsConnected, ConnectedIsReachable
  <2> QED
    BY <2>1, <2>2, <2>3, <2>4
<1>3. CASE PublishFreed(p)
  <2>1. CASE Init'
    BY <2>1, InvInit, PTL
  <2>2. CASE /\ provider' = [provider EXCEPT ![p] = Idle]
             /\ NoSend
             /\ UNCHANGED <<connectStatus, clientId, closing, registry, excuses>>
    <3> USE <2>2 DEF NoSend, Idle
    <3>1. TypeOK'
      BY DEF TypeOK
    <3> USE DEF TypeOK
    <3>2. HeldIsNamed'
      BY DEF HeldIsNamed, Named
    <3>3. NamedHasToken' /\ SharedIsContested' /\ ShadowedIsNamed'
      BY DEF NamedHasToken, SharedIsContested, ShadowedIsNamed, Named
    <3>4. EntryIsConnected' /\ ConnectedIsReachable'
      BY DEF EntryIsConnected, ConnectedIsReachable
    <3> QED
      BY <3>1, <3>2, <3>3, <3>4
  <2> QED
    BY <1>3, <2>1, <2>2 DEF PublishFreed, Init
<1> QED
  BY <1>1, <1>2, <1>3 DEF ProviderStep

LEMMA InvStep == IInv /\ [Next]_vars => IInv'
<1> SUFFICES ASSUME IInv, [Next]_vars PROVE IInv'
  OBVIOUS
<1>1. ASSUME NEW s \in Sessions, SessionStep(s) PROVE IInv'
  BY <1>1, AcceptStep, ConnectStep, RefusedStep, EraseStep, OtherSessionStep, DeleteStep
  DEF SessionStep
<1>2. ASSUME NEW p \in Providers, ProviderStep(p) PROVE IInv'
  BY <1>2, ProviderInvStep
<1>3. CASE UNCHANGED vars
  BY <1>3 DEF vars, IInv, TypeOK, NamedHasToken, HeldIsNamed, SharedIsContested,
     ShadowedIsNamed, EntryIsConnected, ConnectedIsReachable, Named, Live
<1> QED
  BY <1>1, <1>2, <1>3 DEF Next

LEMMA Invariance == Spec => []IInv
  BY InvInit, InvStep, PTL DEF Spec

\* Sessions, registry and providers stay within their types.
THEOREM TypeCorrect == Spec => []TypeOK
  BY Invariance, PTL DEF IInv

\* An entry leads to the session of its token, unless that was freed in use.
THEOREM EntriesCorrect == Spec => []EntryIsConnected
  BY Invariance, PTL DEF IInv

\* A provider writes to a session of the token it pushes to, unless the session
\* was freed in use.
THEOREM PushesReachOwner == Spec => []PushReachesOwner
<1>1. IInv => PushReachesOwner
  BY DEF IInv, HeldIsNamed, PushReachesOwner, Named, Live
<1> QED
  BY <1>1, Invariance, PTL

\* Nobody takes away the entry of a connected session that has its token alone:
\* such a session is reachable, or met the entry of a deleted session in its
\* CONNECT and then never will be (AddMqttSession, Delete).
THEOREM ReachableWhileConnected == Spec => []ConnectedIsReachable
  BY Invariance, PTL DEF IInv
=============================================================================
