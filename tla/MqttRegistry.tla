---------------------------- MODULE MqttRegistry ----------------------------
(***************************************************************************)
(* The MQTT side of the server: device sessions (MqttServer) register      *)
(* themselves in MqttSessionHandler under their token, and the sessions of *)
(* push providers (SslSvrSession) look a token up and write a PUBLISH to   *)
(* the session they find, each session on a task thread of its own.        *)
(*                                                                         *)
(* A session is named by the address of its object: once deleted, the same *)
(* address may be given to a new session. The base classes, the sockets    *)
(* and the timers are external. A call to the (unlocked) registry is one   *)
(* step: what overlapping calls do to the inside of its std::map is not    *)
(* modelled.                                                               *)
(***************************************************************************)
EXTENDS Naturals

CONSTANTS
  Sessions,    \* addresses of MqttServer objects
  Tokens,      \* device tokens: the user name, twice
  Providers,   \* provider sessions
  None,        \* no session, no token
  MaxQueue     \* bound: blocked packets a session keeps

ASSUME RegistryAssumption ==
  /\ None \notin Sessions \cup Tokens
  /\ MaxQueue \in Nat

VARIABLES
  connectStatus,  \* of every session; "freed" if there is none at the address
  clientId,       \* token a session has taken from a CONNECT
  closing,        \* sessions whose timer was set to one millisecond
  fMsgList,       \* number of packets a session keeps for a writeable socket
  registry,       \* m_mapMqttSession
  provider,       \* what each provider session is doing
  abandoned,      \* auxiliary: addresses that were freed while still in use
  contested,      \* auxiliary: tokens that two live sessions have held at once
  shadowed        \* auxiliary: sessions whose CONNECT met an entry that a deleted
                  \* session had left behind

excuses == <<abandoned, contested, shadowed>>
vars == <<connectStatus, clientId, closing, fMsgList, registry, provider,
          abandoned, contested, shadowed>>

Idle == [token |-> None, session |-> None]

TypeOK ==
  /\ connectStatus \in [Sessions -> {"freed", "new", "connected", "disconnecting"}]
  /\ clientId \in [Sessions -> Tokens \cup {None}]
  /\ closing \in SUBSET Sessions
  /\ fMsgList \in [Sessions -> 0 .. MaxQueue]
  /\ registry \in [Tokens -> Sessions \cup {None}]
  /\ provider \in [Providers -> [token : Tokens \cup {None},
                                 session : Sessions \cup {None}]]
  /\ abandoned \in SUBSET Sessions
  /\ contested \in SUBSET Tokens
  /\ shadowed \in SUBSET Sessions

Init ==
  /\ connectStatus = [s \in Sessions |-> "freed"]
  /\ clientId = [s \in Sessions |-> None]
  /\ closing = {}
  /\ fMsgList = [s \in Sessions |-> 0]
  /\ registry = [t \in Tokens |-> None]
  /\ provider = [p \in Providers |-> Idle]
  /\ abandoned = {}
  /\ contested = {}
  /\ shadowed = {}

-----------------------------------------------------------------------------
(* The registry, MqttSessionHandler.                                       *)

\* insert() leaves an entry that is already there alone.
AddMqttSession(t, s) ==
  IF registry[t] = None THEN [registry EXCEPT ![t] = s] ELSE registry

\* Mutant of DeleteMqttSession: nothing is erased.
DeleteNothing(t) == registry

\* erase(), whoever is registered under the token.
DeleteMqttSession(t) == [u \in Tokens |-> IF u = t THEN None ELSE registry[u]]

\* Mutant of FindMqttSession: some session, registered under any token.
FindAnySession(t) ==
  IF \E u \in Tokens : registry[u] # None
  THEN registry[CHOOSE u \in Tokens : registry[u] # None] ELSE None

FindMqttSession(t) == registry[t]

-----------------------------------------------------------------------------
(* Device sessions.                                                        *)

Live(s) == connectStatus[s] # "freed"

\* fSocket.Send writes the packet, or fails and the packet is listed.
Send(s) ==
  \/ UNCHANGED fMsgList
  \/ /\ fMsgList[s] < MaxQueue
     /\ fMsgList' = [fMsgList EXCEPT ![s] = @ + 1]

NoSend == UNCHANGED fMsgList

\* The listener creates a session at a free address.
Accept(s) ==
  /\ ~ Live(s)
  /\ connectStatus' = [connectStatus EXCEPT ![s] = "new"]
  /\ NoSend
  /\ UNCHANGED <<clientId, closing, registry, provider, excuses>>

\* Session s takes the token t.
TakeToken(s, t) ==
  /\ clientId' = [clientId EXCEPT ![s] = t]
  /\ contested' = contested \cup
       {u \in Tokens : u = t /\ \E r \in Sessions \ {s} : Live(r) /\ clientId[r] = u}

\* Mutant of ServerDisconnect: the session is not made to end.
DeleteOnly(s, t) ==
  /\ registry' = DeleteMqttSession(t)
  /\ UNCHANGED closing

\* mqtt_server_disconnect: erase the token, set the timer that leads to Delete.
ServerDisconnect(s, t) ==
  /\ registry' = DeleteMqttSession(t)
  /\ closing' = closing \cup {s}

\* The registry leads the token t to an address that is free, or was given away:
\* the session that registered has been deleted without its entry.
LeftBehind(t) ==
  registry[t] # None /\ ~ (Live(registry[t]) /\ clientId[registry[t]] = t)

\* CONNECT: the session is acknowledged whether or not it could be registered.
Connect(s, t) ==
  /\ connectStatus[s] = "new"
  /\ connectStatus' = [connectStatus EXCEPT ![s] = "connected"]
  /\ TakeToken(s, t)
  /\ closing' = closing \ {s}
  /\ registry' = AddMqttSession(t, s)
  /\ shadowed' = IF LeftBehind(t) /\ registry[t] # s THEN shadowed \cup {s} ELSE shadowed
  /\ Send(s)
  /\ UNCHANGED <<provider, abandoned>>

\* A CONNECT that is refused: before its name is read, or because the name
\* does not have sixteen characters. Whatever name the session has now is
\* erased from the registry; the session may try again until its timer fires.
ConnectRefused(s, t) ==
  /\ connectStatus[s] = "new"
  /\ TakeToken(s, t)
  /\ ServerDisconnect(s, t)
  /\ Send(s)
  /\ UNCHANGED <<connectStatus, provider, abandoned, shadowed>>

\* A second CONNECT is a protocol error.
ConnectAgain(s) ==
  /\ connectStatus[s] \in {"connected", "disconnecting"}
  /\ ServerDisconnect(s, clientId[s])
  /\ NoSend
  /\ UNCHANGED <<connectStatus, clientId, provider, excuses>>

Disconnect(s) ==
  /\ connectStatus[s] \in {"connected", "disconnecting"}
  /\ connectStatus' = [connectStatus EXCEPT ![s] = "disconnecting"]
  /\ ServerDisconnect(s, clientId[s])
  /\ NoSend
  /\ UNCHANGED <<clientId, provider, excuses>>

PingReq(s) ==
  /\ connectStatus[s] \in {"connected", "disconnecting"}
  /\ Send(s)
  /\ UNCHANGED <<connectStatus, clientId, closing, registry, provider, excuses>>

\* The socket is writeable again: the head of the list is removed. The call
\* that would send it is commented out.
WriteEvent(s) ==
  /\ Live(s)
  /\ fMsgList[s] > 0
  /\ fMsgList' = [fMsgList EXCEPT ![s] = @ - 1]
  /\ UNCHANGED <<connectStatus, clientId, closing, registry, provider, excuses>>

\* The registry or a provider has the address of s.
Held(s) ==
  \/ \E t \in Tokens : registry[t] = s
  \/ \E p \in Providers : provider[p].session = s

\* Timeout, kill, or the device has gone: Run returns -1 and the task is
\* deleted (fObjectHolders is never incremented). The registry is not told.
Delete(s) ==
  /\ Live(s)
  /\ connectStatus' = [connectStatus EXCEPT ![s] = "freed"]
  /\ clientId' = [clientId EXCEPT ![s] = None]
  /\ closing' = closing \ {s}
  /\ fMsgList' = [fMsgList EXCEPT ![s] = 0]
  /\ abandoned' = IF Held(s) THEN abandoned \cup {s} ELSE abandoned
  /\ shadowed' = shadowed \ {s}
  /\ UNCHANGED <<registry, provider, contested>>

-----------------------------------------------------------------------------
(* Provider sessions, PacketHandle.                                        *)

\* A message whose token is not registered is dropped.
Find(p, t) ==
  /\ provider[p] = Idle
  /\ provider' = [provider EXCEPT ![p] =
       IF FindMqttSession(t) = None THEN Idle
       ELSE [token |-> t, session |-> FindMqttSession(t)]]
  /\ NoSend
  /\ UNCHANGED <<connectStatus, clientId, closing, registry, excuses>>

Publish(p) ==
  /\ provider[p] # Idle
  /\ Live(provider[p].session)
  /\ Send(provider[p].session)
  /\ provider' = [provider EXCEPT ![p] = Idle]
  /\ UNCHANGED <<connectStatus, clientId, closing, registry, excuses>>

\* Publishing through a freed session: nothing visible happens, or the server
\* dies and begins anew (Supervisor).
PublishFreed(p) ==
  /\ provider[p] # Idle
  /\ ~ Live(provider[p].session)
  /\ \/ /\ provider' = [provider EXCEPT ![p] = Idle]
        /\ NoSend
        /\ UNCHANGED <<connectStatus, clientId, closing, registry, excuses>>
     \/ /\ connectStatus' = [s \in Sessions |-> "freed"]
        /\ clientId' = [s \in Sessions |-> None]
        /\ closing' = {}
        /\ fMsgList' = [s \in Sessions |-> 0]
        /\ registry' = [t \in Tokens |-> None]
        /\ provider' = [q \in Providers |-> Idle]
        /\ abandoned' = {}
        /\ contested' = {}
        /\ shadowed' = {}

-----------------------------------------------------------------------------
SessionStep(s) ==
  \/ Accept(s)
  \/ \E t \in Tokens : Connect(s, t)
  \/ \E t \in Tokens \cup {None} : ConnectRefused(s, t)
  \/ ConnectAgain(s)
  \/ Disconnect(s)
  \/ PingReq(s)
  \/ WriteEvent(s)
  \/ Delete(s)

ProviderStep(p) ==
  \/ \E t \in Tokens : Find(p, t)
  \/ Publish(p)
  \/ PublishFreed(p)

Next ==
  \/ \E s \in Sessions : SessionStep(s)
  \/ \E p \in Providers : ProviderStep(p)

Spec == Init /\ [][Next]_vars

-----------------------------------------------------------------------------
(* Properties.                                                             *)

\* An entry of the registry leads to a session that is connected under exactly
\* this token, unless its address was freed while it was in use: repeated and
\* refused CONNECTs and late DISCONNECTs never make an entry wrong (AddMqttSession,
\* DeleteMqttSession, mqtt_handle_connect).
EntryIsConnected ==
  \A t \in Tokens :
    LET s == registry[t] IN
    s # None /\ s \notin abandoned => connectStatus[s] = "connected" /\ clientId[s] = t

\* Between its lookup and its write a provider holds a session of the token it
\* pushes to, unless the session's address was freed meanwhile (PacketHandle).
PushReachesOwner ==
  \A p \in Providers :
    LET s == provider[p].session IN
    s # None /\ s \notin abandoned => Live(s) /\ clientId[s] = provider[p].token

\* A connected device is reachable under its token, as long as the server has
\* not decided to close it and no two live sessions have held the token at once:
\* no other CONNECT, DISCONNECT or end takes its entry away. But one that came
\* back while its dead session was still registered is acknowledged and not
\* reachable, now or later: insert() has left the old entry, and nothing ever
\* repairs it (AddMqttSession, Delete).
ConnectedIsReachable ==
  \A s \in Sessions :
    connectStatus[s] = "connected" /\ s \notin closing /\ clientId[s] \notin contested
      => (registry[clientId[s]] = s <=> s \notin shadowed)

\* "Only delete if it is ok to delete!": no session is deleted while someone is
\* holding a reference to it.
DeletedOnlyIfNotHeld ==
  [][\A s \in Sessions : Live(s) /\ ~ Live(s)' => ~ Held(s)]_vars
=============================================================================
