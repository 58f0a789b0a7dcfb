------------------------- MODULE AppSession_proofs -------------------------
(***************************************************************************)
(* Theorems about application sessions and their audit trail, for any sets *)
(* of sessions and applications, and any bounds.                           *)
(***************************************************************************)
EXTENDS AppSession, SequenceTheorems, FiniteSetTheorems, WellFoundedInduction, TLAPS

USE AppAssumption

-----------------------------------------------------------------------------
(* Types.                                                                  *)

ClockOK ==
  /\ now \in Times
  /\ received \in 0 .. MaxRequests

SessionOK ==
  /\ client_state \in [Sessions -> {"new", "connected", "disconnecting", "ended"}]
  /\ appid \in [Sessions -> Names]
  /\ receiveTime \in [Sessions -> Times]
  /\ request \in [Sessions -> Requests]

TrailOK ==
  /\ queries \in Seq(Queries)
  /\ messages \in Seq(MessageDoc)
  /\ connects \in Seq(ConnectDoc)

UsersOK == users \in [Keys -> SUBSET Numbers]

\* A request that is being handled has a number, and the name a connect gives
\* is that of an application: without this its queries have no type.
RequestOK ==
  \A s \in Sessions :
    request[s].cmd # "none" =>
      /\ request[s].nr \in Numbers
      /\ request[s].cmd \in {"connect", "record"} => request[s].app \in Apps

IInv == ClockOK /\ SessionOK /\ TrailOK /\ UsersOK /\ RequestOK

LEMMA TypeParts == IInv => TypeOK
  BY DEF IInv, TypeOK, ClockOK, SessionOK, TrailOK, UsersOK

LEMMA TypeInit == Init => IInv
<1> SUFFICES ASSUME Init PROVE IInv
  OBVIOUS
<1> USE DEF Init
<1>1. ClockOK
  BY DEF ClockOK, Times
<1>2. SessionOK
  BY DEF SessionOK, Names, Times, Requests, NoRequest
<1>3. TrailOK
  BY DEF TrailOK
<1>4. UsersOK
  BY DEF UsersOK
<1>5. RequestOK
  BY DEF RequestOK, NoRequest
<1> QED
  BY <1>1, <1>2, <1>3, <1>4, <1>5 DEF IInv

\* The queries that the handlers make are queries.
LEMMA QueryTypes ==
  ASSUME ClockOK, SessionOK, RequestOK, NEW s \in Sessions
  PROVE /\ UpdateConnectStatus(s) \in Queries
        /\ request[s].cmd # "none" =>
             \A app \in Names : UpdateMessage(s, app) \in Queries
        /\ request[s].cmd = "record" =>
             [op |-> "AddConnect",
              doc |-> [app |-> request[s].app, time |-> now, session |-> s,
                       open |-> TRUE]] \in Queries
<1> USE DEF ClockOK, SessionOK, RequestOK, Queries, Keys, Key
<1>1. UpdateConnectStatus(s) \in Queries
  BY DEF UpdateConnectStatus
<1>2. ASSUME request[s].cmd # "none", NEW app \in Names PROVE UpdateMessage(s, app) \in Queries
  BY <1>2 DEF UpdateMessage
<1>3. ASSUME request[s].cmd = "record"
      PROVE [app |-> request[s].app, time |-> now, session |-> s, open |-> TRUE]
              \in ConnectDoc
  BY <1>3 DEF ConnectDoc, Names
<1> QED
  BY <1>1, <1>2, <1>3

\* A request under a key leaves the sets of users sets of requests.
LEMMA UsesType ==
  ASSUME UsersOK, NEW k \in Keys, NEW n \in Numbers, Uses(k, n)
  PROVE UsersOK'
  BY DEF UsersOK, Uses

LEMMA ReceiveType ==
  ASSUME IInv, NEW s \in Sessions, NEW cmd \in Commands, NEW app \in Names,
         cmd = "connect" => app \in Apps, Receive(s, cmd, app)
  PROVE IInv'
<1> USE DEF IInv, Receive
<1>1. received + 1 \in Numbers /\ RecordedApp(s, cmd, app) \in Names
  BY DEF ClockOK, SessionOK, Numbers, RecordedApp
<1>2. ClockOK'
  BY DEF ClockOK
<1>3. SessionOK'
  BY <1>1 DEF SessionOK, ClockOK, Requests, Numbers, Commands
<1>4. TrailOK'
  <2> DEFINE doc == [app |-> RecordedApp(s, cmd, app), time |-> now, nr |-> received + 1,
                     by |-> 0]
  <2>1. doc \in MessageDoc
    BY <1>1 DEF MessageDoc, ClockOK
  <2>2. [op |-> "AddMessage", doc |-> doc] \in Queries
    BY <2>1 DEF Queries
  <2> QED
    BY <2>2 DEF TrailOK
<1>5. UsersOK'
  BY <1>1, UsesType DEF ClockOK, Keys, Key
<1>6. RequestOK'
  BY <1>1 DEF RequestOK, SessionOK, Commands
<1> QED
  BY <1>2, <1>3, <1>4, <1>5, <1>6

LEMMA ConnectType ==
  ASSUME IInv, NEW s \in Sessions, OnConnect(s)
  PROVE IInv'
<1> USE DEF IInv, OnConnect
<1>1. request[s].app \in Apps /\ request[s].app \in Names /\ request[s].nr \in Numbers
  BY DEF RequestOK, Names
<1>2. ClockOK'
  BY DEF ClockOK
<1>3. SessionOK'
  BY <1>1 DEF SessionOK, Requests
<1>4. TrailOK'
  <2>1. UpdateMessage(s, request[s].app) \in Queries
    BY <1>1, QueryTypes
  <2> QED
    BY <2>1 DEF TrailOK
<1>5. UsersOK'
  BY <1>1, UsesType DEF SessionOK, Keys, Key
<1>6. RequestOK'
  BY <1>1 DEF RequestOK, SessionOK, Requests
<1> QED
  BY <1>2, <1>3, <1>4, <1>5, <1>6

LEMMA RecordType ==
  ASSUME IInv, NEW s \in Sessions, AddConnectMessage(s)
  PROVE IInv'
<1> USE DEF IInv, AddConnectMessage, Done
<1>1. ClockOK' /\ UsersOK'
  BY DEF ClockOK, UsersOK
<1>2. SessionOK'
  BY DEF SessionOK, Requests, NoRequest, Names
<1>3. TrailOK'
  BY QueryTypes DEF TrailOK
<1>4. RequestOK'
  BY DEF RequestOK, NoRequest, SessionOK
<1> QED
  BY <1>1, <1>2, <1>3, <1>4

LEMMA ConcludesType ==
  ASSUME IInv, NEW s \in Sessions, request[s].cmd # "none", Concludes(s)
  PROVE IInv'
<1> USE DEF IInv, Concludes, Done
<1>1. request[s].nr \in Numbers /\ appid[s] \in Names
  BY DEF RequestOK, SessionOK
<1>2. ClockOK'
  BY DEF ClockOK
<1>3. SessionOK'
  BY DEF SessionOK, Requests, NoRequest, Names
<1>4. TrailOK'
  <2>1. UpdateMessage(s, appid[s]) \in Queries
    BY <1>1, QueryTypes
  <2> QED
    BY <2>1 DEF TrailOK
<1>5. UsersOK'
  BY <1>1, UsesType DEF SessionOK, Keys, Key
<1>6. RequestOK'
  BY DEF RequestOK, NoRequest, SessionOK
<1> QED
  BY <1>2, <1>3, <1>4, <1>5, <1>6

LEMMA DisconnType ==
  ASSUME IInv, NEW s \in Sessions, OnDisconn(s)
  PROVE IInv'
<1> USE DEF IInv, OnDisconn, Done
<1>1. request[s].nr \in Numbers /\ appid[s] \in Names
  BY DEF RequestOK, SessionOK
<1>2. ClockOK'
  BY DEF ClockOK
<1>3. SessionOK'
  BY DEF SessionOK, Requests, NoRequest, Names
<1>4. TrailOK'
  <2>1. UpdateConnectStatus(s) \in Queries /\ UpdateMessage(s, appid[s]) \in Queries
    BY <1>1, QueryTypes
  <2>2. <<UpdateConnectStatus(s), UpdateMessage(s, appid[s])>> \in Seq(Queries)
    BY <2>1
  <2> QED
    BY <2>2, ConcatProperties DEF TrailOK
<1>5. UsersOK'
  BY <1>1, UsesType DEF SessionOK, Keys, Key
<1>6. RequestOK'
  BY DEF RequestOK, NoRequest, SessionOK
<1> QED
  BY <1>2, <1>3, <1>4, <1>5, <1>6

LEMMA DisconnectType ==
  ASSUME IInv, NEW s \in Sessions, OnDisconnect(s)
  PROVE IInv'
<1> USE DEF IInv, OnDisconnect
<1>1. ClockOK' /\ UsersOK' /\ RequestOK'
  BY DEF ClockOK, UsersOK, RequestOK
<1>2. SessionOK'
  BY DEF SessionOK
<1>3. TrailOK'
  <2>1. UpdateConnectStatus(s) \in Queries
    BY QueryTypes
  <2>2. ClosingQueries(s) \in Seq(Queries)
    BY <2>1 DEF ClosingQueries
  <2>3. queries \o ClosingQueries(s) \in Seq(Queries)
    BY <2>2, ConcatProperties DEF TrailOK
  <2> QED
    BY <2>3 DEF TrailOK
<1> QED
  BY <1>1, <1>2, <1>3

\* A sequence in which one element is changed, if there is such an element.
LEMMA ExceptType ==
  ASSUME NEW S, NEW seq \in Seq(S), NEW i, NEW e, i \in 1 .. Len(seq) => e \in S
  PROVE [seq EXCEPT ![i] = e] \in Seq(S)
<1>1. CASE i \in 1 .. Len(seq)
  BY <1>1, ExceptSeq
<1>2. CASE i \notin 1 .. Len(seq)
  <2>1. [seq EXCEPT ![i] = e] = seq
    BY <1>2, LenProperties
  <2> QED
    BY <2>1
<1> QED
  BY <1>1, <1>2

LEMMA ExecuteType == IInv /\ ProcessExcute => IInv'
<1> SUFFICES ASSUME IInv, ProcessExcute PROVE IInv'
  OBVIOUS
<1> USE DEF IInv, ProcessExcute, sessionVars
<1> DEFINE q == Head(queries)
<1>1. ClockOK' /\ SessionOK' /\ UsersOK' /\ RequestOK'
  BY DEF ClockOK, SessionOK, UsersOK, RequestOK
<1>2. q \in Queries /\ queries' \in Seq(Queries)
  BY DEF TrailOK
<1>3. messages' \in Seq(MessageDoc)
  <2>1. CASE q.op = "AddMessage"
    <3>1. q.doc \in MessageDoc
      BY <1>2, <2>1 DEF Queries
    <3> QED
      BY <2>1, <3>1 DEF TrailOK
  <2>2. CASE q.op = "UpdateMessage"
    <3>1. q.nr \in 0 .. MaxRequests
      BY <1>2, <2>2 DEF Queries, Numbers
    <3>2. ASSUME NEW i PROVE [messages EXCEPT ![i].by = q.nr] \in Seq(MessageDoc)
      <4>1. ASSUME i \in 1 .. Len(messages)
            PROVE [messages[i] EXCEPT !.by = q.nr] \in MessageDoc
        <5>1. messages[i] \in MessageDoc
          BY <4>1, ElementOfSeq DEF TrailOK
        <5> QED
          BY <3>1, <5>1 DEF MessageDoc
      <4> QED
        BY <4>1, ExceptType DEF TrailOK
    <3>3. UpdatedMessages(q) \in Seq(MessageDoc)
      BY <3>2, Zenon DEF TrailOK, UpdatedMessages
    <3> QED
      BY <2>2, <3>3
  <2> QED
    BY <2>1, <2>2 DEF TrailOK
<1>4. connects' \in Seq(ConnectDoc)
  <2>1. CASE q.op = "AddConnect"
    <3>1. q.doc \in ConnectDoc
      BY <1>2, <2>1 DEF Queries
    <3> QED
      BY <2>1, <3>1 DEF TrailOK
  <2>2. CASE q.op = "UpdateConnect"
    <3>1. ASSUME NEW i PROVE [connects EXCEPT ![i].open = FALSE] \in Seq(ConnectDoc)
      <4>1. ASSUME i \in 1 .. Len(connects)
            PROVE [connects[i] EXCEPT !.open = FALSE] \in ConnectDoc
        <5>1. connects[i] \in ConnectDoc
          BY <4>1, ElementOfSeq DEF TrailOK
        <5> QED
          BY <5>1 DEF ConnectDoc
      <4> QED
        BY <4>1, ExceptType DEF TrailOK
    <3>2. UpdatedConnects(q) \in Seq(ConnectDoc)
      BY <3>1, Zenon DEF TrailOK, UpdatedConnects
    <3> QED
      BY <2>2, <3>2
  <2> QED
    BY <2>1, <2>2 DEF TrailOK
<1> QED
  BY <1>1, <1>2, <1>3, <1>4 DEF TrailOK

LEMMA TickType == IInv /\ Tick => IInv'
  BY DEF IInv, Tick, ClockOK, SessionOK, TrailOK, UsersOK, RequestOK, Times, sessionVars

\* The handlers that only conclude their request.
Concluding(s) ==
  \/ ConnectRefused(s)
  \/ OnPublish(s)
  \/ OnPingReq(s)
  \/ WrongState(s)
  \/ OnUndefinedCmd(s)
  \/ DisconnRefused(s)

LEMMA Conclusions ==
  ASSUME NEW s \in Sessions, Concluding(s)
  PROVE Concludes(s) /\ request[s].cmd \notin {"none", "record"}
  BY DEF Concluding, ConnectRefused, OnPublish, OnPingReq, WrongState, OnUndefinedCmd,
     DisconnRefused

\* The steps of a session, with those that conclude a request taken together.
LEMMA SessionSteps ==
  ASSUME NEW s \in Sessions, OnHttpRequest(s)
  PROVE \/ \E cmd \in Commands, app \in Names :
             (cmd = "connect" => app \in Apps) /\ Receive(s, cmd, app)
        \/ OnConnect(s)
        \/ AddConnectMessage(s)
        \/ OnDisconn(s)
        \/ Concluding(s)
  BY DEF OnHttpRequest, Concluding, Commands, Names

LEMMA InvStep == IInv /\ [Next]_vars => IInv'
<1> SUFFICES ASSUME IInv, [Next]_vars PROVE IInv'
  OBVIOUS
<1>1. ASSUME NEW s \in Sessions, OnHttpRequest(s) PROVE IInv'
  BY <1>1, SessionSteps, Conclusions, ReceiveType, ConnectType, RecordType, ConcludesType,
     DisconnType
<1>2. CASE UNCHANGED vars
  BY <1>2 DEF vars, IInv, ClockOK, SessionOK, TrailOK, UsersOK, RequestOK
<1> QED
  BY <1>1, <1>2, DisconnectType, ExecuteType, TickType DEF Next

LEMMA Invariance == Spec => []IInv
  BY TypeInit, InvStep, PTL DEF Spec

\* Every document and every query carries an application, a time and the number
\* of a request that was received (AddMessage, UpdateMessage, AddConnectMessage).
THEOREM TypeCorrect == Spec => []TypeOK
  BY Invariance, TypeParts, PTL

-----------------------------------------------------------------------------
(* What a step does to the lists of queries and documents.                 *)

\* The first of some documents is one of them.
LEMMA FirstIsOne ==
  ASSUME NEW S, S \subseteq Nat, S # {}
  PROVE Min(S) \in S
<1> DEFINE Less == OpToRel(<, Nat)
<1>1. \A y, x \in Nat : y < x => <<y, x>> \in Less
  BY DEF OpToRel
<1> HIDE DEF Less
<1>2. PICK x \in S : \A y \in S : ~ (<<y, x>> \in Less)
  BY NatLessThanWellFounded, WFMin DEF Less
<1>3. ASSUME NEW y \in S PROVE x <= y
  <2>1. x \in Nat /\ y \in Nat
    OBVIOUS
  <2>2. ~ (y < x)
    BY <1>1, <1>2, <2>1
  <2> QED
    BY <2>1, <2>2
<1> QED
  BY <1>2, <1>3 DEF Min

\* The handlers put queries behind those that wait and leave documents alone.
Adds(more) == queries' = queries \o more /\ connects' = connects

\* Queries that add no connect document of t change nothing for t.
LEMMA AddsOther ==
  ASSUME IInv, NEW t \in Sessions, NEW more \in Seq(Queries), Adds(more),
         \A i \in 1 .. Len(more) : ~ (more[i].op = "AddConnect" /\ more[i].doc.session = t)
  PROVE /\ Written(t)' = Written(t)
        /\ Waiting(t)' = Waiting(t)
        /\ \A i \in Waiting(t) : queries'[i] = queries[i]
<1>1. queries \in Seq(Queries)
  BY DEF IInv, TrailOK
<1>2. Written(t)' = Written(t)
  BY DEF Adds, Written
<1>3. /\ Len(queries') = Len(queries) + Len(more)
      /\ \A i \in 1 .. Len(queries) + Len(more) :
           queries'[i] = IF i <= Len(queries) THEN queries[i] ELSE more[i - Len(queries)]
  BY <1>1, ConcatProperties DEF Adds
<1>4. Len(queries) \in Nat /\ Len(more) \in Nat
  BY <1>1, LenProperties
<1>5. ASSUME NEW i \in 1 .. Len(queries) PROVE i \in 1 .. Len(queries') /\ queries'[i] = queries[i]
  BY <1>3, <1>4
<1>6. ASSUME NEW i \in 1 .. Len(queries'), i \notin 1 .. Len(queries)
      PROVE ~ (queries'[i].op = "AddConnect" /\ queries'[i].doc.session = t)
  <2>1. i - Len(queries) \in 1 .. Len(more) /\ queries'[i] = more[i - Len(queries)]
    BY <1>3, <1>4, <1>6
  <2> QED
    BY <2>1
<1>7. Waiting(t)' = Waiting(t)
  BY <1>5, <1>6, Zenon DEF Waiting
<1> QED
  BY <1>2, <1>5, <1>7 DEF Waiting

\* A single query of another kind is an instance of this.
LEMMA AddsOne ==
  ASSUME IInv, NEW t \in Sessions, NEW q \in Queries, q.op # "AddConnect",
         queries' = Append(queries, q), connects' = connects
  PROVE /\ Written(t)' = Written(t)
        /\ Waiting(t)' = Waiting(t)
        /\ \A i \in Waiting(t) : queries'[i] = queries[i]
<1> DEFINE more == <<q>>
<1>1. more \in Seq(Queries) /\ Adds(more)
  BY AppendIsConcat DEF IInv, TrailOK, Adds
<1>2. \A i \in 1 .. Len(more) : ~ (more[i].op = "AddConnect" /\ more[i].doc.session = t)
  OBVIOUS
<1> HIDE DEF more
<1> QED
  BY <1>1, <1>2, AddsOther

-----------------------------------------------------------------------------
(* Connect documents.                                                      *)

AtMostOne(s) ==
  /\ \A i, j \in Written(s) : i = j
  /\ \A i, j \in Waiting(s) : i = j
  /\ Written(s) = {} \/ Waiting(s) = {}

OwnName(s) ==
  /\ \A i \in Written(s) : connects[i].app = appid[s]
  /\ \A i \in Waiting(s) : queries[i].doc.app = appid[s]

\* A session that is new, or is only about to record its connect, has no connect
\* document: the property alone would not keep it from a second one.
Recorded(s) ==
  /\ AtMostOne(s)
  /\ OwnName(s)
  /\ client_state[s] = "new" \/ request[s].cmd = "record" =>
       Written(s) = {} /\ Waiting(s) = {}
  /\ request[s].cmd = "record" => client_state[s] # "new" /\ request[s].app = appid[s]

RecordInv == \A s \in Sessions : Recorded(s)

\* A step that adds nothing for t keeps what is recorded of it.
LEMMA Undisturbed ==
  ASSUME IInv, NEW t \in Sessions, Recorded(t), connects' = connects,
         Written(t)' = Written(t), Waiting(t)' = Waiting(t),
         \A i \in Waiting(t) : queries'[i] = queries[i],
         appid'[t] = appid[t],
         client_state'[t] = "new" => client_state[t] = "new",
         client_state[t] # "new" => client_state'[t] # "new",
         request'[t] = request[t] \/ request'[t].cmd # "record"
  PROVE Recorded(t)'
  BY DEF Recorded, AtMostOne, OwnName

LEMMA RecordReceive ==
  ASSUME IInv, RecordInv, NEW t \in Sessions, NEW s \in Sessions, NEW cmd \in Commands,
         NEW app \in Names, Receive(s, cmd, app)
  PROVE Recorded(t)'
<1> DEFINE doc == [app |-> RecordedApp(s, cmd, app), time |-> now, nr |-> received + 1,
                   by |-> 0]
           q == [op |-> "AddMessage", doc |-> doc]
<1>1. doc \in MessageDoc
  BY DEF IInv, ClockOK, SessionOK, MessageDoc, Numbers, RecordedApp, Receive
<1>2. q \in Queries /\ q.op = "AddMessage"
  BY <1>1 DEF Queries
<1>3. queries' = Append(queries, q) /\ connects' = connects
  BY DEF Receive
<1> HIDE DEF q
<1>4. /\ Written(t)' = Written(t)
      /\ Waiting(t)' = Waiting(t)
      /\ \A i \in Waiting(t) : queries'[i] = queries[i]
  BY <1>2, <1>3, AddsOne
<1>5. request'[t] = request[t] \/ request'[t].cmd # "record"
  BY DEF Receive, IInv, SessionOK, Commands
<1> QED
  BY <1>4, <1>5, Undisturbed DEF Receive, RecordInv

LEMMA RecordConnect ==
  ASSUME IInv, RecordInv, NEW t \in Sessions, NEW s \in Sessions, OnConnect(s)
  PROVE Recorded(t)'
<1> DEFINE q == UpdateMessage(s, request[s].app)
<1>1. q \in Queries /\ q.op = "UpdateMessage"
  BY QueryTypes DEF IInv, RequestOK, OnConnect, Names, UpdateMessage
<1>2. queries' = Append(queries, q) /\ connects' = connects
  BY DEF OnConnect
<1> HIDE DEF q
<1>3. /\ Written(t)' = Written(t)
      /\ Waiting(t)' = Waiting(t)
      /\ \A i \in Waiting(t) : queries'[i] = queries[i]
  BY <1>1, <1>2, AddsOne
<1>4. CASE t = s
  <2>1. Written(t) = {} /\ Waiting(t) = {}
    BY <1>4 DEF RecordInv, Recorded, OnConnect, AcceptsConnect
  <2>2. client_state'[t] = "connected" /\ appid'[t] = request[t].app /\ request'[t].app = request[t].app
    BY <1>4 DEF OnConnect, IInv, SessionOK, Requests
  <2> QED
    BY <1>3, <2>1, <2>2 DEF Recorded, AtMostOne, OwnName
<1>5. CASE t # s
  BY <1>3, <1>5, Undisturbed DEF OnConnect, RecordInv, IInv, SessionOK
<1> QED
  BY <1>4, <1>5

LEMMA RecordConcludes ==
  ASSUME IInv, RecordInv, NEW t \in Sessions, NEW s \in Sessions, request[s].cmd # "none",
         Concludes(s)
  PROVE Recorded(t)'
<1> DEFINE q == UpdateMessage(s, appid[s])
<1>1. q \in Queries /\ q.op = "UpdateMessage"
  BY QueryTypes DEF IInv, SessionOK, UpdateMessage
<1>2. queries' = Append(queries, q) /\ connects' = connects
  BY DEF Concludes
<1> HIDE DEF q
<1>3. /\ Written(t)' = Written(t)
      /\ Waiting(t)' = Waiting(t)
      /\ \A i \in Waiting(t) : queries'[i] = queries[i]
  BY <1>1, <1>2, AddsOne
<1>4. request'[t] = request[t] \/ request'[t].cmd # "record"
  BY DEF Concludes, Done, NoRequest, IInv, SessionOK
<1> QED
  BY <1>3, <1>4, Undisturbed DEF Concludes, RecordInv

LEMMA RecordRecord ==
  ASSUME IInv, RecordInv, NEW t \in Sessions, NEW s \in Sessions, AddConnectMessage(s)
  PROVE Recorded(t)'
<1> DEFINE doc == [app |-> request[s].app, time |-> now, session |-> s, open |-> TRUE]
           q == [op |-> "AddConnect", doc |-> doc]
<1>1. q \in Queries /\ q.op = "AddConnect" /\ q.doc.session = s /\ q.doc.app = request[s].app
  BY QueryTypes DEF IInv, AddConnectMessage
<1>2. queries' = Append(queries, q) /\ connects' = connects
  BY DEF AddConnectMessage
<1> HIDE DEF q
<1>3. /\ queries' \in Seq(Queries)
      /\ Len(queries') = Len(queries) + 1
      /\ Len(queries) \in Nat
      /\ \A i \in 1 .. Len(queries) : queries'[i] = queries[i]
      /\ queries'[Len(queries) + 1] = q
  BY <1>1, <1>2, AppendProperties, LenProperties DEF IInv, TrailOK
<1>4. CASE t = s
  <2>1. Written(t) = {} /\ Waiting(t) = {} /\ request[t].app = appid[t] /\ client_state[t] # "new"
    BY <1>4 DEF RecordInv, Recorded, AddConnectMessage
  <2>2. Written(t)' = {}
    BY <1>2, <2>1 DEF Written
  <2>3. ASSUME NEW i \in Waiting(t)' PROVE i = Len(queries) + 1
    BY <1>3, <2>1, <2>3 DEF Waiting
  <2>4. \A i \in Waiting(t)' : queries'[i].doc.app = appid[t]
    BY <1>1, <1>3, <1>4, <2>1, <2>3
  <2>5. request'[t].cmd # "record" /\ client_state' = client_state /\ appid' = appid
    BY <1>4 DEF AddConnectMessage, Done, NoRequest, IInv, SessionOK
  <2> QED
    BY <2>1, <2>2, <2>3, <2>4, <2>5 DEF Recorded, AtMostOne, OwnName
<1>5. CASE t # s
  <2>1. Written(t)' = Written(t)
    BY <1>2 DEF Written
  <2>2. Waiting(t)' = Waiting(t)
    BY <1>1, <1>3, <1>5 DEF Waiting
  <2>3. \A i \in Waiting(t) : queries'[i] = queries[i]
    BY <1>3 DEF Waiting
  <2> QED
    BY <1>2, <1>5, <2>1, <2>2, <2>3, Undisturbed
    DEF AddConnectMessage, Done, RecordInv, IInv, SessionOK
<1> QED
  BY <1>4, <1>5

LEMMA RecordDisconn ==
  ASSUME IInv, RecordInv, NEW t \in Sessions, NEW s \in Sessions, OnDisconn(s)
  PROVE Recorded(t)'
<1> DEFINE more == <<UpdateConnectStatus(s), UpdateMessage(s, appid[s])>>
<1>1. UpdateConnectStatus(s) \in Queries /\ UpdateMessage(s, appid[s]) \in Queries
  BY QueryTypes DEF IInv, SessionOK, OnDisconn
<1>2. more \in Seq(Queries) /\ Adds(more)
  BY <1>1 DEF OnDisconn, Adds
<1>3. \A i \in 1 .. Len(more) : more[i].op # "AddConnect"
  BY DEF UpdateConnectStatus, UpdateMessage
<1> HIDE DEF more
<1>4. /\ Written(t)' = Written(t)
      /\ Waiting(t)' = Waiting(t)
      /\ \A i \in Waiting(t) : queries'[i] = queries[i]
  BY <1>2, <1>3, AddsOther
<1>5. request'[t] = request[t] \/ request'[t].cmd # "record"
  BY DEF OnDisconn, Done, NoRequest, IInv, SessionOK
<1> QED
  BY <1>4, <1>5, Undisturbed DEF OnDisconn, RecordInv, IInv, SessionOK

LEMMA RecordDisconnect ==
  ASSUME IInv, RecordInv, NEW t \in Sessions, NEW s \in Sessions, OnDisconnect(s)
  PROVE Recorded(t)'
<1> DEFINE q == UpdateConnectStatus(s)
<1>1. q \in Queries /\ q.op # "AddConnect"
  BY QueryTypes DEF IInv, UpdateConnectStatus
<1>2. queries' \in {queries, Append(queries, q)} /\ connects' = connects
  BY <1>1, AppendIsConcat DEF OnDisconnect, ClosingQueries, IInv, TrailOK
<1> HIDE DEF q
<1>3. /\ Written(t)' = Written(t)
      /\ Waiting(t)' = Waiting(t)
      /\ \A i \in Waiting(t) : queries'[i] = queries[i]
  <2>1. CASE queries' = queries
    BY <1>2, <2>1 DEF Written, Waiting
  <2>2. CASE queries' = Append(queries, q)
    BY <1>1, <1>2, <2>2, AddsOne
  <2> QED
    BY <1>2, <2>1, <2>2
<1> QED
  BY <1>2, <1>3, Undisturbed DEF OnDisconnect, RecordInv, IInv, SessionOK

\* The query at the front goes; a connect document of t is then written rather
\* than waiting.
LEMMA RecordExecute ==
  ASSUME IInv, RecordInv, NEW t \in Sessions, ProcessExcute
  PROVE Recorded(t)'
<1> DEFINE q == Head(queries)
<1>1. /\ queries \in Seq(Queries) /\ queries # <<>> /\ queries' = Tail(queries)
      /\ connects \in Seq(ConnectDoc)
      /\ client_state' = client_state /\ appid' = appid /\ request' = request
  BY DEF IInv, TrailOK, ProcessExcute, sessionVars
<1>2. /\ q = queries[1] /\ q \in Queries
      /\ Len(queries) \in Nat \ {0} /\ Len(queries') = Len(queries) - 1
      /\ \A i \in 1 .. Len(queries') : queries'[i] = queries[i + 1]
  BY <1>1
<1>3. \A i : i \in Waiting(t)' <=> i \in Nat \ {0} /\ i + 1 \in Waiting(t)
  BY <1>2 DEF Waiting
<1>4. \A i \in Waiting(t)' : queries'[i] = queries[i + 1]
  BY <1>2 DEF Waiting
<1>5. Recorded(t)
  BY DEF RecordInv
<1>6. CASE q.op = "AddConnect" /\ q.doc.session = t
  <2>1. 1 \in Waiting(t) /\ q.doc \in ConnectDoc
    BY <1>2, <1>6 DEF Waiting, Queries
  <2>2. Written(t) = {} /\ Waiting(t) = {1} /\ q.doc.app = appid[t]
    BY <1>2, <1>5, <2>1 DEF Recorded, AtMostOne, OwnName
  <2>3. connects' = Append(connects, q.doc)
    BY <1>6 DEF ProcessExcute
  <2>4. /\ Len(connects') = Len(connects) + 1 /\ Len(connects) \in Nat
        /\ \A i \in 1 .. Len(connects) : connects'[i] = connects[i]
        /\ connects'[Len(connects) + 1] = q.doc
    BY <1>1, <2>1, <2>3, AppendProperties, LenProperties
  <2>5. Waiting(t)' = {}
    BY <1>3, <2>2
  <2>6. \A i \in Written(t)' : i = Len(connects) + 1
    BY <2>2, <2>4 DEF Written
  <2> QED
    BY <1>1, <1>5, <2>1, <2>2, <2>4, <2>5, <2>6 DEF Recorded, AtMostOne, OwnName
<1>7. CASE ~ (q.op = "AddConnect" /\ q.doc.session = t)
  <2>1. /\ Written(t)' = Written(t)
        /\ \A i \in Written(t) : connects'[i].app = connects[i].app
    <3>1. CASE q.op = "AddConnect"
      <4>1. connects' = Append(connects, q.doc) /\ q.doc \in ConnectDoc
        BY <1>2, <3>1 DEF ProcessExcute, Queries
      <4>2. /\ Len(connects') = Len(connects) + 1 /\ Len(connects) \in Nat
            /\ \A i \in 1 .. Len(connects) : connects'[i] = connects[i]
            /\ connects'[Len(connects) + 1] = q.doc
        BY <1>1, <4>1, AppendProperties, LenProperties
      <4> QED
        BY <1>7, <3>1, <4>2 DEF Written
    <3>2. CASE q.op = "UpdateConnect"
      <4>1. connects' = UpdatedConnects(q)
        BY <3>2 DEF ProcessExcute
      <4>2. \/ connects' = connects
            \/ \E m : connects' = [connects EXCEPT ![m].open = FALSE]
        BY <4>1, Zenon DEF UpdatedConnects
      <4>3. /\ Len(connects') = Len(connects)
            /\ \A i \in 1 .. Len(connects) : /\ connects'[i].app = connects[i].app
                                             /\ connects'[i].session = connects[i].session
        <5>1. ASSUME NEW m, connects' = [connects EXCEPT ![m].open = FALSE],
                     NEW i \in 1 .. Len(connects)
              PROVE /\ Len(connects') = Len(connects)
                    /\ connects'[i].app = connects[i].app
                    /\ connects'[i].session = connects[i].session
          <6>1. connects[i] \in ConnectDoc
            BY <1>1, ElementOfSeq
          <6> QED
            BY <1>1, <5>1, <6>1 DEF ConnectDoc
        <5> QED
          BY <1>1, <4>2, <5>1
      <4> QED
        BY <4>3 DEF Written
    <3>3. CASE q.op \notin {"AddConnect", "UpdateConnect"}
      BY <3>3 DEF ProcessExcute, Written
    <3> QED
      BY <3>1, <3>2, <3>3
  <2> QED
    BY <1>1, <1>3, <1>4, <1>5, <2>1 DEF Recorded, AtMostOne, OwnName, Waiting
<1> QED
  BY <1>6, <1>7

LEMMA RecordStep == IInv /\ RecordInv /\ [Next]_vars => RecordInv'
<1> SUFFICES ASSUME IInv, RecordInv, [Next]_vars, NEW t \in Sessions PROVE Recorded(t)'
  BY DEF RecordInv
<1>1. ASSUME NEW s \in Sessions, OnHttpRequest(s) PROVE Recorded(t)'
  BY <1>1, SessionSteps, Conclusions, RecordReceive, RecordConnect, RecordRecord,
     RecordConcludes, RecordDisconn
<1>2. CASE Tick \/ UNCHANGED vars
  <2>1. UNCHANGED <<client_state, appid, request, queries, connects>>
    BY <1>2 DEF Tick, vars, sessionVars
  <2>2. Written(t)' = Written(t) /\ Waiting(t)' = Waiting(t)
    BY <2>1 DEF Written, Waiting
  <2> QED
    BY <2>1, <2>2 DEF RecordInv, Recorded, AtMostOne, OwnName
<1> QED
  BY <1>1, <1>2, RecordDisconnect, RecordExecute DEF Next

\* A set whose elements are all the same has at most one.
LEMMA SmallSet ==
  ASSUME NEW S, \A x, y \in S : x = y
  PROVE Cardinality(S) \in 0 .. 1 /\ (S # {} => Cardinality(S) = 1)
<1>1. CASE S = {}
  BY <1>1, FS_EmptySet
<1>2. CASE S # {}
  <2>1. PICK x \in S : TRUE
    BY <1>2
  <2>2. S = {x}
    BY <2>1
  <2>3. Cardinality({x}) = 1
    BY FS_Singleton
  <2> QED
    BY <2>2, <2>3
<1> QED
  BY <1>1, <1>2

\* A session has at most one connect document, under its own application,
\* however its requests and the LCS interleave (OnConnect, AddConnectMessage).
THEOREM OneDocument == Spec => []OneConnectDocument
<1>1. Init => RecordInv
  BY DEF Init, RecordInv, Recorded, AtMostOne, OwnName, Written, Waiting, NoRequest
<1>2. RecordInv => OneConnectDocument
  <2> SUFFICES ASSUME RecordInv, NEW s \in Sessions
               PROVE /\ Cardinality(Written(s)) + Cardinality(Waiting(s)) <= 1
                     /\ OwnName(s)
    BY DEF OneConnectDocument, OwnName
  <2>1. AtMostOne(s) /\ OwnName(s)
    BY DEF RecordInv, Recorded
  <2>2. /\ Cardinality(Written(s)) \in 0 .. 1 /\ Cardinality(Waiting(s)) \in 0 .. 1
        /\ Written(s) = {} => Cardinality(Written(s)) = 0
        /\ Waiting(s) = {} => Cardinality(Waiting(s)) = 0
    BY <2>1, SmallSet, FS_EmptySet DEF AtMostOne
  <2> QED
    BY <2>1, <2>2 DEF AtMostOne
<1> QED
  BY <1>1, <1>2, RecordStep, Invariance, PTL DEF Spec

-----------------------------------------------------------------------------
(* Closing connect documents.                                              *)

\* Some session of the application has disconnected or ended.
HasLeft(app) ==
  \E s \in Sessions : appid[s] = app /\ client_state[s] \in {"disconnecting", "ended"}

\* The same after a step, of an application known before it.
WillHaveLeft(app) ==
  \E s \in Sessions : appid'[s] = app /\ client_state'[s] \in {"disconnecting", "ended"}

\* The property needs to be true of the queries that will close a document, and
\* that a document is open at first.
ClosingInv ==
  /\ \A i \in 1 .. Len(queries) :
       /\ queries[i].op = "UpdateConnect" => HasLeft(queries[i].key.app)
       /\ queries[i].op = "AddConnect" => queries[i].doc.open
  /\ \A i \in 1 .. Len(connects) : ~ connects[i].open => HasLeft(connects[i].app)

\* Who has left keeps his name and stays away.
LEMMA LeftForGood ==
  ASSUME IInv, [Next]_vars, NEW app, HasLeft(app)
  PROVE WillHaveLeft(app)
<1>1. PICK s \in Sessions : appid[s] = app /\ client_state[s] \in {"disconnecting", "ended"}
  BY DEF HasLeft
<1>2. appid'[s] = appid[s] /\ client_state'[s] \in {"disconnecting", "ended"}
  <2> USE DEF IInv, SessionOK
  <2>1. ASSUME NEW r \in Sessions, OnHttpRequest(r)
        PROVE appid'[s] = appid[s] /\ client_state'[s] \in {"disconnecting", "ended"}
    BY <1>1, <2>1, SessionSteps, Conclusions DEF Receive, OnConnect, AcceptsConnect,
       AddConnectMessage, OnDisconn, Concludes
  <2>2. ASSUME NEW r \in Sessions, OnDisconnect(r)
        PROVE appid'[s] = appid[s] /\ client_state'[s] \in {"disconnecting", "ended"}
    BY <1>1, <2>2 DEF OnDisconnect
  <2> QED
    BY <1>1, <2>1, <2>2 DEF Next, ProcessExcute, Tick, vars, sessionVars
<1> QED
  BY <1>1, <1>2 DEF WillHaveLeft

\* A step that only adds queries keeps ClosingInv if it holds of those.
LEMMA ClosingAdds ==
  ASSUME IInv, ClosingInv, [Next]_vars, NEW more \in Seq(Queries), Adds(more),
         \A i \in 1 .. Len(more) :
           /\ more[i].op = "UpdateConnect" => WillHaveLeft(more[i].key.app)
           /\ more[i].op = "AddConnect" => more[i].doc.open
  PROVE ClosingInv'
<1>1. queries \in Seq(Queries)
  BY DEF IInv, TrailOK
<1>2. /\ Len(queries') = Len(queries) + Len(more)
      /\ \A i \in 1 .. Len(queries) + Len(more) :
           queries'[i] = IF i <= Len(queries) THEN queries[i] ELSE more[i - Len(queries)]
  BY <1>1, ConcatProperties DEF Adds
<1>3. Len(queries) \in Nat /\ Len(more) \in Nat
  BY <1>1, LenProperties
<1>4. ASSUME NEW i \in 1 .. Len(queries')
      PROVE /\ queries'[i].op = "UpdateConnect" => WillHaveLeft(queries'[i].key.app)
            /\ queries'[i].op = "AddConnect" => queries'[i].doc.open
  <2>1. CASE i <= Len(queries)
    <3>1. queries'[i] = queries[i] /\ i \in 1 .. Len(queries)
      BY <1>2, <1>3, <2>1
    <3> QED
      BY <3>1, LeftForGood DEF ClosingInv
  <2>2. CASE ~ (i <= Len(queries))
    <3>1. queries'[i] = more[i - Len(queries)] /\ i - Len(queries) \in 1 .. Len(more)
      BY <1>2, <1>3, <2>2
    <3> QED
      BY <3>1
  <2> QED
    BY <2>1, <2>2
<1>5. \A i \in 1 .. Len(connects') : ~ connects'[i].open => WillHaveLeft(connects'[i].app)
  BY LeftForGood DEF ClosingInv, Adds
<1> QED
  BY <1>4, <1>5 DEF ClosingInv, HasLeft, WillHaveLeft

LEMMA ClosingHandlers ==
  ASSUME IInv, ClosingInv, [Next]_vars, NEW s \in Sessions, OnHttpRequest(s)
  PROVE ClosingInv'
<1>1. ASSUME NEW cmd \in Commands, NEW app \in Names, Receive(s, cmd, app) PROVE ClosingInv'
  <2> DEFINE doc == [app |-> RecordedApp(s, cmd, app), time |-> now, nr |-> received + 1,
                     by |-> 0]
             more == <<[op |-> "AddMessage", doc |-> doc]>>
  <2>1. doc \in MessageDoc
    BY <1>1 DEF IInv, ClockOK, SessionOK, MessageDoc, Numbers, RecordedApp, Receive
  <2>2. more \in Seq(Queries)
    BY <2>1 DEF Queries
  <2>3. Adds(more)
    BY <1>1, <2>2, AppendIsConcat DEF Receive, Adds, IInv, TrailOK
  <2>4. \A i \in 1 .. Len(more) : more[i].op = "AddMessage"
    OBVIOUS
  <2> HIDE DEF more
  <2> QED
    BY <2>2, <2>3, <2>4, ClosingAdds
<1>2. ASSUME OnConnect(s) \/ (request[s].cmd # "none" /\ Concludes(s)) PROVE ClosingInv'
  <2>1. PICK app \in Names : queries' = Append(queries, UpdateMessage(s, app))
    BY <1>2 DEF OnConnect, Concludes, IInv, SessionOK, RequestOK, Names
  <2> DEFINE more == <<UpdateMessage(s, app)>>
  <2>2. request[s].cmd # "none"
    BY <1>2 DEF OnConnect
  <2>3. UpdateMessage(s, app) \in Queries
    BY <2>2, QueryTypes DEF IInv
  <2>4. more \in Seq(Queries) /\ Adds(more)
    BY <1>2, <2>1, <2>3, AppendIsConcat DEF OnConnect, Concludes, Adds, IInv, TrailOK
  <2>5. \A i \in 1 .. Len(more) : more[i].op = "UpdateMessage"
    BY DEF UpdateMessage
  <2> HIDE DEF more
  <2> QED
    BY <2>4, <2>5, ClosingAdds
<1>3. ASSUME AddConnectMessage(s) PROVE ClosingInv'
  <2> DEFINE q == [op |-> "AddConnect",
                   doc |-> [app |-> request[s].app, time |-> now, session |-> s,
                            open |-> TRUE]]
             more == <<q>>
  <2>1. q \in Queries
    BY <1>3, QueryTypes DEF IInv, AddConnectMessage
  <2>2. queries' = Append(queries, q) /\ connects' = connects
    BY <1>3 DEF AddConnectMessage
  <2>3. q.op = "AddConnect" /\ q.doc.open
    OBVIOUS
  <2> HIDE DEF q
  <2>4. more \in Seq(Queries) /\ Adds(more)
    BY <2>1, <2>2, AppendIsConcat DEF Adds, IInv, TrailOK
  <2>5. \A i \in 1 .. Len(more) : more[i] = q
    OBVIOUS
  <2> HIDE DEF more
  <2> QED
    BY <2>3, <2>4, <2>5, ClosingAdds
<1>4. ASSUME OnDisconn(s) PROVE ClosingInv'
  <2> DEFINE more == <<UpdateConnectStatus(s), UpdateMessage(s, appid[s])>>
  <2>1. UpdateConnectStatus(s) \in Queries /\ UpdateMessage(s, appid[s]) \in Queries
    BY <1>4, QueryTypes DEF IInv, SessionOK, OnDisconn
  <2>2. more \in Seq(Queries)
    BY <2>1
  <2>3. Adds(more)
    BY <1>4 DEF OnDisconn, Adds
  <2>4. WillHaveLeft(appid[s])
    BY <1>4 DEF OnDisconn, WillHaveLeft, IInv, SessionOK
  <2>5. \A i \in 1 .. Len(more) :
          more[i].op \in {"UpdateConnect", "UpdateMessage"}
            /\ (more[i].op = "UpdateConnect" => more[i].key.app = appid[s])
    BY DEF UpdateConnectStatus, UpdateMessage, Key
  <2> HIDE DEF more
  <2> QED
    BY <2>2, <2>3, <2>4, <2>5, ClosingAdds
<1> QED
  BY <1>1, <1>2, <1>3, <1>4, SessionSteps, Conclusions

LEMMA ClosingDisconnect ==
  ASSUME IInv, ClosingInv, [Next]_vars, NEW s \in Sessions, OnDisconnect(s)
  PROVE ClosingInv'
<1>1. CASE queries' = queries
  BY <1>1, LeftForGood DEF ClosingInv, OnDisconnect, HasLeft, WillHaveLeft
<1>2. CASE queries' = queries \o ClosingQueries(s)
  <2> DEFINE more == ClosingQueries(s)
  <2>1. UpdateConnectStatus(s) \in Queries
    BY QueryTypes DEF IInv
  <2>2. more \in Seq(Queries) /\ Adds(more)
    BY <1>2, <2>1 DEF OnDisconnect, Adds, ClosingQueries
  <2>3. WillHaveLeft(appid[s])
    BY DEF OnDisconnect, WillHaveLeft, IInv, SessionOK
  <2>4. \A i \in 1 .. Len(more) : more[i].op = "UpdateConnect" /\ more[i].key.app = appid[s]
    BY DEF ClosingQueries, UpdateConnectStatus, Key
  <2> HIDE DEF more
  <2> QED
    BY <2>2, <2>3, <2>4, ClosingAdds
<1> QED
  BY <1>1, <1>2 DEF OnDisconnect

\* The document that is closed is one of the application in the query.
LEMMA ClosingExecute ==
  ASSUME IInv, ClosingInv, ProcessExcute
  PROVE ClosingInv'
<1> DEFINE q == Head(queries)
<1>1. /\ queries \in Seq(Queries) /\ queries # <<>> /\ queries' = Tail(queries)
      /\ connects \in Seq(ConnectDoc)
      /\ client_state' = client_state /\ appid' = appid
  BY DEF IInv, TrailOK, ProcessExcute, sessionVars
<1>2. /\ q = queries[1] /\ q \in Queries
      /\ Len(queries) \in Nat \ {0} /\ Len(queries') = Len(queries) - 1
      /\ \A i \in 1 .. Len(queries') : queries'[i] = queries[i + 1]
  BY <1>1
<1>3. \A app : HasLeft(app) => WillHaveLeft(app)
  BY <1>1 DEF HasLeft, WillHaveLeft
<1>4. ASSUME NEW i \in 1 .. Len(queries')
      PROVE /\ queries'[i].op = "UpdateConnect" => WillHaveLeft(queries'[i].key.app)
            /\ queries'[i].op = "AddConnect" => queries'[i].doc.open
  <2>1. i + 1 \in 1 .. Len(queries) /\ queries'[i] = queries[i + 1]
    BY <1>2
  <2> QED
    BY <1>3, <2>1 DEF ClosingInv
<1>5. /\ q.op = "UpdateConnect" => HasLeft(q.key.app)
      /\ q.op = "AddConnect" => q.doc.open
  <2>1. 1 \in 1 .. Len(queries)
    BY <1>2
  <2> QED
    BY <1>2, <2>1 DEF ClosingInv
<1>6. ASSUME NEW i \in 1 .. Len(connects'), ~ connects'[i].open
      PROVE WillHaveLeft(connects'[i].app)
  <2>1. CASE q.op = "AddConnect"
    <3>1. connects' = Append(connects, q.doc) /\ q.doc \in ConnectDoc
      BY <1>2, <2>1 DEF ProcessExcute, Queries
    <3>2. /\ Len(connects') = Len(connects) + 1 /\ Len(connects) \in Nat
          /\ \A j \in 1 .. Len(connects) : connects'[j] = connects[j]
          /\ connects'[Len(connects) + 1] = q.doc
      BY <1>1, <3>1, AppendProperties, LenProperties
    <3>3. i \in 1 .. Len(connects) /\ connects'[i] = connects[i]
      BY <1>5, <1>6, <2>1, <3>2
    <3> QED
      BY <1>3, <1>6, <3>3 DEF ClosingInv
  <2>2. CASE q.op = "UpdateConnect"
    <3> DEFINE found == {j \in DOMAIN connects :
                           /\ Key(connects[j].app, connects[j].time) = q.key
                           /\ connects[j].open}
    <3>1. connects' = IF found = {} THEN connects
                      ELSE [connects EXCEPT ![Min(found)].open = FALSE]
      BY <2>2 DEF ProcessExcute, UpdatedConnects
    <3>2. DOMAIN connects = 1 .. Len(connects) /\ Len(connects) \in Nat
      BY <1>1, LenProperties
    <3>3. CASE found = {}
      BY <1>3, <1>6, <3>1, <3>3 DEF ClosingInv
    <3>4. CASE found # {}
      <4>0. found \subseteq Nat
        BY <3>2
      <4>1. Min(found) \in found
        <5> HIDE DEF found
        <5> QED
          BY <3>4, <4>0, FirstIsOne
      <4> DEFINE m == Min(found)
      <4>2. connects' = [connects EXCEPT ![m].open = FALSE]
        BY <3>1, <3>4
      <4>3. m \in 1 .. Len(connects) /\ connects[m].app = q.key.app
        <5>1. m \in DOMAIN connects /\ Key(connects[m].app, connects[m].time) = q.key
          BY <4>1
        <5>2. Key(connects[m].app, connects[m].time).app = q.key.app
          BY <5>1
        <5>3. Key(connects[m].app, connects[m].time).app = connects[m].app
          BY DEF Key
        <5> QED
          BY <3>2, <5>1, <5>2, <5>3
      <4> HIDE DEF m, found
      <4>4. i \in 1 .. Len(connects) /\ connects[i] \in ConnectDoc
        BY <1>1, <1>6, <4>2, ElementOfSeq
      <4>5. connects'[i].app = connects[i].app /\ (i # m => connects'[i] = connects[i])
        BY <1>1, <4>2, <4>4 DEF ConnectDoc
      <4>6. CASE i = m
        BY <1>3, <1>5, <2>2, <4>3, <4>5, <4>6
      <4>7. CASE i # m
        BY <1>3, <1>6, <4>4, <4>5, <4>7 DEF ClosingInv
      <4> QED
        BY <4>6, <4>7
    <3> QED
      BY <3>3, <3>4
  <2>3. CASE q.op \notin {"AddConnect", "UpdateConnect"}
    <3>1. connects' = connects
      BY <2>3 DEF ProcessExcute
    <3> QED
      BY <1>3, <1>6, <3>1 DEF ClosingInv
  <2> QED
    BY <2>1, <2>2, <2>3
<1> QED
  BY <1>4, <1>6 DEF ClosingInv, HasLeft, WillHaveLeft

LEMMA ClosingStep == IInv /\ ClosingInv /\ [Next]_vars => ClosingInv'
<1> SUFFICES ASSUME IInv, ClosingInv, [Next]_vars PROVE ClosingInv'
  OBVIOUS
<1>1. CASE Tick \/ UNCHANGED vars
  <2>1. UNCHANGED <<client_state, appid, queries, connects>>
    BY <1>1 DEF Tick, vars, sessionVars
  <2> QED
    BY <2>1 DEF ClosingInv, HasLeft
<1> QED
  BY <1>1, ClosingHandlers, ClosingDisconnect, ClosingExecute DEF Next

\* A connect document is closed only after a session of its application has said
\* disconn or has ended, although it is found again by application and second
\* alone (UpdateConnectStatus).
THEOREM ClosedByOwn == Spec => []ClosedByItsApplication
<1>1. Init => ClosingInv
  BY DEF Init, ClosingInv
<1>2. IInv /\ ClosingInv => ClosedByItsApplication
  BY DEF ClosingInv, HasLeft, ClosedByItsApplication
<1> QED
  BY <1>1, <1>2, ClosingStep, Invariance, PTL DEF Spec

-----------------------------------------------------------------------------
(* Marking messages.                                                       *)

\* The requests that have used a key only become more.
Grows == \A k \in Keys : users[k] \subseteq users'[k]

\* A query about messages uses a key under which its request is known.
Known(q) ==
  /\ q.op = "AddMessage" => q.doc.nr \in users[Key(q.doc.app, q.doc.time)] /\ q.doc.by = 0
  /\ q.op = "UpdateMessage" => q.nr \in users[q.key]

KnownNext(q) ==
  /\ q.op = "AddMessage" => q.doc.nr \in users'[Key(q.doc.app, q.doc.time)] /\ q.doc.by = 0
  /\ q.op = "UpdateMessage" => q.nr \in users'[q.key]

\* A message, and whoever marked it, are known under its key: two requests that
\* do not share a key can then not mark each other's messages.
MarkInv ==
  /\ \A i \in 1 .. Len(queries) : Known(queries[i])
  /\ \A i \in 1 .. Len(messages) :
       LET d == messages[i] IN
       d.nr \in users[Key(d.app, d.time)] /\ d.by \in {0} \cup users[Key(d.app, d.time)]

\* The keys of queries and messages are keys.
LEMMA KnownStays ==
  ASSUME NEW q \in Queries, Grows, Known(q)
  PROVE KnownNext(q)
<1>1. ASSUME q.op = "AddMessage" PROVE Key(q.doc.app, q.doc.time) \in Keys
  BY <1>1 DEF Queries, MessageDoc, Keys, Key
<1>2. ASSUME q.op = "UpdateMessage" PROVE q.key \in Keys
  BY <1>2 DEF Queries
<1> QED
  BY <1>1, <1>2 DEF Known, KnownNext, Grows

LEMMA MessageStays ==
  ASSUME NEW d \in MessageDoc, Grows,
         d.nr \in users[Key(d.app, d.time)], d.by \in {0} \cup users[Key(d.app, d.time)]
  PROVE /\ d.nr \in users'[Key(d.app, d.time)]
        /\ d.by \in {0} \cup users'[Key(d.app, d.time)]
<1>1. Key(d.app, d.time) \in Keys
  BY DEF MessageDoc, Keys, Key
<1> QED
  BY <1>1 DEF Grows

\* A step that only adds a query, or none.
LEMMA MarkAdds ==
  ASSUME IInv, MarkInv, Grows, messages' = messages, NEW more \in Seq(Queries),
         queries' = queries \o more,
         \A i \in 1 .. Len(more) : KnownNext(more[i])
  PROVE MarkInv'
<1>1. queries \in Seq(Queries) /\ messages \in Seq(MessageDoc)
  BY DEF IInv, TrailOK
<1>2. /\ Len(queries') = Len(queries) + Len(more)
      /\ \A i \in 1 .. Len(queries) + Len(more) :
           queries'[i] = IF i <= Len(queries) THEN queries[i] ELSE more[i - Len(queries)]
  BY <1>1, ConcatProperties
<1>3. Len(queries) \in Nat /\ Len(more) \in Nat
  BY <1>1, LenProperties
<1>4. ASSUME NEW i \in 1 .. Len(queries') PROVE KnownNext(queries'[i])
  <2>1. CASE i <= Len(queries)
    <3>1. queries'[i] = queries[i] /\ i \in 1 .. Len(queries)
      BY <1>2, <1>3, <2>1
    <3>2. queries[i] \in Queries /\ Known(queries[i])
      BY <1>1, <3>1, ElementOfSeq DEF MarkInv
    <3> QED
      BY <3>1, <3>2, KnownStays
  <2>2. CASE ~ (i <= Len(queries))
    <3>1. queries'[i] = more[i - Len(queries)] /\ i - Len(queries) \in 1 .. Len(more)
      BY <1>2, <1>3, <2>2
    <3> QED
      BY <3>1
  <2> QED
    BY <2>1, <2>2
<1>5. ASSUME NEW i \in 1 .. Len(messages')
      PROVE LET d == messages'[i] IN
            d.nr \in users'[Key(d.app, d.time)] /\ d.by \in {0} \cup users'[Key(d.app, d.time)]
  <2>1. messages[i] \in MessageDoc
    BY <1>1, <1>5, ElementOfSeq
  <2> QED
    BY <2>1, MessageStays DEF MarkInv
<1> QED
  BY <1>4, <1>5 DEF MarkInv, Known, KnownNext

\* A request that uses a key is known under it afterwards.
LEMMA UsesGrows ==
  ASSUME UsersOK, NEW k \in Keys, NEW n, Uses(k, n)
  PROVE Grows /\ n \in users'[k]
  BY DEF UsersOK, Uses, Grows

LEMMA MarkHandlers ==
  ASSUME IInv, MarkInv, NEW s \in Sessions, OnHttpRequest(s)
  PROVE MarkInv'
<1>1. ASSUME NEW cmd \in Commands, NEW app \in Names, Receive(s, cmd, app) PROVE MarkInv'
  <2> DEFINE doc == [app |-> RecordedApp(s, cmd, app), time |-> now, nr |-> received + 1,
                     by |-> 0]
             q == [op |-> "AddMessage", doc |-> doc]
             more == <<q>>
  <2>1. doc \in MessageDoc
    BY <1>1 DEF IInv, ClockOK, SessionOK, MessageDoc, Numbers, RecordedApp, Receive
  <2>2. q \in Queries
    BY <2>1 DEF Queries
  <2>3. Key(doc.app, doc.time) \in Keys /\ Uses(Key(doc.app, doc.time), doc.nr)
    BY <1>1, <2>1 DEF Receive, MessageDoc, Keys, Key
  <2>4. Grows /\ doc.nr \in users'[Key(doc.app, doc.time)]
    BY <2>3, UsesGrows DEF IInv
  <2>5. KnownNext(q)
    BY <2>4 DEF KnownNext
  <2>6. queries' = Append(queries, q) /\ messages' = messages
    BY <1>1 DEF Receive
  <2> HIDE DEF q
  <2>7. more \in Seq(Queries) /\ queries' = queries \o more
    BY <2>2, <2>6, AppendIsConcat DEF IInv, TrailOK
  <2>8. \A i \in 1 .. Len(more) : more[i] = q
    OBVIOUS
  <2> HIDE DEF more
  <2> QED
    BY <2>4, <2>5, <2>6, <2>7, <2>8, MarkAdds
<1>2. ASSUME OnConnect(s) \/ (request[s].cmd # "none" /\ Concludes(s)) PROVE MarkInv'
  <2>1. request[s].cmd # "none"
    BY <1>2 DEF OnConnect
  <2>2. PICK app \in Names : /\ queries' = Append(queries, UpdateMessage(s, app))
                             /\ Uses(Key(app, receiveTime[s]), request[s].nr)
    BY <1>2 DEF OnConnect, Concludes, IInv, SessionOK, RequestOK, Names
  <2> DEFINE q == UpdateMessage(s, app)
             more == <<q>>
  <2>3. q \in Queries
    BY <2>1, QueryTypes DEF IInv
  <2>4. Key(app, receiveTime[s]) \in Keys
    BY DEF IInv, SessionOK, Keys, Key
  <2>5. Grows /\ request[s].nr \in users'[Key(app, receiveTime[s])]
    BY <2>2, <2>4, UsesGrows DEF IInv
  <2>6. KnownNext(q)
    BY <2>5 DEF KnownNext, UpdateMessage
  <2>7. messages' = messages
    BY <1>2 DEF OnConnect, Concludes
  <2> HIDE DEF q
  <2>8. more \in Seq(Queries) /\ queries' = queries \o more
    BY <2>2, <2>3, AppendIsConcat DEF q, IInv, TrailOK
  <2>9. \A i \in 1 .. Len(more) : more[i] = q
    OBVIOUS
  <2> HIDE DEF more
  <2> QED
    BY <2>5, <2>6, <2>7, <2>8, <2>9, MarkAdds
<1>3. ASSUME AddConnectMessage(s) PROVE MarkInv'
  <2> DEFINE q == [op |-> "AddConnect",
                   doc |-> [app |-> request[s].app, time |-> now, session |-> s,
                            open |-> TRUE]]
             more == <<q>>
  <2>1. q \in Queries
    BY <1>3, QueryTypes DEF IInv, AddConnectMessage
  <2>2. queries' = Append(queries, q) /\ messages' = messages /\ Grows
    BY <1>3 DEF AddConnectMessage, Grows
  <2>3. KnownNext(q)
    BY DEF KnownNext
  <2> HIDE DEF q
  <2>4. more \in Seq(Queries) /\ queries' = queries \o more
    BY <2>1, <2>2, AppendIsConcat DEF IInv, TrailOK
  <2>5. \A i \in 1 .. Len(more) : more[i] = q
    OBVIOUS
  <2> HIDE DEF more
  <2> QED
    BY <2>2, <2>3, <2>4, <2>5, MarkAdds
<1>4. ASSUME OnDisconn(s) PROVE MarkInv'
  <2> DEFINE q == UpdateMessage(s, appid[s])
             c == UpdateConnectStatus(s)
             more == <<c, q>>
  <2>1. c \in Queries /\ q \in Queries
    BY <1>4, QueryTypes DEF IInv, SessionOK, OnDisconn
  <2>2. Key(appid[s], receiveTime[s]) \in Keys
    BY DEF IInv, SessionOK, Keys, Key
  <2>3. Grows /\ request[s].nr \in users'[Key(appid[s], receiveTime[s])]
    BY <1>4, <2>2, UsesGrows DEF IInv, OnDisconn
  <2>4. KnownNext(q) /\ KnownNext(c)
    BY <2>3 DEF KnownNext, UpdateMessage, UpdateConnectStatus
  <2>5. queries' = queries \o more /\ messages' = messages
    BY <1>4 DEF OnDisconn
  <2> HIDE DEF q, c
  <2>6. more \in Seq(Queries)
    BY <2>1
  <2>7. \A i \in 1 .. Len(more) : more[i] \in {q, c}
    OBVIOUS
  <2> HIDE DEF more
  <2> QED
    BY <2>3, <2>4, <2>5, <2>6, <2>7, MarkAdds
<1> QED
  BY <1>1, <1>2, <1>3, <1>4, SessionSteps, Conclusions

LEMMA MarkDisconnect ==
  ASSUME IInv, MarkInv, NEW s \in Sessions, OnDisconnect(s)
  PROVE MarkInv'
<1>1. CASE queries' = queries
  BY <1>1 DEF OnDisconnect, MarkInv, Known
<1>2. CASE queries' = queries \o ClosingQueries(s)
  <2> DEFINE more == ClosingQueries(s)
  <2>1. UpdateConnectStatus(s) \in Queries
    BY QueryTypes DEF IInv
  <2>2. more \in Seq(Queries)
    BY <2>1 DEF ClosingQueries
  <2>3. \A i \in 1 .. Len(more) : more[i].op = "UpdateConnect"
    BY DEF ClosingQueries, UpdateConnectStatus
  <2>4. queries' = queries \o more /\ messages' = messages /\ Grows
    BY <1>2 DEF OnDisconnect, Grows
  <2> HIDE DEF more
  <2> QED
    BY <2>2, <2>3, <2>4, MarkAdds DEF KnownNext
<1> QED
  BY <1>1, <1>2 DEF OnDisconnect

\* An update marks a message of the key it names.
LEMMA MarkExecute ==
  ASSUME IInv, MarkInv, ProcessExcute
  PROVE MarkInv'
<1> DEFINE q == Head(queries)
           Fits(d) == /\ d.nr \in users[Key(d.app, d.time)]
                      /\ d.by \in {0} \cup users[Key(d.app, d.time)]
<1>1. /\ queries \in Seq(Queries) /\ queries # <<>> /\ queries' = Tail(queries)
      /\ messages \in Seq(MessageDoc)
      /\ users' = users
  BY DEF IInv, TrailOK, ProcessExcute
<1>2. /\ q = queries[1] /\ q \in Queries
      /\ Len(queries) \in Nat \ {0} /\ Len(queries') = Len(queries) - 1
      /\ \A i \in 1 .. Len(queries') : queries'[i] = queries[i + 1]
  BY <1>1
<1>3. ASSUME NEW i \in 1 .. Len(queries') PROVE Known(queries'[i])
  <2>1. i + 1 \in 1 .. Len(queries) /\ queries'[i] = queries[i + 1]
    BY <1>2
  <2> QED
    BY <2>1 DEF MarkInv
<1>4. Known(q)
  <2>1. 1 \in 1 .. Len(queries)
    BY <1>2
  <2> QED
    BY <1>2, <2>1 DEF MarkInv
<1>5. \A i \in 1 .. Len(messages) : Fits(messages[i])
  BY DEF MarkInv
<1>6. ASSUME NEW i \in 1 .. Len(messages') PROVE Fits(messages'[i])
  <2>1. CASE q.op = "AddMessage"
    <3>1. messages' = Append(messages, q.doc) /\ q.doc \in MessageDoc
      BY <1>2, <2>1 DEF ProcessExcute, Queries
    <3>2. /\ Len(messages') = Len(messages) + 1 /\ Len(messages) \in Nat
          /\ \A j \in 1 .. Len(messages) : messages'[j] = messages[j]
          /\ messages'[Len(messages) + 1] = q.doc
      BY <1>1, <3>1, AppendProperties, LenProperties
    <3>3. Fits(q.doc)
      BY <1>4, <2>1 DEF Known
    <3>4. CASE i \in 1 .. Len(messages)
      BY <1>5, <3>2, <3>4
    <3>5. CASE i = Len(messages) + 1
      BY <3>2, <3>3, <3>5
    <3> QED
      BY <3>2, <3>4, <3>5
  <2>2. CASE q.op = "UpdateMessage"
    <3> DEFINE found == {j \in DOMAIN messages : Open(messages[j], q.key)}
    <3>1. messages' = IF found = {} THEN messages
                      ELSE [messages EXCEPT ![Min(found)].by = q.nr]
      BY <2>2 DEF ProcessExcute, UpdatedMessages
    <3>2. DOMAIN messages = 1 .. Len(messages) /\ Len(messages) \in Nat
      BY <1>1, LenProperties
    <3>3. CASE found = {}
      BY <1>5, <3>1, <3>3
    <3>4. CASE found # {}
      <4>1. found \subseteq Nat
        BY <3>2
      <4>2. Min(found) \in found
        <5> HIDE DEF found
        <5> QED
          BY <3>4, <4>1, FirstIsOne
      <4> DEFINE m == Min(found)
      <4>3. messages' = [messages EXCEPT ![m].by = q.nr]
        BY <3>1, <3>4
      <4>4. Key(messages[m].app, messages[m].time) = q.key
        BY <4>2 DEF Open
      <4> HIDE DEF m, found
      <4>5. i \in 1 .. Len(messages) /\ messages[i] \in MessageDoc
        BY <1>1, <1>6, <4>3, ElementOfSeq
      <4>6. CASE i = m
        <5>1. /\ messages'[i].app = messages[i].app /\ messages'[i].time = messages[i].time
              /\ messages'[i].nr = messages[i].nr /\ messages'[i].by = q.nr
          BY <1>1, <4>3, <4>5, <4>6 DEF MessageDoc
        <5>2. Key(messages'[i].app, messages'[i].time) = q.key
          BY <4>4, <4>6, <5>1
        <5>3. messages'[i].nr \in users[q.key]
          BY <1>5, <4>4, <4>5, <4>6, <5>1
        <5>4. q.nr \in users[q.key]
          BY <1>4, <2>2 DEF Known
        <5> QED
          BY <5>1, <5>2, <5>3, <5>4
      <4>7. CASE i # m
        BY <1>1, <1>5, <4>3, <4>5, <4>7
      <4> QED
        BY <4>6, <4>7
    <3> QED
      BY <3>3, <3>4
  <2>3. CASE q.op \notin {"AddMessage", "UpdateMessage"}
    <3>1. messages' = messages
      BY <2>3 DEF ProcessExcute
    <3> QED
      BY <1>5, <1>6, <3>1
  <2> QED
    BY <2>1, <2>2, <2>3
<1> QED
  BY <1>1, <1>3, <1>6 DEF MarkInv, Known

LEMMA MarkStep == IInv /\ MarkInv /\ [Next]_vars => MarkInv'
<1> SUFFICES ASSUME IInv, MarkInv, [Next]_vars PROVE MarkInv'
  OBVIOUS
<1>1. CASE Tick \/ UNCHANGED vars
  <2>1. UNCHANGED <<users, queries, messages>>
    BY <1>1 DEF Tick, vars
  <2> QED
    BY <2>1 DEF MarkInv, Known
<1> QED
  BY <1>1, MarkHandlers, MarkDisconnect, MarkExecute DEF Next

\* A message is marked by the handler of its own request, unless another request
\* shares its application and second (AddMessage, UpdateMessage).
THEOREM MarkedByOwn == Spec => []MarkedByOwnRequest
<1>1. Init => MarkInv
  BY DEF Init, MarkInv
<1>2. MarkInv => MarkedByOwnRequest
  <2> SUFFICES ASSUME MarkInv, NEW i \in 1 .. Len(messages),
                      users[Key(messages[i].app, messages[i].time)] = {messages[i].nr}
               PROVE messages[i].by \in {0, messages[i].nr}
    BY DEF MarkedByOwnRequest
  <2> QED
    BY DEF MarkInv
<1> QED
  BY <1>1, <1>2, MarkStep, Invariance, PTL DEF Spec

-----------------------------------------------------------------------------
(* Settling the trail.                                                     *)

AddsAt(i, n) == queries[i].op = "AddMessage" /\ queries[i].doc.nr = n

UpdatesAt(i, n) == queries[i].op = "UpdateMessage" /\ queries[i].nr = n

\* s is going to update for the request n.
Handles(s, n) == request[s].cmd \notin {"none", "record"} /\ request[s].nr = n

\* The update of the request n is still to be executed.
Pending(n) ==
  \/ \E s \in Sessions : Handles(s, n)
  \/ \E i \in 1 .. Len(queries) : UpdatesAt(i, n)

\* Every document has a number of its own, and is added before its update.
NumberInv ==
  /\ \A s \in Sessions : request[s].nr <= received
  /\ \A i \in 1 .. Len(messages) : messages[i].nr <= received
  /\ \A i \in 1 .. Len(queries), n \in Numbers :
       AddsAt(i, n) =>
         /\ n <= received
         /\ \A j \in 1 .. Len(messages) : messages[j].nr # n
         /\ \A j \in 1 .. Len(queries) : AddsAt(j, n) => i = j
         /\ \/ \E s \in Sessions : Handles(s, n)
            \/ \E j \in 1 .. Len(queries) : i < j /\ UpdatesAt(j, n)

Docs(k) == {i \in 1 .. Len(messages) : Key(messages[i].app, messages[i].time) = k}

Unmarked(k) == {i \in Docs(k) : messages[i].by = 0}

\* The requests with a document under k whose update is still to come, or may
\* have been meant for another key.
Awaiting(k) ==
  {n \in Numbers : /\ \E i \in Docs(k) : messages[i].nr = n
                   /\ Pending(n) \/ Strayed(n)}

\* An update may mark the document of another request, so that it is not a
\* document that waits for its update: but there are never more of the ones
\* than of the others.
CountInv == \A k \in Keys : Cardinality(Unmarked(k)) <= Cardinality(Awaiting(k))

\* What a session does: more queries, of which one may add the document of a
\* new request, and an update for every request it has dealt with.
Deals(more) ==
  /\ queries' = queries \o more
  /\ messages' = messages
  /\ Grows
  /\ received' \in Nat /\ received <= received'
  /\ \A s \in Sessions : request'[s].nr <= received'
  /\ \A i \in 1 .. Len(more) :
       more[i].op = "AddMessage" =>
         /\ Len(more) = 1
         /\ more[i].doc.nr = received + 1 /\ received' = received + 1
         /\ \E s \in Sessions : Handles(s, received)'
  /\ \A s \in Sessions, n \in Numbers :
       Handles(s, n) => \/ Handles(s, n)'
                        \/ \E i \in 1 .. Len(more) :
                             more[i].op = "UpdateMessage" /\ more[i].nr = n

\* The queries that are there stay in place, the new ones come behind them.
LEMMA QueriesBehind ==
  ASSUME IInv, NEW more \in Seq(Queries), queries' = queries \o more
  PROVE /\ Len(queries) \in Nat /\ Len(more) \in Nat
        /\ Len(queries') = Len(queries) + Len(more)
        /\ \A i \in 1 .. Len(queries) : i \in 1 .. Len(queries') /\ queries'[i] = queries[i]
        /\ \A i \in 1 .. Len(more) : /\ Len(queries) + i \in 1 .. Len(queries')
                                     /\ queries'[Len(queries) + i] = more[i]
        /\ \A i \in 1 .. Len(queries') :
             i \in 1 .. Len(queries) \/ i - Len(queries) \in 1 .. Len(more)
<1>1. queries \in Seq(Queries)
  BY DEF IInv, TrailOK
<1>2. Len(queries) \in Nat /\ Len(more) \in Nat
  BY <1>1, LenProperties
<1>3. /\ Len(queries') = Len(queries) + Len(more)
      /\ \A i \in 1 .. Len(queries) + Len(more) :
           queries'[i] = IF i <= Len(queries) THEN queries[i] ELSE more[i - Len(queries)]
  BY <1>1, ConcatProperties
<1>4. ASSUME NEW i \in 1 .. Len(queries)
      PROVE i \in 1 .. Len(queries') /\ queries'[i] = queries[i]
  BY <1>2, <1>3
<1>5. ASSUME NEW i \in 1 .. Len(more)
      PROVE /\ Len(queries) + i \in 1 .. Len(queries')
            /\ queries'[Len(queries) + i] = more[i]
  <2>1. /\ Len(queries) + i \in 1 .. Len(queries) + Len(more)
        /\ ~ (Len(queries) + i <= Len(queries))
        /\ (Len(queries) + i) - Len(queries) = i
    BY <1>2
  <2> QED
    BY <1>3, <2>1
<1>6. ASSUME NEW i \in 1 .. Len(queries'), i \notin 1 .. Len(queries)
      PROVE i - Len(queries) \in 1 .. Len(more)
  BY <1>2, <1>3, <1>6
<1> QED
  BY <1>2, <1>3, <1>4, <1>5, <1>6

\* Who waits for an update goes on waiting when a session deals with requests.
LEMMA PendingStays ==
  ASSUME IInv, NEW more \in Seq(Queries), Deals(more), NEW n \in Numbers, Pending(n)
  PROVE Pending(n)'
<1>1. queries' = queries \o more
  BY DEF Deals
<1>2. ASSUME NEW i \in 1 .. Len(queries), UpdatesAt(i, n) PROVE Pending(n)'
  <2>1. i \in 1 .. Len(queries') /\ queries'[i] = queries[i]
    BY <1>1, QueriesBehind
  <2> QED
    BY <1>2, <2>1 DEF Pending, UpdatesAt
<1>3. ASSUME NEW s \in Sessions, Handles(s, n), ~ Handles(s, n)' PROVE Pending(n)'
  <2>1. PICK i \in 1 .. Len(more) : more[i].op = "UpdateMessage" /\ more[i].nr = n
    BY <1>3 DEF Deals
  <2>2. /\ Len(queries) + i \in 1 .. Len(queries')
        /\ queries'[Len(queries) + i] = more[i]
    BY <1>1, QueriesBehind
  <2> QED
    BY <2>1, <2>2 DEF Pending, UpdatesAt
<1> QED
  BY <1>2, <1>3 DEF Pending

LEMMA StrayedStays ==
  ASSUME Grows, NEW n, Strayed(n)
  PROVE Strayed(n)'
<1>1. PICK k, l \in Keys : k # l /\ n \in users[k] \cap users[l]
  BY DEF Strayed
<1>2. n \in users'[k] \cap users'[l]
  BY <1>1 DEF Grows
<1> QED
  BY <1>1, <1>2 DEF Strayed

-----------------------------------------------------------------------------
(* The numbers of documents.                                               *)

LEMMA NumberDeals ==
  ASSUME IInv, NumberInv, NEW more \in Seq(Queries), Deals(more)
  PROVE NumberInv'
<1>1. queries' = queries \o more /\ messages' = messages
  BY DEF Deals
<1>2. received \in Nat /\ received' \in Nat /\ received <= received'
  BY DEF Deals, IInv, ClockOK
<1>3. queries \in Seq(Queries) /\ messages \in Seq(MessageDoc)
  BY DEF IInv, TrailOK
<1>4. ASSUME NEW i \in 1 .. Len(messages') PROVE messages'[i].nr <= received'
  <2>1. messages[i] \in MessageDoc
    BY <1>1, <1>3, <1>4, ElementOfSeq
  <2>2. messages[i].nr \in Nat
    BY <2>1 DEF MessageDoc, Numbers
  <2>3. messages[i].nr <= received
    BY <1>1, <1>4 DEF NumberInv
  <2> QED
    BY <1>1, <1>2, <2>2, <2>3
<1>5. ASSUME NEW i \in 1 .. Len(queries'), NEW n \in Numbers, AddsAt(i, n)'
      PROVE /\ n <= received'
            /\ \A j \in 1 .. Len(messages') : messages'[j].nr # n
            /\ \A j \in 1 .. Len(queries') : AddsAt(j, n)' => i = j
            /\ \/ \E s \in Sessions : Handles(s, n)'
               \/ \E j \in 1 .. Len(queries') : i < j /\ UpdatesAt(j, n)'
  <2>0. n \in Nat
    BY DEF Numbers
  <2>1. CASE i \in 1 .. Len(queries)
    <3>1. AddsAt(i, n)
      BY <1>1, <1>5, <2>1, QueriesBehind DEF AddsAt
    <3>2. n <= received
      BY <2>1, <3>1 DEF NumberInv
    <3>3. \A j \in 1 .. Len(messages) : messages[j].nr # n
      BY <2>1, <3>1 DEF NumberInv
    <3>4. \A j \in 1 .. Len(queries) : AddsAt(j, n) => i = j
      BY <2>1, <3>1 DEF NumberInv
    <3>5. \/ \E s \in Sessions : Handles(s, n)
          \/ \E j \in 1 .. Len(queries) : i < j /\ UpdatesAt(j, n)
      BY <2>1, <3>1 DEF NumberInv
    <3>7. ASSUME NEW j \in 1 .. Len(queries'), AddsAt(j, n)' PROVE i = j
      <4>1. CASE j \in 1 .. Len(queries)
        <5>1. queries'[j] = queries[j]
          BY <1>1, <4>1, QueriesBehind
        <5> QED
          BY <3>4, <3>7, <4>1, <5>1 DEF AddsAt
      <4>2. CASE j \notin 1 .. Len(queries)
        <5> DEFINE m == j - Len(queries)
        <5>1. m \in 1 .. Len(more) /\ j = Len(queries) + m
          BY <1>1, <4>2, QueriesBehind
        <5> HIDE DEF m
        <5>2. queries'[j] = more[m]
          BY <1>1, <5>1, QueriesBehind
        <5>3. n = received + 1
          BY <3>7, <5>1, <5>2 DEF Deals, AddsAt
        <5> QED
          BY <1>2, <2>0, <3>2, <5>3
      <4> QED
        BY <4>1, <4>2
    <3>8. \/ \E s \in Sessions : Handles(s, n)'
          \/ \E j \in 1 .. Len(queries') : i < j /\ UpdatesAt(j, n)'
      <4>1. ASSUME NEW j \in 1 .. Len(queries), i < j, UpdatesAt(j, n)
            PROVE j \in 1 .. Len(queries') /\ i < j /\ UpdatesAt(j, n)'
        BY <1>1, <4>1, QueriesBehind DEF UpdatesAt
      <4>2. ASSUME NEW s \in Sessions, Handles(s, n), ~ Handles(s, n)'
            PROVE \E j \in 1 .. Len(queries') : i < j /\ UpdatesAt(j, n)'
        <5>1. PICK m \in 1 .. Len(more) : more[m].op = "UpdateMessage" /\ more[m].nr = n
          BY <4>2 DEF Deals
        <5> DEFINE j == Len(queries) + m
        <5>2. j \in 1 .. Len(queries') /\ queries'[j] = more[m] /\ i < j
          BY <1>1, <2>1, QueriesBehind
        <5> HIDE DEF j
        <5> QED
          BY <5>1, <5>2 DEF UpdatesAt
      <4> QED
        BY <3>5, <4>1, <4>2
    <3>9. n <= received'
      BY <1>2, <2>0, <3>2
    <3> QED
      BY <1>1, <3>3, <3>7, <3>8, <3>9
  <2>2. CASE i \notin 1 .. Len(queries)
    <3> DEFINE m == i - Len(queries)
    <3>1. m \in 1 .. Len(more) /\ i = Len(queries) + m
      BY <1>1, <2>2, QueriesBehind
    <3> HIDE DEF m
    <3>2. queries'[i] = more[m]
      BY <1>1, <3>1, QueriesBehind
    <3>3. /\ Len(more) = 1 /\ n = received + 1 /\ received' = received + 1
          /\ \E s \in Sessions : Handles(s, n)'
      <4>1. /\ Len(more) = 1 /\ n = received + 1 /\ received' = received + 1
            /\ \E s \in Sessions : Handles(s, received)'
        BY <1>5, <3>1, <3>2 DEF Deals, AddsAt
      <4> QED
        BY <4>1 DEF Handles
    <3>4. ASSUME NEW j \in 1 .. Len(messages') PROVE messages'[j].nr # n
      <4>1. messages[j].nr <= received
        BY <1>1, <3>4 DEF NumberInv
      <4> QED
        BY <1>1, <1>2, <3>3, <4>1
    <3>5. ASSUME NEW j \in 1 .. Len(queries'), AddsAt(j, n)' PROVE i = j
      <4>1. CASE j \in 1 .. Len(queries)
        <5>1. queries'[j] = queries[j]
          BY <1>1, <4>1, QueriesBehind
        <5>2. n <= received
          BY <3>5, <4>1, <5>1 DEF NumberInv, AddsAt
        <5> QED
          BY <1>2, <3>3, <5>2
      <4>2. CASE j \notin 1 .. Len(queries)
        <5>1. j - Len(queries) \in 1 .. 1 /\ m \in 1 .. 1
          BY <1>1, <3>1, <3>3, <4>2, QueriesBehind
        <5> QED
          BY <1>1, <3>1, <5>1, QueriesBehind
      <4> QED
        BY <4>1, <4>2
    <3>6. n <= received'
      BY <1>2, <3>3
    <3> QED
      BY <3>3, <3>4, <3>5, <3>6
  <2> QED
    BY <2>1, <2>2
<1>6. \A s \in Sessions : request'[s].nr <= received'
  BY DEF Deals
<1> QED
  BY <1>4, <1>5, <1>6 DEF NumberInv

LEMMA NumberExecute ==
  ASSUME IInv, NumberInv, ProcessExcute
  PROVE NumberInv'
<1> DEFINE q == Head(queries)
<1>1. /\ queries \in Seq(Queries) /\ queries # <<>> /\ queries' = Tail(queries)
      /\ messages \in Seq(MessageDoc)
      /\ received' = received /\ request' = request
  BY DEF IInv, TrailOK, ProcessExcute, sessionVars
<1>2. /\ q = queries[1] /\ q \in Queries /\ 1 \in 1 .. Len(queries)
      /\ Len(queries) \in Nat \ {0} /\ Len(queries') = Len(queries) - 1
      /\ \A i \in 1 .. Len(queries') : /\ i + 1 \in 1 .. Len(queries)
                                       /\ queries'[i] = queries[i + 1]
  BY <1>1
<1>3. ASSUME NEW i \in 1 .. Len(messages')
      PROVE \/ i \in 1 .. Len(messages) /\ messages'[i].nr = messages[i].nr
            \/ AddsAt(1, messages'[i].nr)
  <2>1. CASE q.op = "AddMessage"
    <3>1. messages' = Append(messages, q.doc) /\ q.doc \in MessageDoc
      BY <1>2, <2>1 DEF ProcessExcute, Queries
    <3>2. /\ Len(messages') = Len(messages) + 1 /\ Len(messages) \in Nat
          /\ \A j \in 1 .. Len(messages) : messages'[j] = messages[j]
          /\ messages'[Len(messages) + 1] = q.doc
      BY <1>1, <3>1, AppendProperties, LenProperties
    <3>3. CASE i \in 1 .. Len(messages)
      BY <3>2, <3>3
    <3>4. CASE i = Len(messages) + 1
      BY <1>2, <2>1, <3>2, <3>4 DEF AddsAt
    <3> QED
      BY <3>2, <3>3, <3>4
  <2>2. CASE q.op = "UpdateMessage"
    <3>1. \/ messages' = messages
          \/ \E m : messages' = [messages EXCEPT ![m].by = q.nr]
      BY <2>2 DEF ProcessExcute, UpdatedMessages
    <3>2. ASSUME NEW m, messages' = [messages EXCEPT ![m].by = q.nr]
          PROVE i \in 1 .. Len(messages) /\ messages'[i].nr = messages[i].nr
      <4>1. i \in 1 .. Len(messages) /\ messages[i] \in MessageDoc
        BY <1>1, <1>3, <3>2, ElementOfSeq
      <4> QED
        BY <1>1, <3>2, <4>1 DEF MessageDoc
    <3> QED
      BY <1>3, <3>1, <3>2
  <2>3. CASE q.op \notin {"AddMessage", "UpdateMessage"}
    <3>1. messages' = messages
      BY <2>3 DEF ProcessExcute
    <3> QED
      BY <1>3, <3>1
  <2> QED
    BY <2>1, <2>2, <2>3
<1>4. ASSUME NEW i \in 1 .. Len(messages') PROVE messages'[i].nr <= received'
  <2>1. ASSUME AddsAt(1, messages'[i].nr) PROVE messages'[i].nr <= received
    <3>1. messages'[i].nr \in Numbers
      BY <1>2, <2>1 DEF AddsAt, Queries, MessageDoc
    <3> QED
      BY <1>2, <2>1, <3>1 DEF NumberInv
  <2> QED
    BY <1>1, <1>3, <2>1 DEF NumberInv
<1>5. ASSUME NEW i \in 1 .. Len(queries'), NEW n \in Numbers, AddsAt(i, n)'
      PROVE /\ n <= received'
            /\ \A j \in 1 .. Len(messages') : messages'[j].nr # n
            /\ \A j \in 1 .. Len(queries') : AddsAt(j, n)' => i = j
            /\ \/ \E s \in Sessions : Handles(s, n)'
               \/ \E j \in 1 .. Len(queries') : i < j /\ UpdatesAt(j, n)'
  <2>1. /\ i + 1 \in 1 .. Len(queries) /\ AddsAt(i + 1, n)
    BY <1>2, <1>5 DEF AddsAt
  <2>2. n <= received'
    BY <1>1, <2>1 DEF NumberInv
  <2>3. ASSUME NEW j \in 1 .. Len(messages') PROVE messages'[j].nr # n
    <3>1. ASSUME AddsAt(1, n) PROVE FALSE
      <4>1. i + 1 = 1
        BY <1>2, <2>1, <3>1 DEF NumberInv
      <4> QED
        BY <4>1
    <3> QED
      BY <1>3, <2>1, <2>3, <3>1 DEF NumberInv
  <2>4. ASSUME NEW j \in 1 .. Len(queries'), AddsAt(j, n)' PROVE i = j
    <3>1. j + 1 \in 1 .. Len(queries) /\ AddsAt(j + 1, n)
      BY <1>2, <2>4 DEF AddsAt
    <3>2. i + 1 = j + 1
      BY <2>1, <3>1 DEF NumberInv
    <3> QED
      BY <3>2
  <2>5. \/ \E s \in Sessions : Handles(s, n)'
        \/ \E j \in 1 .. Len(queries') : i < j /\ UpdatesAt(j, n)'
    <3>1. \/ \E s \in Sessions : Handles(s, n)
          \/ \E j \in 1 .. Len(queries) : i + 1 < j /\ UpdatesAt(j, n)
      BY <2>1 DEF NumberInv
    <3>2. ASSUME NEW j \in 1 .. Len(queries), i + 1 < j, UpdatesAt(j, n)
          PROVE \E m \in 1 .. Len(queries') : i < m /\ UpdatesAt(m, n)'
      <4> DEFINE m == j - 1
      <4>1. m \in 1 .. Len(queries') /\ i < m /\ j = m + 1
        BY <1>2, <3>2
      <4> HIDE DEF m
      <4>2. UpdatesAt(m, n)'
        BY <1>2, <3>2, <4>1 DEF UpdatesAt
      <4> QED
        BY <4>1, <4>2
    <3> QED
      BY <1>1, <3>1, <3>2 DEF Handles
  <2> QED
    BY <2>2, <2>3, <2>4, <2>5
<1>6. \A s \in Sessions : request'[s].nr <= received'
  BY <1>1 DEF NumberInv
<1> QED
  BY <1>4, <1>5, <1>6 DEF NumberInv

-----------------------------------------------------------------------------
(* The sessions deal with their requests.                                  *)

\* The request of a session is known when it is received, and gone when it has
\* been dealt with.
LEMMA DealsReceive ==
  ASSUME IInv, NumberInv, NEW s \in Sessions, NEW cmd \in Commands, NEW app \in Names,
         Receive(s, cmd, app)
  PROVE \E more \in Seq(Queries) : Deals(more)
<1> DEFINE doc == [app |-> RecordedApp(s, cmd, app), time |-> now, nr |-> received + 1,
                   by |-> 0]
           q == [op |-> "AddMessage", doc |-> doc]
           more == <<q>>
<1>1. received \in Nat /\ received' = received + 1 /\ received + 1 \in Numbers
  BY DEF IInv, ClockOK, Numbers, Receive
<1>2. doc \in MessageDoc
  BY <1>1 DEF IInv, ClockOK, SessionOK, MessageDoc, RecordedApp
<1>3. q \in Queries /\ q.op = "AddMessage" /\ q.doc.nr = received + 1
  BY <1>2 DEF Queries
<1>4. queries' = Append(queries, q) /\ messages' = messages
  BY DEF Receive
<1>5. Grows
  <2>1. Key(doc.app, doc.time) \in Keys /\ Uses(Key(doc.app, doc.time), doc.nr)
    BY <1>2 DEF Receive, MessageDoc, Keys, Key
  <2> QED
    BY <2>1, UsesGrows DEF IInv
<1> HIDE DEF q
<1>6. more \in Seq(Queries) /\ queries' = queries \o more /\ Len(more) = 1
  BY <1>3, <1>4, AppendIsConcat DEF IInv, TrailOK
<1>7. \A i \in 1 .. Len(more) : more[i] = q
  OBVIOUS
<1> HIDE DEF more
<1>8. /\ request'[s] = [cmd |-> cmd, app |-> app, nr |-> received']
      /\ \A t \in Sessions \ {s} : request'[t] = request[t]
      /\ request[s] = NoRequest
  BY <1>1 DEF Receive, IInv, SessionOK
<1>9. ASSUME NEW t \in Sessions PROVE request'[t].nr <= received'
  <2>1. request[t].nr \in Nat /\ request[t].nr <= received
    BY DEF NumberInv, IInv, SessionOK, Requests
  <2> QED
    BY <1>1, <1>8, <2>1
<1>10. Handles(s, received)'
  BY <1>8 DEF Handles, Commands
<1>11. ASSUME NEW t \in Sessions, NEW n \in Numbers, Handles(t, n) PROVE Handles(t, n)'
  <2>1. t # s
    BY <1>8, <1>11 DEF Handles, NoRequest
  <2> QED
    BY <1>8, <1>11, <2>1 DEF Handles
<1>12. \A t \in Sessions, n \in Numbers :
         Handles(t, n) => \/ Handles(t, n)'
                          \/ \E i \in 1 .. Len(more) :
                               more[i].op = "UpdateMessage" /\ more[i].nr = n
  BY <1>11
<1>13. \A i \in 1 .. Len(more) :
         more[i].op = "AddMessage" =>
           /\ Len(more) = 1
           /\ more[i].doc.nr = received + 1 /\ received' = received + 1
           /\ \E t \in Sessions : Handles(t, received)'
  BY <1>1, <1>3, <1>6, <1>7, <1>10
<1>14. received' \in Nat /\ received <= received'
  BY <1>1
<1> QED
  BY <1>4, <1>5, <1>6, <1>9, <1>12, <1>13, <1>14 DEF Deals

\* A handler that gives up its request, or goes on to record a connect, has
\* asked for the update of it.
LEMMA DealsHandled ==
  ASSUME IInv, NumberInv, NEW s \in Sessions, NEW more \in Seq(Queries),
         queries' = queries \o more, messages' = messages, Grows, received' = received,
         \A i \in 1 .. Len(more) : more[i].op # "AddMessage",
         \A t \in Sessions \ {s} : request'[t] = request[t],
         request'[s].nr \in {0, request[s].nr},
         \/ request[s].cmd \in {"none", "record"}
         \/ \E i \in 1 .. Len(more) :
              more[i].op = "UpdateMessage" /\ more[i].nr = request[s].nr
  PROVE Deals(more)
<1>1. received \in Nat
  BY DEF IInv, ClockOK
<1>2. ASSUME NEW t \in Sessions PROVE request'[t].nr <= received'
  <2>1. request[t].nr \in Nat /\ request[t].nr <= received
    BY DEF NumberInv, IInv, SessionOK, Requests
  <2>2. request'[t].nr \in {0, request[t].nr}
    OBVIOUS
  <2> QED
    BY <1>1, <2>1, <2>2
<1>3. ASSUME NEW t \in Sessions, NEW n \in Numbers, Handles(t, n)
      PROVE \/ Handles(t, n)'
            \/ \E i \in 1 .. Len(more) : more[i].op = "UpdateMessage" /\ more[i].nr = n
  BY <1>3 DEF Handles
<1>4. \A t \in Sessions, n \in Numbers :
        Handles(t, n) => \/ Handles(t, n)'
                         \/ \E i \in 1 .. Len(more) :
                              more[i].op = "UpdateMessage" /\ more[i].nr = n
  BY <1>3
<1>5. received' \in Nat /\ received <= received'
  BY <1>1
<1> QED
  BY <1>2, <1>4, <1>5 DEF Deals

LEMMA DealsSession ==
  ASSUME IInv, NumberInv, NEW s \in Sessions, OnHttpRequest(s) \/ OnDisconnect(s)
  PROVE \E more \in Seq(Queries) : Deals(more)
<1>0. queries \in Seq(Queries) /\ request \in [Sessions -> Requests]
  BY DEF IInv, TrailOK, SessionOK
<1>1. ASSUME NEW cmd \in Commands, NEW app \in Names, Receive(s, cmd, app)
      PROVE \E more \in Seq(Queries) : Deals(more)
  BY <1>1, DealsReceive
<1>2. ASSUME OnConnect(s) \/ (request[s].cmd # "none" /\ Concludes(s))
      PROVE \E more \in Seq(Queries) : Deals(more)
  <2>1. request[s].cmd # "none"
    BY <1>2 DEF OnConnect
  <2>2. PICK app \in Names : /\ queries' = Append(queries, UpdateMessage(s, app))
                             /\ Uses(Key(app, receiveTime[s]), request[s].nr)
    BY <1>2 DEF OnConnect, Concludes, IInv, SessionOK, RequestOK, Names
  <2> DEFINE q == UpdateMessage(s, app)
             more == <<q>>
  <2>3. q \in Queries /\ q.op = "UpdateMessage" /\ q.nr = request[s].nr
    BY <2>1, QueryTypes DEF IInv, UpdateMessage
  <2>4. Key(app, receiveTime[s]) \in Keys
    BY DEF IInv, SessionOK, Keys, Key
  <2>5. Grows
    BY <2>2, <2>4, UsesGrows DEF IInv
  <2>6. /\ messages' = messages /\ received' = received
        /\ \A t \in Sessions \ {s} : request'[t] = request[t]
        /\ request'[s].nr \in {0, request[s].nr}
    BY <1>0, <1>2 DEF OnConnect, Concludes, Done, NoRequest, Requests
  <2> HIDE DEF q
  <2>7. more \in Seq(Queries) /\ queries' = queries \o more
    BY <1>0, <2>2, <2>3, AppendIsConcat DEF q
  <2>8. 1 \in 1 .. Len(more) /\ \A i \in 1 .. Len(more) : more[i] = q
    OBVIOUS
  <2> HIDE DEF more
  <2>9. Deals(more)
    BY <2>3, <2>5, <2>6, <2>7, <2>8, DealsHandled
  <2> QED
    BY <2>7, <2>9
<1>3. ASSUME AddConnectMessage(s) PROVE \E more \in Seq(Queries) : Deals(more)
  <2> DEFINE q == [op |-> "AddConnect",
                   doc |-> [app |-> request[s].app, time |-> now, session |-> s,
                            open |-> TRUE]]
             more == <<q>>
  <2>1. q \in Queries /\ q.op = "AddConnect"
    BY <1>3, QueryTypes DEF IInv, AddConnectMessage
  <2>2. queries' = Append(queries, q) /\ messages' = messages /\ Grows /\ received' = received
    BY <1>3 DEF AddConnectMessage, Grows
  <2>3. /\ \A t \in Sessions \ {s} : request'[t] = request[t]
        /\ request'[s].nr = 0 /\ request[s].cmd = "record"
    BY <1>0, <1>3 DEF AddConnectMessage, Done, NoRequest
  <2> HIDE DEF q
  <2>4. more \in Seq(Queries) /\ queries' = queries \o more
    BY <1>0, <2>1, <2>2, AppendIsConcat
  <2>5. \A i \in 1 .. Len(more) : more[i] = q
    OBVIOUS
  <2> HIDE DEF more
  <2>6. Deals(more)
    BY <2>1, <2>2, <2>3, <2>4, <2>5, DealsHandled
  <2> QED
    BY <2>4, <2>6
<1>4. ASSUME OnDisconn(s) PROVE \E more \in Seq(Queries) : Deals(more)
  <2> DEFINE q == UpdateMessage(s, appid[s])
             c == UpdateConnectStatus(s)
             more == <<c, q>>
  <2>1. /\ c \in Queries /\ q \in Queries /\ q.op = "UpdateMessage" /\ q.nr = request[s].nr
        /\ c.op = "UpdateConnect"
    BY <1>4, QueryTypes DEF IInv, SessionOK, OnDisconn, UpdateMessage, UpdateConnectStatus
  <2>2. Key(appid[s], receiveTime[s]) \in Keys
    BY DEF IInv, SessionOK, Keys, Key
  <2>3. Grows
    BY <1>4, <2>2, UsesGrows DEF IInv, OnDisconn
  <2>4. /\ queries' = queries \o more /\ messages' = messages /\ received' = received
        /\ \A t \in Sessions \ {s} : request'[t] = request[t]
        /\ request'[s].nr = 0
    BY <1>0, <1>4 DEF OnDisconn, Done, NoRequest
  <2> HIDE DEF q, c
  <2>5. more \in Seq(Queries)
    BY <2>1
  <2>6. /\ \A i \in 1 .. Len(more) : more[i] \in {q, c}
        /\ 2 \in 1 .. Len(more) /\ more[2] = q
    OBVIOUS
  <2> HIDE DEF more
  <2>7. Deals(more)
    BY <2>1, <2>3, <2>4, <2>5, <2>6, DealsHandled
  <2> QED
    BY <2>5, <2>7
<1>5. ASSUME OnDisconnect(s) PROVE \E more \in Seq(Queries) : Deals(more)
  <2>1. /\ messages' = messages /\ received' = received /\ Grows
        /\ request' = request /\ request[s].cmd = "none"
    BY <1>5 DEF OnDisconnect, NoRequest, Grows
  <2>2. PICK more \in {<<>>, ClosingQueries(s)} : queries' = queries \o more
    <3>1. queries = queries \o <<>>
      BY <1>0, ConcatEmptySeq
    <3> QED
      BY <1>5, <3>1 DEF OnDisconnect
  <2>3. UpdateConnectStatus(s) \in Queries
    BY QueryTypes DEF IInv
  <2>4. more \in Seq(Queries)
    <3>1. <<>> \in Seq(Queries) /\ <<UpdateConnectStatus(s)>> \in Seq(Queries)
      BY <2>3
    <3> QED
      BY <3>1 DEF ClosingQueries
  <2>5. \A i \in 1 .. Len(more) : more[i].op # "AddMessage"
    BY DEF ClosingQueries, UpdateConnectStatus
  <2>6. Deals(more)
    BY <2>1, <2>2, <2>4, <2>5, DealsHandled
  <2> QED
    BY <2>4, <2>6
<1> QED
  BY <1>1, <1>2, <1>3, <1>4, <1>5, SessionSteps, Conclusions

LEMMA NumberStep == IInv /\ NumberInv /\ [Next]_vars => NumberInv'
<1> SUFFICES ASSUME IInv, NumberInv, [Next]_vars PROVE NumberInv'
  OBVIOUS
<1>1. CASE Tick \/ UNCHANGED vars
  <2>1. UNCHANGED <<received, request, queries, messages>>
    BY <1>1 DEF Tick, vars, sessionVars
  <2> QED
    BY <2>1 DEF NumberInv, AddsAt, UpdatesAt, Handles
<1> QED
  BY <1>1, DealsSession, NumberDeals, NumberExecute DEF Next

-----------------------------------------------------------------------------
(* The count of unmarked documents.                                        *)

\* The sets that are counted are finite.
LEMMA TrailFinite ==
  ASSUME IInv, NEW k
  PROVE /\ Unmarked(k) \subseteq 1 .. Len(messages) /\ IsFiniteSet(Unmarked(k))
        /\ Awaiting(k) \subseteq Numbers /\ IsFiniteSet(Awaiting(k))
        /\ Cardinality(Unmarked(k)) \in Nat /\ Cardinality(Awaiting(k)) \in Nat
<1>1. Len(messages) \in Nat
  BY LenProperties DEF IInv, TrailOK
<1>2. IsFiniteSet(1 .. Len(messages)) /\ IsFiniteSet(Numbers)
  BY <1>1, FS_Interval DEF Numbers
<1>3. Unmarked(k) \subseteq 1 .. Len(messages) /\ Awaiting(k) \subseteq Numbers
  BY DEF Unmarked, Docs, Awaiting
<1>4. IsFiniteSet(Unmarked(k)) /\ IsFiniteSet(Awaiting(k))
  BY <1>2, <1>3, FS_Subset
<1> QED
  BY <1>3, <1>4, FS_CardinalityType

\* What becomes of a bound on one set by another when the first loses elements
\* and the second gains some; when both gain one; and when both lose one.
LEMMA BoundKept ==
  ASSUME NEW U, NEW A, NEW V, NEW B,
         IsFiniteSet(U), IsFiniteSet(A), IsFiniteSet(B), Cardinality(U) <= Cardinality(A),
         V \subseteq U, A \subseteq B
  PROVE Cardinality(V) <= Cardinality(B)
<1>1. Cardinality(V) <= Cardinality(U) /\ Cardinality(A) <= Cardinality(B) /\ IsFiniteSet(V)
  BY FS_Subset
<1>2. /\ Cardinality(U) \in Nat /\ Cardinality(A) \in Nat
      /\ Cardinality(V) \in Nat /\ Cardinality(B) \in Nat
  BY <1>1, FS_CardinalityType
<1> QED
  BY <1>1, <1>2

LEMMA BoundGains ==
  ASSUME NEW U, NEW A, NEW V, NEW B, NEW x, NEW n,
         IsFiniteSet(U), IsFiniteSet(A), IsFiniteSet(B), Cardinality(U) <= Cardinality(A),
         V \subseteq U \cup {x}, A \cup {n} \subseteq B, n \notin A
  PROVE Cardinality(V) <= Cardinality(B)
<1>1. Cardinality(U) \in Nat /\ Cardinality(A) \in Nat
  BY FS_CardinalityType
<1>2. /\ IsFiniteSet(U \cup {x})
      /\ Cardinality(U \cup {x}) \in {Cardinality(U), Cardinality(U) + 1}
  BY FS_AddElement
<1>3. IsFiniteSet(A \cup {n}) /\ Cardinality(A \cup {n}) = Cardinality(A) + 1
  BY FS_AddElement
<1>4. Cardinality(U \cup {x}) <= Cardinality(A \cup {n})
  BY <1>1, <1>2, <1>3
<1> QED
  BY <1>2, <1>3, <1>4, BoundKept

LEMMA BoundLoses ==
  ASSUME NEW U, NEW A, NEW V, NEW B, NEW x, NEW n,
         IsFiniteSet(U), IsFiniteSet(A), IsFiniteSet(B), Cardinality(U) <= Cardinality(A),
         x \in U, V \subseteq U \ {x}, A \ {n} \subseteq B
  PROVE Cardinality(V) <= Cardinality(B)
<1>1. Cardinality(U) \in Nat /\ Cardinality(A) \in Nat
  BY FS_CardinalityType
<1>2. IsFiniteSet(U \ {x}) /\ Cardinality(U \ {x}) = Cardinality(U) - 1
  BY FS_RemoveElement
<1>3. /\ IsFiniteSet(A \ {n})
      /\ Cardinality(A \ {n}) \in {Cardinality(A), Cardinality(A) - 1}
  BY FS_RemoveElement
<1>4. Cardinality(U \ {x}) <= Cardinality(A \ {n})
  BY <1>1, <1>2, <1>3
<1> QED
  BY <1>2, <1>3, <1>4, BoundKept

\* The requests that are waited for afterwards are finitely many, too.
LEMMA AwaitingFinite ==
  ASSUME NEW k
  PROVE IsFiniteSet(Awaiting(k)')
<1>1. IsFiniteSet(Numbers)
  BY FS_Interval DEF Numbers
<1>2. Awaiting(k)' \subseteq Numbers
  BY DEF Awaiting
<1> QED
  BY <1>1, <1>2, FS_Subset

\* A session adds no document, and who waits goes on waiting.
LEMMA CountDeals ==
  ASSUME IInv, CountInv, NEW more \in Seq(Queries), Deals(more)
  PROVE CountInv'
<1> SUFFICES ASSUME NEW k \in Keys
             PROVE Cardinality(Unmarked(k)') <= Cardinality(Awaiting(k)')
  BY DEF CountInv
<1>1. Cardinality(Unmarked(k)) <= Cardinality(Awaiting(k))
  BY DEF CountInv
<1>2. messages' = messages /\ Grows
  BY DEF Deals
<1>3. Unmarked(k)' \subseteq Unmarked(k)
  BY <1>2 DEF Unmarked, Docs
<1>4. Awaiting(k) \subseteq Awaiting(k)'
  <2>1. \A n \in Numbers : Pending(n) \/ Strayed(n) => Pending(n)' \/ Strayed(n)'
    BY <1>2, PendingStays, StrayedStays
  <2> QED
    BY <1>2, <2>1 DEF Awaiting, Docs
<1> QED
  BY <1>1, <1>3, <1>4, TrailFinite, AwaitingFinite, BoundKept

\* Executing a query that is not an update of n leaves n waiting.
LEMMA PendingExecute ==
  ASSUME IInv, ProcessExcute, NEW n, ~ UpdatesAt(1, n), Pending(n)
  PROVE Pending(n)'
<1>1. /\ queries \in Seq(Queries) /\ queries # <<>> /\ queries' = Tail(queries)
      /\ request' = request
  BY DEF IInv, TrailOK, ProcessExcute, sessionVars
<1>2. ASSUME NEW i \in 1 .. Len(queries), UpdatesAt(i, n)
      PROVE \E j \in 1 .. Len(queries') : UpdatesAt(j, n)'
  <2>1. /\ Len(queries) \in Nat /\ Len(queries') = Len(queries) - 1
        /\ \A j \in 1 .. Len(queries') : queries'[j] = queries[j + 1]
    BY <1>1
  <2> DEFINE j == i - 1
  <2>2. i # 1
    BY <1>2
  <2>3. j \in 1 .. Len(queries') /\ i = j + 1
    BY <2>1, <2>2
  <2> HIDE DEF j
  <2> QED
    BY <1>2, <2>1, <2>3 DEF UpdatesAt
<1> QED
  BY <1>1, <1>2 DEF Pending, Handles

\* The document of a request that has just been written waits for its update.
LEMMA CountAdd ==
  ASSUME IInv, NumberInv, CountInv, ProcessExcute, Head(queries).op = "AddMessage",
         NEW k \in Keys
  PROVE Cardinality(Unmarked(k)') <= Cardinality(Awaiting(k)')
<1> DEFINE d == Head(queries).doc
           n == d.nr
           l == Len(messages) + 1
<1>1. /\ queries \in Seq(Queries) /\ queries # <<>> /\ messages \in Seq(MessageDoc)
      /\ request' = request /\ users' = users
  BY DEF IInv, TrailOK, ProcessExcute, sessionVars
<1>2. /\ Head(queries) = queries[1] /\ Head(queries) \in Queries
      /\ 1 \in 1 .. Len(queries) /\ Len(queries) \in Nat
  BY <1>1
<1>3. messages' = Append(messages, d) /\ d \in MessageDoc /\ n \in Numbers
  BY <1>2 DEF ProcessExcute, Queries, MessageDoc
<1>4. AddsAt(1, n) /\ \A m : ~ UpdatesAt(1, m)
  BY <1>2 DEF AddsAt, UpdatesAt
<1>5. \A j \in 1 .. Len(messages) : messages[j].nr # n
  BY <1>2, <1>3, <1>4 DEF NumberInv
<1>6. Pending(n)
  <2>1. \/ \E s \in Sessions : Handles(s, n)
        \/ \E j \in 1 .. Len(queries) : 1 < j /\ UpdatesAt(j, n)
    BY <1>2, <1>3, <1>4 DEF NumberInv
  <2> QED
    BY <2>1 DEF Pending
<1> HIDE DEF n, d
<1>7. \A m : Pending(m) => Pending(m)'
  BY <1>4, PendingExecute
<1>8. /\ Len(messages') = l /\ l \in 1 .. Len(messages') /\ Len(messages) \in Nat
      /\ \A j \in 1 .. Len(messages) : j \in 1 .. Len(messages') /\ messages'[j] = messages[j]
      /\ messages'[l] = d
      /\ \A j \in 1 .. Len(messages') : j \in 1 .. Len(messages) \/ j = l
  BY <1>1, <1>3, AppendProperties, LenProperties
<1> HIDE DEF l
<1>9. Unmarked(k)' \subseteq Unmarked(k) \cup {l}
  BY <1>8 DEF Unmarked, Docs
<1>10. Awaiting(k) \subseteq Awaiting(k)'
  BY <1>1, <1>7, <1>8 DEF Awaiting, Docs, Strayed
<1>11. Cardinality(Unmarked(k)) <= Cardinality(Awaiting(k))
  BY DEF CountInv
<1>12. CASE Key(d.app, d.time) = k
  <2>1. n \in Awaiting(k)'
    <3>1. l \in Docs(k)' /\ messages'[l].nr = n
      BY <1>8, <1>12 DEF Docs, n
    <3> QED
      BY <1>3, <1>6, <1>7, <3>1 DEF Awaiting
  <2>2. n \notin Awaiting(k)
    BY <1>5 DEF Awaiting, Docs
  <2>3. Awaiting(k) \cup {n} \subseteq Awaiting(k)'
    BY <1>10, <2>1
  <2>4. /\ IsFiniteSet(Unmarked(k)) /\ IsFiniteSet(Awaiting(k))
        /\ IsFiniteSet(Awaiting(k)')
    BY TrailFinite, AwaitingFinite
  <2> DEFINE U == Unmarked(k)
             V == Unmarked(k)'
             A == Awaiting(k)
             B == Awaiting(k)'
  <2> HIDE DEF U, V, A, B
  <2>5. Cardinality(V) <= Cardinality(B)
    <3>1. /\ IsFiniteSet(U) /\ IsFiniteSet(A) /\ IsFiniteSet(B)
          /\ Cardinality(U) <= Cardinality(A)
      BY <1>11, <2>4 DEF U, A, B
    <3>2. V \subseteq U \cup {l} /\ A \cup {n} \subseteq B /\ n \notin A
      BY <1>9, <2>2, <2>3 DEF U, V, A, B
    <3> QED
      BY <3>1, <3>2, BoundGains
  <2> QED
    BY <2>5 DEF V, B
<1>13. CASE Key(d.app, d.time) # k
  <2>1. Unmarked(k)' \subseteq Unmarked(k)
    BY <1>8, <1>9, <1>13 DEF Unmarked, Docs
  <2> QED
    BY <1>10, <1>11, <2>1, TrailFinite, AwaitingFinite, BoundKept
<1> QED
  BY <1>12, <1>13

\* An update marks one document of its key, if there is one, and its request
\* is no longer waited for there; under any other key it has strayed.
LEMMA CountUpdate ==
  ASSUME IInv, MarkInv, CountInv, ProcessExcute, Head(queries).op = "UpdateMessage",
         NEW k \in Keys
  PROVE Cardinality(Unmarked(k)') <= Cardinality(Awaiting(k)')
<1> DEFINE q == Head(queries)
           n == q.nr
           found == {j \in DOMAIN messages : Open(messages[j], q.key)}
<1>1. /\ queries \in Seq(Queries) /\ queries # <<>> /\ messages \in Seq(MessageDoc)
      /\ request' = request /\ users' = users
  BY DEF IInv, TrailOK, ProcessExcute, sessionVars
<1>2. /\ q = queries[1] /\ q \in Queries /\ 1 \in 1 .. Len(queries)
  BY <1>1
<1>3. n \in Numbers /\ n # 0 /\ q.key \in Keys /\ n \in users[q.key]
  BY <1>2 DEF Queries, MarkInv, Known, Numbers
<1>4. \A m : m # n => ~ UpdatesAt(1, m)
  BY <1>2 DEF UpdatesAt
<1>5. messages' = IF found = {} THEN messages
                  ELSE [messages EXCEPT ![Min(found)].by = n]
  BY DEF ProcessExcute, UpdatedMessages
<1>6. found = Unmarked(q.key) /\ found \subseteq Nat
  BY <1>1, LenProperties DEF Open, Unmarked, Docs
<1> HIDE DEF q, n, found
<1>7. found # {} => Min(found) \in found
  BY <1>6, FirstIsOne
<1>8. /\ Len(messages') = Len(messages)
      /\ \A i \in 1 .. Len(messages) :
           /\ messages'[i].app = messages[i].app /\ messages'[i].time = messages[i].time
           /\ messages'[i].nr = messages[i].nr
           /\ messages'[i].by = IF found # {} /\ i = Min(found) THEN n ELSE messages[i].by
  <2>1. CASE found = {}
    BY <1>5, <2>1
  <2>2. CASE found # {}
    <3>1. messages' = [messages EXCEPT ![Min(found)].by = n]
      BY <1>5, <2>2
    <3>2. \A i \in 1 .. Len(messages) : messages[i] \in MessageDoc
      BY <1>1, ElementOfSeq
    <3> DEFINE m == Min(found)
    <3> HIDE DEF m
    <3>3. messages' = [messages EXCEPT ![m].by = n]
      BY <3>1 DEF m
    <3>4. /\ Len(messages') = Len(messages)
          /\ \A i \in 1 .. Len(messages) :
               messages'[i] = IF i = m THEN [messages[i] EXCEPT !.by = n] ELSE messages[i]
      BY <1>1, <3>3
    <3> QED
      BY <2>2, <3>2, <3>4 DEF m, MessageDoc
  <2> QED
    BY <2>1, <2>2
<1>9. Docs(k)' = Docs(k) /\ \A i \in Docs(k) : messages'[i].nr = messages[i].nr
  BY <1>8 DEF Docs, Key
<1>10. \A m : Strayed(m)' <=> Strayed(m)
  BY <1>1 DEF Strayed
<1>11. Awaiting(k) \ {n} \subseteq Awaiting(k)'
  BY <1>4, <1>9, <1>10, PendingExecute DEF Awaiting
<1>12. Cardinality(Unmarked(k)) <= Cardinality(Awaiting(k))
  BY DEF CountInv
<1>13. Unmarked(k)' \subseteq Unmarked(k)
  BY <1>3, <1>8, <1>9 DEF Unmarked, Docs
<1>14. CASE k # q.key
  <2>1. ASSUME n \in Awaiting(k) PROVE n \in Awaiting(k)'
    <3>1. PICK i \in Docs(k) : messages[i].nr = n
      BY <2>1 DEF Awaiting
    <3>2. n \in users[k]
      BY <3>1 DEF MarkInv, Docs
    <3>3. Strayed(n)
      BY <1>3, <1>14, <3>2 DEF Strayed
    <3> QED
      BY <1>3, <1>9, <1>10, <3>1, <3>3 DEF Awaiting
  <2>2. Awaiting(k) \subseteq Awaiting(k)'
    BY <1>11, <2>1
  <2> QED
    BY <1>12, <1>13, <2>2, TrailFinite, AwaitingFinite, BoundKept
<1>15. CASE k = q.key /\ found = {}
  <2>1. Unmarked(k)' = {}
    BY <1>6, <1>13, <1>15
  <2>2. Cardinality(Unmarked(k)') = 0
    BY <2>1, FS_EmptySet
  <2>3. Cardinality(Awaiting(k)') \in Nat
    BY AwaitingFinite, FS_CardinalityType
  <2> QED
    BY <2>2, <2>3
<1>16. CASE k = q.key /\ found # {}
  <2>1. Min(found) \in Unmarked(k)
    BY <1>6, <1>7, <1>16
  <2>2. Unmarked(k)' \subseteq Unmarked(k) \ {Min(found)}
    <3>1. Min(found) \in 1 .. Len(messages)
      BY <2>1 DEF Unmarked, Docs
    <3>2. messages'[Min(found)].by # 0
      BY <1>3, <1>8, <1>16, <3>1
    <3> QED
      BY <1>13, <3>2 DEF Unmarked
  <2> QED
    BY <1>11, <1>12, <2>1, <2>2, TrailFinite, AwaitingFinite, BoundLoses
<1> QED
  BY <1>14, <1>15, <1>16

LEMMA CountExecute ==
  ASSUME IInv, MarkInv, NumberInv, CountInv, ProcessExcute
  PROVE CountInv'
<1> SUFFICES ASSUME NEW k \in Keys
             PROVE Cardinality(Unmarked(k)') <= Cardinality(Awaiting(k)')
  BY DEF CountInv
<1>1. CASE Head(queries).op \notin {"AddMessage", "UpdateMessage"}
  <2>1. messages' = messages /\ users' = users
    BY <1>1 DEF ProcessExcute
  <2>2. Unmarked(k)' \subseteq Unmarked(k)
    BY <2>1 DEF Unmarked, Docs
  <2>3. \A m : ~ UpdatesAt(1, m)
    <3>1. queries[1] = Head(queries)
      BY DEF ProcessExcute, IInv, TrailOK
    <3> QED
      BY <1>1, <3>1 DEF UpdatesAt
  <2>4. Awaiting(k) \subseteq Awaiting(k)'
    BY <2>1, <2>3, PendingExecute DEF Awaiting, Docs, Strayed
  <2>5. Cardinality(Unmarked(k)) <= Cardinality(Awaiting(k))
    BY DEF CountInv
  <2> QED
    BY <2>2, <2>4, <2>5, TrailFinite, AwaitingFinite, BoundKept
<1> QED
  BY <1>1, CountAdd, CountUpdate

LEMMA CountStep == IInv /\ MarkInv /\ NumberInv /\ CountInv /\ [Next]_vars => CountInv'
<1> SUFFICES ASSUME IInv, MarkInv, NumberInv, CountInv, [Next]_vars PROVE CountInv'
  OBVIOUS
<1>1. CASE Tick \/ UNCHANGED vars
  <2>1. UNCHANGED <<request, queries, messages, users>>
    BY <1>1 DEF Tick, vars, sessionVars
  <2> QED
    BY <2>1 DEF CountInv, Unmarked, Awaiting, Docs, Pending, Strayed, UpdatesAt, Handles
<1> QED
  BY <1>1, DealsSession, CountDeals, CountExecute DEF Next

\* Without queries and without requests nobody waits for an update: only strayed
\* requests can stand for a document that is still unmarked.
LEMMA CountSettles ==
  ASSUME IInv, CountInv, Settled
  PROVE AuditSettles
<1> SUFFICES ASSUME NEW i \in 1 .. Len(messages), messages[i].by = 0
             PROVE \E j \in 1 .. Len(messages) :
                     /\ Key(messages[j].app, messages[j].time)
                          = Key(messages[i].app, messages[i].time)
                     /\ Strayed(messages[j].nr)
  BY DEF AuditSettles
<1> DEFINE k == Key(messages[i].app, messages[i].time)
<1>1. messages[i] \in MessageDoc
  BY ElementOfSeq DEF IInv, TrailOK
<1>2. k \in Keys /\ i \in Unmarked(k)
  BY <1>1 DEF Unmarked, Docs, MessageDoc, Keys, Key
<1> HIDE DEF k
<1>3. /\ IsFiniteSet(Unmarked(k)) /\ IsFiniteSet(Awaiting(k))
      /\ Cardinality(Unmarked(k)) \in Nat /\ Cardinality(Awaiting(k)) \in Nat
  BY TrailFinite
<1>4. Cardinality(Unmarked(k)) # 0
  BY <1>2, <1>3, FS_EmptySet
<1>5. Cardinality(Awaiting(k)) # 0
  BY <1>2, <1>3, <1>4 DEF CountInv
<1>6. Awaiting(k) # {}
  BY <1>3, <1>5, FS_EmptySet
<1>7. PICK n \in Awaiting(k) : TRUE
  BY <1>6
<1>8. ~ Pending(n)
  BY DEF Settled, Pending, Handles, NoRequest
<1>9. PICK j \in Docs(k) : messages[j].nr = n /\ Strayed(n)
  BY <1>7, <1>8 DEF Awaiting
<1> QED
  BY <1>9 DEF Docs, k

\* When everything has been dealt with, every message is marked, unless a connect
\* of that application and second has strayed: although an update may mark the
\* message of another request, each finds one that is still open (AddMessage,
\* UpdateMessage).
THEOREM TrailSettles == Spec => []AuditSettles
<1>1. Init => MarkInv /\ NumberInv
  BY DEF Init, MarkInv, NumberInv, NoRequest
<1>2. Init => CountInv
  <2> SUFFICES ASSUME Init, NEW k PROVE Cardinality(Unmarked(k)) <= Cardinality(Awaiting(k))
    BY DEF CountInv
  <2>1. Unmarked(k) = {} /\ Awaiting(k) = {}
    BY DEF Init, Unmarked, Awaiting, Docs
  <2> QED
    BY <2>1, FS_EmptySet
<1>3. IInv /\ CountInv => AuditSettles
  BY CountSettles DEF AuditSettles
<1> QED
  BY <1>1, <1>2, <1>3, MarkStep, NumberStep, CountStep, Invariance, PTL DEF Spec
=============================================================================
