----------------------------- MODULE AppSession -----------------------------
(***************************************************************************)
(* The sessions of applications (ApsAppSrvSession) and the audit trail     *)
(* they write (ApsMessageStatus, ApsConnectStatus). For every request a    *)
(* session asks the LCS to add a document, and when it has dealt with the  *)
(* request, to update it. Documents are found again by application and     *)
(* receive time, which is kept in whole seconds.                           *)
(*                                                                         *)
(* The LCS is a first-in first-out queue here; what overlapping changes do *)
(* to its list is the subject of LcsQueryPool. The base class of the       *)
(* session and the database are external. What publish sends to devices,   *)
(* and the records of that, are the subject of ApnsClientPool and          *)
(* C2dmClient. Left out are the answers, a request that cannot be parsed,  *)
(* which is only answered, and keep-alive times: a session may end at any  *)
(* moment.                                                                 *)
(***************************************************************************)
EXTENDS Naturals, Sequences, FiniteSetsExt

CONSTANTS
  Sessions,     \* application sessions, none of which is used twice
  Apps,         \* application names
  None,         \* the empty application name, no request, no session
  MaxTime,      \* bound: seconds that pass
  MaxRequests   \* bound: requests that are received

ASSUME AppAssumption ==
  /\ None \notin Apps \cup Sessions
  /\ MaxTime \in Nat
  /\ MaxRequests \in Nat

Names == Apps \cup {None}
Times == 0 .. MaxTime
Numbers == 1 .. MaxRequests
Keys == [app : Names, time : Times]

Commands == {"connect", "publish", "pingreq", "disconn", "undefined"}

VARIABLES
  now,           \* the clock, in seconds
  received,      \* how many requests were received: the newest one's number
  client_state,  \* of each session; "ended" when it has been deleted
  appid,         \* the application of each session
  receiveTime,   \* when its newest request was received
  request,       \* the request each session is dealing with
  queries,       \* m_QueryPool of the LCS
  messages,      \* provider.message: by = 0 is the flag "not dealt with"
  connects,      \* provider.connect
  users          \* auxiliary: the requests that added or updated under a key

sessionVars == <<client_state, appid, receiveTime, request>>
vars == <<now, received, client_state, appid, receiveTime, request, queries,
          messages, connects, users>>

NoRequest == [cmd |-> "none", app |-> None, nr |-> 0]

Requests == [cmd : Commands \cup {"none", "record"}, app : Names,
             nr : 0 .. MaxRequests]

MessageDoc == [app : Names, time : Times, nr : Numbers, by : 0 .. MaxRequests]
ConnectDoc == [app : Names, time : Times, session : Sessions, open : BOOLEAN]

\* An update names the documents it is meant for by key; nr and session are
\* where it comes from.
Queries ==
  [op : {"AddMessage"}, doc : MessageDoc]
    \cup [op : {"UpdateMessage"}, key : Keys, nr : Numbers]
    \cup [op : {"AddConnect"}, doc : ConnectDoc]
    \cup [op : {"UpdateConnect"}, key : Keys]

TypeOK ==
  /\ now \in Times
  /\ received \in 0 .. MaxRequests
  /\ client_state \in [Sessions -> {"new", "connected", "disconnecting", "ended"}]
  /\ appid \in [Sessions -> Names]
  /\ receiveTime \in [Sessions -> Times]
  /\ request \in [Sessions -> Requests]
  /\ queries \in Seq(Queries)
  /\ messages \in Seq(MessageDoc)
  /\ connects \in Seq(ConnectDoc)
  /\ users \in [Keys -> SUBSET Numbers]

Init ==
  /\ now = 0
  /\ received = 0
  /\ client_state = [s \in Sessions |-> "new"]
  /\ appid = [s \in Sessions |-> None]
  /\ receiveTime = [s \in Sessions |-> 0]
  /\ request = [s \in Sessions |-> NoRequest]
  /\ queries = <<>>
  /\ messages = <<>>
  /\ connects = <<>>
  /\ users = [k \in Keys |-> {}]

Key(app, time) == [app |-> app, time |-> time]

Uses(k, n) == users' = [users EXCEPT ![k] = @ \cup {n}]

-----------------------------------------------------------------------------
(* OnHttpRequest.                                                          *)

\* A connect is recorded under the application it names, every other request
\* under the application of the session.
RecordedApp(s, cmd, app) == IF cmd = "connect" THEN app ELSE appid[s]

\* ParseRequestMessage, then AddMessage, which returns the receive time.
Receive(s, cmd, app) ==
  /\ client_state[s] # "ended"
  /\ request[s] = NoRequest
  /\ received < MaxRequests
  /\ received' = received + 1
  /\ receiveTime' = [receiveTime EXCEPT ![s] = now]
  /\ request' = [request EXCEPT ![s] = [cmd |-> cmd, app |-> app, nr |-> received + 1]]
  /\ LET name == RecordedApp(s, cmd, app) IN
       /\ queries' = Append(queries,
            [op |-> "AddMessage",
             doc |-> [app |-> name, time |-> now, nr |-> received + 1, by |-> 0]])
       /\ Uses(Key(name, now), received + 1)
  /\ UNCHANGED <<now, client_state, appid, messages, connects>>

-----------------------------------------------------------------------------
(* The handlers.                                                           *)

\* Mutant of UpdateMessage: the message is looked for under the time of now.
UpdateMessageNow(s, app) ==
  [op |-> "UpdateMessage", key |-> Key(app, now), nr |-> request[s].nr]

\* The query of UpdateMessage for the request of s, made in the name of app.
UpdateMessage(s, app) ==
  [op |-> "UpdateMessage", key |-> Key(app, receiveTime[s]), nr |-> request[s].nr]

\* The query of UpdateConnectStatus: the caller passes the receive time of the
\* newest request, not the time the connect document was given.
UpdateConnectStatus(s) ==
  [op |-> "UpdateConnect", key |-> Key(appid[s], receiveTime[s])]

Done(s) == request' = [request EXCEPT ![s] = NoRequest]

\* Mutant of AcceptsConnect: a session that is connected connects again.
AcceptsTwice(s) == client_state[s] # "disconnecting"

AcceptsConnect(s) == client_state[s] = "new"

\* OnConnect takes over the name, and goes on with AddConnectMessage.
OnConnect(s) ==
  /\ request[s].cmd = "connect"
  /\ AcceptsConnect(s)
  /\ client_state' = [client_state EXCEPT ![s] = "connected"]
  /\ appid' = [appid EXCEPT ![s] = request[s].app]
  /\ queries' = Append(queries, UpdateMessage(s, request[s].app))
  /\ Uses(Key(request[s].app, receiveTime[s]), request[s].nr)
  /\ request' = [request EXCEPT ![s].cmd = "record"]
  /\ UNCHANGED <<now, received, receiveTime, messages, connects>>

\* The time is read anew.
AddConnectMessage(s) ==
  /\ request[s].cmd = "record"
  /\ queries' = Append(queries,
       [op |-> "AddConnect",
        doc |-> [app |-> request[s].app, time |-> now, session |-> s, open |-> TRUE]])
  /\ Done(s)
  /\ UNCHANGED <<now, received, client_state, appid, receiveTime, messages,
                 connects, users>>

\* A handler that changes nothing but the audit trail, under the session's name.
Concludes(s) ==
  /\ queries' = Append(queries, UpdateMessage(s, appid[s]))
  /\ Uses(Key(appid[s], receiveTime[s]), request[s].nr)
  /\ Done(s)
  /\ UNCHANGED <<now, received, client_state, appid, receiveTime, messages, connects>>

ConnectRefused(s) ==
  /\ request[s].cmd = "connect"
  /\ ~ AcceptsConnect(s)
  /\ Concludes(s)

\* A publish is acknowledged, or refused because no device has a token.
OnPublish(s) ==
  /\ request[s].cmd = "publish"
  /\ client_state[s] = "connected"
  /\ Concludes(s)

OnPingReq(s) ==
  /\ request[s].cmd = "pingreq"
  /\ client_state[s] = "connected"
  /\ Concludes(s)

\* Publish and pingreq in a wrong state are refused.
WrongState(s) ==
  /\ request[s].cmd \in {"publish", "pingreq"}
  /\ client_state[s] # "connected"
  /\ Concludes(s)

OnUndefinedCmd(s) ==
  /\ request[s].cmd = "undefined"
  /\ Concludes(s)

OnDisconn(s) ==
  /\ request[s].cmd = "disconn"
  /\ client_state[s] = "connected"
  /\ client_state' = [client_state EXCEPT ![s] = "disconnecting"]
  /\ queries' = queries \o <<UpdateConnectStatus(s), UpdateMessage(s, appid[s])>>
  /\ Uses(Key(appid[s], receiveTime[s]), request[s].nr)
  /\ Done(s)
  /\ UNCHANGED <<now, received, appid, receiveTime, messages, connects>>

DisconnRefused(s) ==
  /\ request[s].cmd = "disconn"
  /\ client_state[s] # "connected"
  /\ Concludes(s)

ClosingQueries(s) == <<UpdateConnectStatus(s)>>

\* The connection is closed or has timed out: OnDisconnect, if the base class
\* calls it, and the end of the session.
OnDisconnect(s) ==
  /\ client_state[s] # "ended"
  /\ request[s] = NoRequest
  /\ client_state' = [client_state EXCEPT ![s] = "ended"]
  /\ queries' \in {queries, queries \o ClosingQueries(s)}
  /\ UNCHANGED <<now, received, appid, receiveTime, request, messages,
                 connects, users>>

-----------------------------------------------------------------------------
(* The LCS and the database.                                               *)

\* Mutant of Open: a message that was dealt with is found again.
FoundAgain(d, k) == Key(d.app, d.time) = k

\* find: the application, the receive time and the flag.
Open(d, k) == Key(d.app, d.time) = k /\ d.by = 0

\* The first document that fits is updated, and only that one.
UpdatedMessages(q) ==
  LET found == {i \in DOMAIN messages : Open(messages[i], q.key)} IN
  IF found = {} THEN messages ELSE [messages EXCEPT ![Min(found)].by = q.nr]

\* Mutant of UpdatedConnects: the application is not compared.
UpdatedAnyConnect(q) ==
  LET found == {i \in DOMAIN connects : connects[i].time = q.key.time /\ connects[i].open} IN
  IF found = {} THEN connects ELSE [connects EXCEPT ![Min(found)].open = FALSE]

UpdatedConnects(q) ==
  LET found == {i \in DOMAIN connects :
                  /\ Key(connects[i].app, connects[i].time) = q.key
                  /\ connects[i].open} IN
  IF found = {} THEN connects ELSE [connects EXCEPT ![Min(found)].open = FALSE]

\* ProcessExcute of the query at the front of the list.
ProcessExcute ==
  /\ queries # <<>>
  /\ queries' = Tail(queries)
  /\ LET q == Head(queries) IN
       /\ messages' = CASE q.op = "AddMessage" -> Append(messages, q.doc)
                        [] q.op = "UpdateMessage" -> UpdatedMessages(q)
                        [] OTHER -> messages
       /\ connects' = CASE q.op = "AddConnect" -> Append(connects, q.doc)
                        [] q.op = "UpdateConnect" -> UpdatedConnects(q)
                        [] OTHER -> connects
  /\ UNCHANGED <<now, received, users>>
  /\ UNCHANGED sessionVars

Tick ==
  /\ now < MaxTime
  /\ now' = now + 1
  /\ UNCHANGED <<received, queries, messages, connects, users>>
  /\ UNCHANGED sessionVars

-----------------------------------------------------------------------------
OnHttpRequest(s) ==
  \/ \E app \in Apps : Receive(s, "connect", app)
  \/ \E cmd \in Commands \ {"connect"} : Receive(s, cmd, None)
  \/ OnConnect(s)
  \/ AddConnectMessage(s)
  \/ ConnectRefused(s)
  \/ OnPublish(s)
  \/ OnPingReq(s)
  \/ WrongState(s)
  \/ OnUndefinedCmd(s)
  \/ OnDisconn(s)
  \/ DisconnRefused(s)

Next ==
  \/ \E s \in Sessions : OnHttpRequest(s) \/ OnDisconnect(s)
  \/ ProcessExcute
  \/ Tick

Spec == Init /\ [][Next]_vars

-----------------------------------------------------------------------------
(* Properties.                                                             *)

Settled == queries = <<>> /\ \A s \in Sessions : request[s] = NoRequest

\* A request whose document and whose update have different keys: a connect
\* that is refused although it names another application than the session's.
Strayed(n) == \E k, l \in Keys : k # l /\ n \in users[k] \cap users[l]

\* When every request has been dealt with and the LCS has nothing left to do,
\* every message is marked as dealt with, however many requests of however many
\* sessions share an application and a second; only next to a stray connect of
\* that very application and second one may stay open.
AuditSettles ==
  Settled =>
    \A i \in 1 .. Len(messages) :
      LET d == messages[i] IN
      \/ d.by # 0
      \/ \E j \in 1 .. Len(messages) :
           /\ Key(messages[j].app, messages[j].time) = Key(d.app, d.time)
           /\ Strayed(messages[j].nr)

\* A message is marked by the handler of its own request, unless another
\* request was recorded or concluded under the same application and second
\* (UpdateMessage finds what AddMessage wrote).
MarkedByOwnRequest ==
  \A i \in 1 .. Len(messages) :
    LET d == messages[i] IN d.by \in {0, d.nr} \/ users[Key(d.app, d.time)] # {d.nr}

\* A session has at most one connect document, written or waiting in the LCS,
\* and that carries the session's application (OnConnect, AddConnectMessage).
Written(s) == {i \in 1 .. Len(connects) : connects[i].session = s}
Waiting(s) == {i \in 1 .. Len(queries) :
                 queries[i].op = "AddConnect" /\ queries[i].doc.session = s}

OneConnectDocument ==
  \A s \in Sessions :
    /\ Cardinality(Written(s)) + Cardinality(Waiting(s)) <= 1
    /\ \A i \in Written(s) : connects[i].app = appid[s]
    /\ \A i \in Waiting(s) : queries[i].doc.app = appid[s]

\* A connect document is only ever closed when some session of its application
\* has disconnected or ended (UpdateConnectStatus by OnDisconn, OnDisconnect).
ClosedByItsApplication ==
  \A i \in 1 .. Len(connects) :
    ~ connects[i].open =>
      \E s \in Sessions : /\ appid[s] = connects[i].app
                          /\ client_state[s] \in {"disconnecting", "ended"}

\* "return the connect time": the connect document of a session that has said
\* disconn is closed as soon as the LCS has executed everything.
DisconnectIsRecorded ==
  Settled =>
    \A s \in Sessions :
      client_state[s] = "disconnecting" => \A i \in Written(s) : ~ connects[i].open
=============================================================================
