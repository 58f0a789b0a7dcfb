------------------------------ MODULE Publish ------------------------------
(***************************************************************************)
(* A publish on its way through the server: ApsAppSrvSession::OnPublish    *)
(* with the audience of its request (ApsAppRequestMessage), the two redis  *)
(* locations it asks for device tokens (ApsRedisLocation,                  *)
(* ApsTokenRedisLocation) and the message ids of the APNs client pool.     *)
(*                                                                         *)
(* The sessions run on different threads. Both locations use one           *)
(* RedisClient: whoever finds it disconnected points it at the server of   *)
(* his own location and connects it, and the other location goes on using  *)
(* it. RedisClient and the redis servers are external: a look-up is        *)
(* answered if the connection leads to the server that holds the data, and *)
(* returns false on another server or a broken connection.                 *)
(*                                                                         *)
(* The sessions are connected, the audit trail is the subject of           *)
(* AppSession, and what becomes of a message that was pushed is the        *)
(* subject of ApnsClientPool and C2dmClient. A request that is not JSON is *)
(* only answered and left out.                                             *)
(***************************************************************************)
EXTENDS Naturals, FiniteSets

CONSTANTS
  Sessions,      \* application sessions, all connected
  Tokens,        \* device tokens that are not empty
  IosTokens,     \* those of type ios; any other type goes to C2DM
  NoToken,       \* the empty token
  Servers,       \* redis servers
  None,          \* no connection
  IdMod,         \* message ids are taken modulo IdMod (2^32 in the code)
  RecMod,        \* and recorded modulo RecMod (2^16 in the code)
  MaxPublishes,  \* bound: publish requests
  MaxBreaks,     \* bound: connections to redis that break
  MaxMarks       \* bound: changes of the set of invalid tokens

ASSUME PublishAssumption ==
  /\ IosTokens \subseteq Tokens
  /\ NoToken \notin Tokens
  /\ None \notin Servers
  /\ IdMod \in Nat \ {0}
  /\ RecMod \in Nat \ {0}
  /\ MaxPublishes \in Nat
  /\ MaxBreaks \in Nat
  /\ MaxMarks \in Nat

Locations == {"account", "token"}
Ids == 0 .. IdMod - 1

\* The device ids of the user are the tokens they stand for. A publish goes to
\* a user, to one of his devices, or to a device that he does not have.
ToUser == [kind |-> "user", device |-> NoToken]
Audiences == {ToUser} \cup [kind : {"device"}, device : Tokens \cup {NoToken}]

VARIABLES
  server,         \* the redis server each location was configured with
  link,           \* the server RedisClient is connected to, or None
  info,           \* the server RedisClient will connect to
  listed,         \* the tokens of the user's devices in the account redis
  invalid,        \* the tokens marked invalid in the token redis
  step,           \* where each session is in OnPublish
  location,       \* the location it is asking
  audience,       \* to whom it publishes
  todo,           \* the devices OnPublish has not visited yet
  token,          \* the device it is visiting
  response_flag,  \* has a device been found?
  messageID,      \* m_messageID of the pool
  tmp,            \* what ++m_messageID has loaded, then what it has stored
  recorded,       \* the id in the session's newest record of a push
  published,      \* bounded counters
  breaks,
  marks,
  pushed,         \* auxiliary: the tokens this publish was pushed to
  blind,          \* auxiliary: look-ups asked of the wrong server, or of none
  unreached,      \* auxiliary: look-ups that could not connect
  wasInvalid,     \* auxiliary: tokens marked at some moment of this publish
  alwaysInvalid,  \* auxiliary: tokens marked all the time
  crossed,        \* auxiliary: the connection a look-up relies on was not, or is no
                  \* longer, the one to its own server
  overtaken       \* auxiliary: an id was stored between a session's push and record

redisVars == <<server, link, info, listed, invalid>>
poolVars  == <<messageID, tmp, recorded, overtaken>>
bounds    == <<published, breaks, marks>>
lookUps   == <<pushed, blind, unreached>>
marking   == <<wasInvalid, alwaysInvalid>>
vars == <<server, link, info, listed, invalid, step, location, audience,
          todo, token, response_flag, messageID, tmp,
          recorded, published, breaks, marks, pushed, blind, unreached,
          wasInvalid, alwaysInvalid, crossed, overtaken>>

Steps == {"idle", "check", "info", "connect", "ask", "next", "load",
          "store", "record"}

TypeOK ==
  /\ server \in [Locations -> Servers]
  /\ link \in Servers \cup {None}
  /\ info \in Servers
  /\ listed \subseteq Tokens \cup {NoToken}
  /\ invalid \subseteq Tokens
  /\ step \in [Sessions -> Steps]
  /\ location \in [Sessions -> Locations]
  /\ audience \in [Sessions -> Audiences]
  /\ todo \in [Sessions -> SUBSET Tokens]
  /\ token \in [Sessions -> Tokens \cup {NoToken}]
  /\ response_flag \in [Sessions -> BOOLEAN]
  /\ messageID \in Ids
  /\ tmp \in [Sessions -> Ids]
  /\ recorded \in [Sessions -> 0 .. RecMod - 1]
  /\ published \in 0 .. MaxPublishes
  /\ breaks \in 0 .. MaxBreaks
  /\ marks \in 0 .. MaxMarks
  /\ pushed \in [Sessions -> SUBSET Tokens]
  /\ blind \in [Sessions -> SUBSET (Tokens \cup {NoToken})]
  /\ unreached \in [Sessions -> SUBSET (Tokens \cup {NoToken})]
  /\ wasInvalid \in [Sessions -> SUBSET Tokens]
  /\ alwaysInvalid \in [Sessions -> SUBSET Tokens]
  /\ crossed \in [Sessions -> BOOLEAN]
  /\ overtaken \in [Sessions -> BOOLEAN]

-----------------------------------------------------------------------------
(* Start-up, also after the server process has died (see Supervisor).      *)

\* The account location is initialised first, the token location last.
LastConnected == server["token"]

Init ==
  /\ server \in [Locations -> Servers]
  /\ link = LastConnected
  /\ info = LastConnected
  /\ listed \in SUBSET (Tokens \cup {NoToken})
  /\ invalid \in SUBSET Tokens
  /\ messageID = 0
  /\ published = 0
  /\ breaks = 0
  /\ marks = 0
  /\ step = [s \in Sessions |-> "idle"]
  /\ location = [s \in Sessions |-> "account"]
  /\ audience = [s \in Sessions |-> ToUser]
  /\ todo = [s \in Sessions |-> {}]
  /\ token = [s \in Sessions |-> NoToken]
  /\ response_flag = [s \in Sessions |-> FALSE]
  /\ tmp = [s \in Sessions |-> 0]
  /\ recorded = [s \in Sessions |-> 0]
  /\ pushed = [s \in Sessions |-> {}]
  /\ blind = [s \in Sessions |-> {}]
  /\ unreached = [s \in Sessions |-> {}]
  /\ wasInvalid = [s \in Sessions |-> {}]
  /\ alwaysInvalid = [s \in Sessions |-> {}]
  /\ crossed = [s \in Sessions |-> FALSE]
  /\ overtaken = [s \in Sessions |-> FALSE]

-----------------------------------------------------------------------------
(* The request.                                                            *)

\* A publish request is parsed and OnPublish begins: it asks the account
\* location for the devices.
OnPublish(s) ==
  /\ step[s] = "idle"
  /\ published < MaxPublishes
  /\ published' = published + 1
  /\ \E a \in Audiences : audience' = [audience EXCEPT ![s] = a]
  /\ step' = [step EXCEPT ![s] = "check"]
  /\ wasInvalid' = [wasInvalid EXCEPT ![s] = invalid]
  /\ alwaysInvalid' = [alwaysInvalid EXCEPT ![s] = invalid]
  /\ UNCHANGED <<location, todo, token, response_flag, breaks, marks>>
  /\ UNCHANGED <<redisVars, crossed>>
  /\ UNCHANGED poolVars
  /\ UNCHANGED lookUps

-----------------------------------------------------------------------------
(* A look-up: GetUserToken, GetDeviceToken and IsValidDeviceToken are made *)
(* of the same steps, and other sessions may come between them.            *)

\* The look-up of a token is named by the token, the other one by NoToken.
LookUp(s) == IF location[s] = "account" THEN NoToken ELSE token[s]

inLookUp == <<location, todo, token, response_flag>>

\* RedisClient is connected to the server of the session's location.
Reaches(s) == link = server[location[s]]

\* The connection leads to l now, and will be made to i: who relies on either and
\* wants another server is crossed.
Crosses(l, i) ==
  crossed' = [s \in Sessions |->
    \/ crossed[s]
    \/ step[s] = "connect" /\ i # server[location[s]]
    \/ step[s] = "ask" /\ l # server[location[s]]]

\* Mutant of IsConnected: nobody asks RedisClient.
AssumedConnected == TRUE

IsConnected == link # None

\* A connection is used whoever has made it.
CheckConnection(s) ==
  /\ step[s] = "check"
  /\ step' = [step EXCEPT ![s] = IF IsConnected THEN "ask" ELSE "info"]
  /\ crossed' = [crossed EXCEPT ![s] = link \notin {None, server[location[s]]}]
  /\ UNCHANGED inLookUp
  /\ UNCHANGED redisVars
  /\ UNCHANGED poolVars
  /\ UNCHANGED bounds
  /\ UNCHANGED audience
  /\ UNCHANGED lookUps
  /\ UNCHANGED marking

\* ConnectSql: SetServerInfo ...
SetServerInfo(s) ==
  /\ step[s] = "info"
  /\ info' = server[location[s]]
  /\ Crosses(link, info')
  /\ step' = [step EXCEPT ![s] = "connect"]
  /\ UNCHANGED <<server, link, listed, invalid>>
  /\ UNCHANGED inLookUp
  /\ UNCHANGED poolVars
  /\ UNCHANGED bounds
  /\ UNCHANGED audience
  /\ UNCHANGED lookUps
  /\ UNCHANGED marking

\* ... then Connect, to whatever server was set last.
Connect(s) ==
  /\ step[s] = "connect"
  /\ link' = info
  /\ Crosses(link', info)
  /\ step' = [step EXCEPT ![s] = "ask"]
  /\ UNCHANGED <<server, info, listed, invalid>>
  /\ UNCHANGED inLookUp
  /\ UNCHANGED poolVars
  /\ UNCHANGED bounds
  /\ UNCHANGED audience
  /\ UNCHANGED lookUps
  /\ UNCHANGED marking

\* The devices a publish is meant for.
Addressed(s) ==
  IF audience[s] = ToUser THEN listed ELSE listed \cap {audience[s].device}

\* Mutant of Found: a device without a token is acknowledged.
FoundAny(s, devices) ==
  /\ todo' = [todo EXCEPT ![s] = devices \ {NoToken}]
  /\ response_flag' = [response_flag EXCEPT ![s] = devices # {}]
  /\ step' = [step EXCEPT ![s] = "next"]

\* The devices are known: OnPublish visits those whose token is not empty, and
\* each of them sets response_flag.
Found(s, devices) ==
  /\ todo' = [todo EXCEPT ![s] = devices \ {NoToken}]
  /\ response_flag' = [response_flag EXCEPT ![s] = devices \ {NoToken} # {}]
  /\ step' = [step EXCEPT ![s] = "next"]

\* GetUserToken has filled the map, or has left it empty.
UserFound(s, devices) ==
  /\ audience[s] = ToUser
  /\ Found(s, devices)

DeviceFound(s, devices) ==
  /\ audience[s] # ToUser
  /\ devices # {}
  /\ Found(s, devices)

\* The device was not found: id.begin()->first of an empty map is read. It may
\* look empty or not; it is no token, so IsValidDeviceToken(NULL) refuses it.
DeviceUndefined(s, devices) ==
  /\ audience[s] # ToUser
  /\ devices = {}
  /\ \E flag \in BOOLEAN : response_flag' = [response_flag EXCEPT ![s] = flag]
  /\ todo' = [todo EXCEPT ![s] = {}]
  /\ step' = [step EXCEPT ![s] = "next"]

AccountAnswer(s, devices) ==
  /\ UserFound(s, devices) \/ DeviceFound(s, devices) \/ DeviceUndefined(s, devices)
  /\ UNCHANGED token

AskAccount(s) ==
  /\ step[s] = "ask"
  /\ location[s] = "account"
  /\ AccountAnswer(s, IF Reaches(s) THEN Addressed(s) ELSE {})
  /\ blind' = IF Reaches(s) THEN blind
              ELSE [blind EXCEPT ![s] = @ \cup {LookUp(s)}]
  /\ UNCHANGED <<location, pushed, unreached>>
  /\ crossed' = [crossed EXCEPT ![s] = FALSE]
  /\ UNCHANGED redisVars
  /\ UNCHANGED poolVars
  /\ UNCHANGED bounds
  /\ UNCHANGED audience
  /\ UNCHANGED marking

\* What becomes of the device: a push by APNs or C2DM, or the next device.
Verdict(s, valid) ==
  /\ step' = [step EXCEPT ![s] = IF valid /\ token[s] \in IosTokens THEN "load" ELSE "next"]
  /\ pushed' = IF valid /\ token[s] \notin IosTokens
               THEN [pushed EXCEPT ![s] = @ \cup {token[s]}] ELSE pushed

\* GetData fails or does not find the mark: either way the token counts as
\* valid.
AskToken(s) ==
  /\ step[s] = "ask"
  /\ location[s] = "token"
  /\ Verdict(s, ~ (Reaches(s) /\ token[s] \in invalid))
  /\ blind' = IF Reaches(s) THEN blind
              ELSE [blind EXCEPT ![s] = @ \cup {LookUp(s)}]
  /\ UNCHANGED <<unreached, inLookUp>>
  /\ crossed' = [crossed EXCEPT ![s] = FALSE]
  /\ UNCHANGED redisVars
  /\ UNCHANGED poolVars
  /\ UNCHANGED bounds
  /\ UNCHANGED audience
  /\ UNCHANGED marking

\* Mutant of UnreachedIsValid: a token that cannot be checked is pushed to.
UnreachedPushes == TRUE

\* "reconnect error so return": the token counts as invalid.
UnreachedIsValid == FALSE

\* Connect fails and the look-up returns false.
ConnectFails(s) ==
  /\ step[s] = "connect"
  /\ link' = None
  /\ crossed' = [t \in Sessions |-> t # s /\ (crossed[t] \/ step[t] = "ask")]
  /\ unreached' = [unreached EXCEPT ![s] = @ \cup {LookUp(s)}]
  /\ \/ location[s] = "account" /\ AccountAnswer(s, {}) /\ UNCHANGED pushed
     \/ /\ location[s] = "token"
        /\ Verdict(s, UnreachedIsValid)
        /\ UNCHANGED <<todo, token, response_flag>>
  /\ UNCHANGED <<server, info, listed, invalid, location, blind>>
  /\ UNCHANGED poolVars
  /\ UNCHANGED bounds
  /\ UNCHANGED audience
  /\ UNCHANGED marking

-----------------------------------------------------------------------------
(* The rest of OnPublish.                                                  *)

\* The loop visits a device: is its token valid?
Visit(s) ==
  /\ step[s] = "next"
  /\ \E t \in todo[s] :
       /\ token' = [token EXCEPT ![s] = t]
       /\ todo' = [todo EXCEPT ![s] = @ \ {t}]
  /\ location' = [location EXCEPT ![s] = "token"]
  /\ step' = [step EXCEPT ![s] = "check"]
  /\ UNCHANGED response_flag
  /\ UNCHANGED <<redisVars, crossed>>
  /\ UNCHANGED poolVars
  /\ UNCHANGED bounds
  /\ UNCHANGED audience
  /\ UNCHANGED lookUps
  /\ UNCHANGED marking

\* clientPool->PushNotification: ++m_messageID, without a lock ...
LoadID(s) ==
  /\ step[s] = "load"
  /\ tmp' = [tmp EXCEPT ![s] = messageID]
  /\ step' = [step EXCEPT ![s] = "store"]
  /\ UNCHANGED <<messageID, recorded, overtaken>>
  /\ UNCHANGED inLookUp
  /\ UNCHANGED <<redisVars, crossed>>
  /\ UNCHANGED bounds
  /\ UNCHANGED audience
  /\ UNCHANGED lookUps
  /\ UNCHANGED marking

\* ... stores what it makes of the id it loaded, and sends it.
StoreID(s) ==
  /\ step[s] = "store"
  /\ tmp' = [tmp EXCEPT ![s] = (@ + 1) % IdMod]
  /\ messageID' = (tmp[s] + 1) % IdMod
  /\ overtaken' = [t \in Sessions |-> t # s /\ (overtaken[t] \/ step[t] = "record")]
  /\ pushed' = [pushed EXCEPT ![s] = @ \cup {token[s]}]
  /\ step' = [step EXCEPT ![s] = "record"]
  /\ UNCHANGED <<recorded, blind, unreached>>
  /\ UNCHANGED inLookUp
  /\ UNCHANGED <<redisVars, crossed>>
  /\ UNCHANGED bounds
  /\ UNCHANGED audience
  /\ UNCHANGED marking

\* Mutant of GetMessageID: the id of the next message.
GetNextMessageID == (messageID + 1) % IdMod

GetMessageID == messageID

\* ApsIosMessage records the push under the id it asks the pool for, cut to the
\* width of its parameter mid.
AddPublishMessage(s) ==
  /\ step[s] = "record"
  /\ recorded' = [recorded EXCEPT ![s] = GetMessageID % RecMod]
  /\ step' = [step EXCEPT ![s] = "next"]
  /\ UNCHANGED <<messageID, tmp, overtaken>>
  /\ UNCHANGED inLookUp
  /\ UNCHANGED <<redisVars, crossed>>
  /\ UNCHANGED bounds
  /\ UNCHANGED audience
  /\ UNCHANGED lookUps
  /\ UNCHANGED marking

\* Every device has been visited.
Ready(s) == step[s] = "next" /\ todo[s] = {}

Puback(s)  == Ready(s) /\ response_flag[s]
Refused(s) == Ready(s) /\ ~ response_flag[s]

\* The answer is sent, and the session waits for the next request.
Answer(s) ==
  /\ Puback(s) \/ Refused(s)
  /\ step' = [step EXCEPT ![s] = "idle"]
  /\ location' = [location EXCEPT ![s] = "account"]
  /\ audience' = [audience EXCEPT ![s] = ToUser]
  /\ token' = [token EXCEPT ![s] = NoToken]
  /\ response_flag' = [response_flag EXCEPT ![s] = FALSE]
  /\ tmp' = [tmp EXCEPT ![s] = 0]
  /\ recorded' = [recorded EXCEPT ![s] = 0]
  /\ overtaken' = [overtaken EXCEPT ![s] = FALSE]
  /\ pushed' = [pushed EXCEPT ![s] = {}]
  /\ blind' = [blind EXCEPT ![s] = {}]
  /\ unreached' = [unreached EXCEPT ![s] = {}]
  /\ wasInvalid' = [wasInvalid EXCEPT ![s] = {}]
  /\ alwaysInvalid' = [alwaysInvalid EXCEPT ![s] = {}]
  /\ UNCHANGED <<todo, messageID>>
  /\ UNCHANGED <<redisVars, crossed>>
  /\ UNCHANGED bounds

-----------------------------------------------------------------------------
(* The rest of the world.                                                  *)

\* The connection breaks: NeedReConnect.
OndisConnectCallback ==
  /\ link # None
  /\ breaks < MaxBreaks
  /\ breaks' = breaks + 1
  /\ link' = None
  /\ Crosses(None, info)
  /\ UNCHANGED <<server, info, listed, invalid, published, marks>>
  /\ UNCHANGED <<step, inLookUp, audience, poolVars, lookUps, marking>>

\* A token is marked invalid, or valid again.
Mark(t) ==
  /\ marks < MaxMarks
  /\ marks' = marks + 1
  /\ invalid' = IF t \in invalid THEN invalid \ {t} ELSE invalid \cup {t}
  /\ wasInvalid' = [s \in Sessions |->
       IF step[s] = "idle" THEN {} ELSE wasInvalid[s] \cup invalid']
  /\ alwaysInvalid' = [s \in Sessions |->
       IF step[s] = "idle" THEN {} ELSE alwaysInvalid[s] \cap invalid']
  /\ UNCHANGED <<server, link, info, listed, published, breaks>>
  /\ UNCHANGED <<step, inLookUp, audience, poolVars, lookUps, crossed>>

\* Reading the token of an empty map may also be the end of the process, which
\* is started again.
Dies(s) ==
  /\ audience[s] # ToUser
  /\ location[s] = "account"
  /\ \/ step[s] = "ask" /\ (Reaches(s) => Addressed(s) = {})
     \/ step[s] = "connect"
  /\ link' = LastConnected
  /\ info' = LastConnected
  /\ messageID' = 0
  /\ step' = [t \in Sessions |-> "idle"]
  /\ location' = [t \in Sessions |-> "account"]
  /\ audience' = [t \in Sessions |-> ToUser]
  /\ todo' = [t \in Sessions |-> {}]
  /\ token' = [t \in Sessions |-> NoToken]
  /\ response_flag' = [t \in Sessions |-> FALSE]
  /\ tmp' = [t \in Sessions |-> 0]
  /\ recorded' = [t \in Sessions |-> 0]
  /\ pushed' = [t \in Sessions |-> {}]
  /\ blind' = [t \in Sessions |-> {}]
  /\ unreached' = [t \in Sessions |-> {}]
  /\ wasInvalid' = [t \in Sessions |-> {}]
  /\ alwaysInvalid' = [t \in Sessions |-> {}]
  /\ crossed' = [t \in Sessions |-> FALSE]
  /\ overtaken' = [t \in Sessions |-> FALSE]
  /\ UNCHANGED <<server, listed, invalid>>
  /\ UNCHANGED bounds

-----------------------------------------------------------------------------
Session(s) ==
  \/ OnPublish(s)
  \/ CheckConnection(s)
  \/ SetServerInfo(s)
  \/ Connect(s)
  \/ ConnectFails(s)
  \/ AskAccount(s)
  \/ AskToken(s)
  \/ Visit(s)
  \/ LoadID(s)
  \/ StoreID(s)
  \/ AddPublishMessage(s)
  \/ Answer(s)
  \/ Dies(s)

Next ==
  \/ \E s \in Sessions : Session(s)
  \/ OndisConnectCallback
  \/ \E t \in Tokens : Mark(t)

Spec == Init /\ [][Next]_vars

-----------------------------------------------------------------------------
(* Properties.                                                             *)

\* The account location was not asked, or another redis server was asked in
\* its place.
Misled(s) == NoToken \in blind[s] \cup unreached[s]

\* A publish is acknowledged only if a device with a token is listed for it,
\* and refused only if there is none: with an account look-up that was asked of
\* the wrong server or of none, and with the undefined read of a device that
\* was not found, anything goes (response_flag, GetUserToken, GetDeviceToken).
AnswerTellsTruth ==
  \A s \in Sessions :
    /\ Puback(s) =>
         \/ Addressed(s) \ {NoToken} # {}
         \/ audience[s] # ToUser /\ (Addressed(s) = {} \/ Misled(s))
    /\ Refused(s) => Addressed(s) \subseteq {NoToken} \/ Misled(s)

\* When a publish is answered, every device it was meant for was pushed to,
\* unless its token was marked invalid meanwhile or could not be checked for
\* want of a connection; and no token that was marked all the time was pushed
\* to, unless its look-up was asked of the wrong server or of none.
TokensRespected ==
  \A s \in Sessions :
    Ready(s) /\ ~ Misled(s) =>
      \A t \in Addressed(s) \ {NoToken} :
        /\ t \in pushed[s] => t \notin alwaysInvalid[s] \/ t \in blind[s]
        /\ t \notin pushed[s] => t \in wasInvalid[s] \cup unreached[s]

\* A look-up reaches the server of its own location, however many sessions
\* break in on it: unless it found RedisClient connected to the other location's
\* server, or, after its own check, another session has pointed RedisClient
\* elsewhere or the connection has broken (CheckConnection, ConnectSql).
LookUpReaches ==
  \A s \in Sessions : step[s] = "ask" => Reaches(s) \/ crossed[s]

\* The record of a push to an iOS device carries the id that push was sent
\* with, cut to its width, unless another session stored an id in between
\* (GetMessageID after ++m_messageID, the uint16_t mid of AddPublishMessage).
AuditNamesItsPush ==
  \A s \in Sessions :
    recorded[s] # tmp[s] % RecMod => overtaken[s] \/ step[s] \in {"store", "record"}
=============================================================================
