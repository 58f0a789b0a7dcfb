---------------------------- MODULE Publish_proofs ----------------------------
(***************************************************************************)
(* Theorems about publishing, for any sets of sessions, tokens and redis   *)
(* servers, and any bounds.                                                *)
(***************************************************************************)
EXTENDS Publish, TLAPS

USE PublishAssumption

-----------------------------------------------------------------------------
(* Types.                                                                  *)

FlagsOK ==
  /\ response_flag \in [Sessions -> BOOLEAN]
  /\ crossed \in [Sessions -> BOOLEAN]
  /\ overtaken \in [Sessions -> BOOLEAN]

RedisOK ==
  /\ server \in [Locations -> Servers]
  /\ link \in Servers \cup {None}
  /\ info \in Servers
  /\ listed \subseteq Tokens \cup {NoToken}
  /\ invalid \subseteq Tokens

WalkOK ==
  /\ step \in [Sessions -> Steps]
  /\ location \in [Sessions -> Locations]
  /\ audience \in [Sessions -> Audiences]
  /\ todo \in [Sessions -> SUBSET Tokens]
  /\ token \in [Sessions -> Tokens \cup {NoToken}]

IdsOK ==
  /\ messageID \in Ids
  /\ tmp \in [Sessions -> Ids]
  /\ recorded \in [Sessions -> 0 .. RecMod - 1]

BoundsOK ==
  /\ published \in 0 .. MaxPublishes
  /\ breaks \in 0 .. MaxBreaks
  /\ marks \in 0 .. MaxMarks

SetsOK ==
  /\ pushed \in [Sessions -> SUBSET Tokens]
  /\ blind \in [Sessions -> SUBSET (Tokens \cup {NoToken})]
  /\ unreached \in [Sessions -> SUBSET (Tokens \cup {NoToken})]
  /\ wasInvalid \in [Sessions -> SUBSET Tokens]
  /\ alwaysInvalid \in [Sessions -> SUBSET Tokens]

\* Only the look-up of a token visits a device, and an idle session is at the
\* beginning of OnPublish. A push needs this to be of a token.
VisitInv ==
  \A s \in Sessions :
    /\ location[s] = "token" => token[s] \in Tokens
    /\ step[s] \in {"load", "store", "record"} => location[s] = "token"
    /\ step[s] = "idle" => location[s] = "account" /\ ~ response_flag[s]

IInv == FlagsOK /\ RedisOK /\ WalkOK /\ IdsOK /\ BoundsOK /\ SetsOK /\ VisitInv

\* What is left of an id in the audit trail.
LEMMA RecordedId == /\ \A n \in Nat : n % RecMod \in 0 .. RecMod - 1
                    /\ 0 % RecMod = 0
  OBVIOUS

LEMMA TypeParts == IInv => TypeOK
  BY DEF IInv, TypeOK, FlagsOK, RedisOK, WalkOK, IdsOK, BoundsOK, SetsOK

LEMMA TypeInit == Init => IInv
<1> SUFFICES ASSUME Init PROVE IInv
  OBVIOUS
<1> USE DEF Init
<1>1. FlagsOK
  BY DEF FlagsOK
<1>2. RedisOK
  BY DEF RedisOK, LastConnected, Locations
<1>3. WalkOK
  BY DEF WalkOK, Steps, Locations, Audiences, ToUser
<1>4. IdsOK
  BY DEF IdsOK, Ids
<1>5. BoundsOK
  BY DEF BoundsOK
<1>6. SetsOK
  BY DEF SetsOK
<1>7. VisitInv
  BY DEF VisitInv
<1> QED
  BY <1>1, <1>2, <1>3, <1>4, <1>5, <1>6, <1>7 DEF IInv

LEMMA ParseType ==
  ASSUME IInv, NEW s \in Sessions, OnPublish(s) PROVE IInv'
<1> USE DEF IInv, OnPublish, lookUps, redisVars, poolVars, bounds
<1>1. FlagsOK'
  BY DEF FlagsOK
<1>2. RedisOK'
  BY DEF RedisOK
<1>3. WalkOK'
  BY DEF WalkOK, Steps
<1>4. IdsOK'
  BY DEF IdsOK
<1>5. BoundsOK'
  BY DEF BoundsOK
<1>6. SetsOK'
  BY DEF SetsOK, RedisOK
<1>7. VisitInv'
  BY DEF VisitInv, WalkOK, FlagsOK
<1> QED
  BY <1>1, <1>2, <1>3, <1>4, <1>5, <1>6, <1>7

LEMMA CheckType ==
  ASSUME IInv, NEW s \in Sessions, CheckConnection(s) PROVE IInv'
<1> USE DEF IInv, CheckConnection, inLookUp, lookUps, marking, redisVars, poolVars, bounds
<1>1. FlagsOK'
  BY DEF FlagsOK
<1>2. RedisOK'
  BY DEF RedisOK
<1>3. WalkOK'
  BY DEF WalkOK, Steps
<1>4. IdsOK'
  BY DEF IdsOK
<1>5. BoundsOK'
  BY DEF BoundsOK
<1>6. SetsOK'
  BY DEF SetsOK
<1>7. VisitInv'
  BY DEF VisitInv, WalkOK, FlagsOK
<1> QED
  BY <1>1, <1>2, <1>3, <1>4, <1>5, <1>6, <1>7

LEMMA InfoType ==
  ASSUME IInv, NEW s \in Sessions, SetServerInfo(s) PROVE IInv'
<1> USE DEF IInv, SetServerInfo, inLookUp, Crosses, lookUps, marking, redisVars, poolVars, bounds
<1>1. FlagsOK'
  BY DEF FlagsOK
<1>2. RedisOK'
  BY DEF RedisOK, Locations, WalkOK
<1>3. WalkOK'
  BY DEF WalkOK, Steps
<1>4. IdsOK'
  BY DEF IdsOK
<1>5. BoundsOK'
  BY DEF BoundsOK
<1>6. SetsOK'
  BY DEF SetsOK
<1>7. VisitInv'
  BY DEF VisitInv, WalkOK, FlagsOK
<1> QED
  BY <1>1, <1>2, <1>3, <1>4, <1>5, <1>6, <1>7

LEMMA ConnectType ==
  ASSUME IInv, NEW s \in Sessions, Connect(s) PROVE IInv'
<1> USE DEF IInv, Connect, inLookUp, Crosses, lookUps, marking, redisVars, poolVars, bounds
<1>1. FlagsOK'
  BY DEF FlagsOK
<1>2. RedisOK'
  BY DEF RedisOK
<1>3. WalkOK'
  BY DEF WalkOK, Steps
<1>4. IdsOK'
  BY DEF IdsOK
<1>5. BoundsOK'
  BY DEF BoundsOK
<1>6. SetsOK'
  BY DEF SetsOK
<1>7. VisitInv'
  BY DEF VisitInv, WalkOK, FlagsOK
<1> QED
  BY <1>1, <1>2, <1>3, <1>4, <1>5, <1>6, <1>7

LEMMA FailType ==
  ASSUME IInv, NEW s \in Sessions, ConnectFails(s) PROVE IInv'
<1> USE DEF IInv, ConnectFails, AccountAnswer, UserFound, DeviceFound, DeviceUndefined, Found, Verdict, marking, LookUp, redisVars, poolVars, bounds
<1>1. FlagsOK'
  BY DEF FlagsOK
<1>2. RedisOK'
  BY DEF RedisOK
<1>3. WalkOK'
  BY DEF WalkOK, Steps
<1>4. IdsOK'
  BY DEF IdsOK
<1>5. BoundsOK'
  BY DEF BoundsOK
<1>6. SetsOK'
  BY DEF SetsOK, WalkOK, VisitInv
<1>7. VisitInv'
  BY DEF VisitInv, WalkOK, FlagsOK
<1> QED
  BY <1>1, <1>2, <1>3, <1>4, <1>5, <1>6, <1>7

LEMMA AccountType ==
  ASSUME IInv, NEW s \in Sessions, AskAccount(s) PROVE IInv'
<1> USE DEF IInv, AskAccount, AccountAnswer, UserFound, DeviceFound, DeviceUndefined, Found, Addressed, marking, LookUp, redisVars, poolVars, bounds
<1>1. FlagsOK'
  BY DEF FlagsOK
<1>2. RedisOK'
  BY DEF RedisOK
<1>3. WalkOK'
  BY DEF WalkOK, Steps, RedisOK
<1>4. IdsOK'
  BY DEF IdsOK
<1>5. BoundsOK'
  BY DEF BoundsOK
<1>6. SetsOK'
  BY DEF SetsOK
<1>7. VisitInv'
  BY DEF VisitInv, WalkOK, FlagsOK
<1> QED
  BY <1>1, <1>2, <1>3, <1>4, <1>5, <1>6, <1>7

LEMMA TokenType ==
  ASSUME IInv, NEW s \in Sessions, AskToken(s) PROVE IInv'
<1> USE DEF IInv, AskToken, Verdict, inLookUp, marking, LookUp, redisVars, poolVars, bounds
<1>1. FlagsOK'
  BY DEF FlagsOK
<1>2. RedisOK'
  BY DEF RedisOK
<1>3. WalkOK'
  BY DEF WalkOK, Steps
<1>4. IdsOK'
  BY DEF IdsOK
<1>5. BoundsOK'
  BY DEF BoundsOK
<1>6. SetsOK'
  BY DEF SetsOK, WalkOK, VisitInv
<1>7. VisitInv'
  BY DEF VisitInv, WalkOK, FlagsOK
<1> QED
  BY <1>1, <1>2, <1>3, <1>4, <1>5, <1>6, <1>7

LEMMA VisitType ==
  ASSUME IInv, NEW s \in Sessions, Visit(s) PROVE IInv'
<1> USE DEF IInv, Visit, lookUps, marking, redisVars, poolVars, bounds
<1>1. FlagsOK'
  BY DEF FlagsOK
<1>2. RedisOK'
  BY DEF RedisOK
<1>3. WalkOK'
  BY DEF WalkOK, Steps, Locations
<1>4. IdsOK'
  BY DEF IdsOK
<1>5. BoundsOK'
  BY DEF BoundsOK
<1>6. SetsOK'
  BY DEF SetsOK
<1>7. VisitInv'
  BY DEF VisitInv, WalkOK, FlagsOK
<1> QED
  BY <1>1, <1>2, <1>3, <1>4, <1>5, <1>6, <1>7

LEMMA LoadType ==
  ASSUME IInv, NEW s \in Sessions, LoadID(s) PROVE IInv'
<1> USE DEF IInv, LoadID, inLookUp, lookUps, marking, redisVars, poolVars, bounds
<1>1. FlagsOK'
  BY DEF FlagsOK
<1>2. RedisOK'
  BY DEF RedisOK
<1>3. WalkOK'
  BY DEF WalkOK, Steps
<1>4. IdsOK'
  BY DEF IdsOK
<1>5. BoundsOK'
  BY DEF BoundsOK
<1>6. SetsOK'
  BY DEF SetsOK
<1>7. VisitInv'
  BY DEF VisitInv, WalkOK, FlagsOK
<1> QED
  BY <1>1, <1>2, <1>3, <1>4, <1>5, <1>6, <1>7

LEMMA StoreType ==
  ASSUME IInv, NEW s \in Sessions, StoreID(s) PROVE IInv'
<1> USE DEF IInv, StoreID, inLookUp, marking, Ids, redisVars, poolVars, bounds
<1>1. FlagsOK'
  BY DEF FlagsOK
<1>2. RedisOK'
  BY DEF RedisOK
<1>3. WalkOK'
  BY DEF WalkOK, Steps
<1>4. IdsOK'
  BY DEF IdsOK
<1>5. BoundsOK'
  BY DEF BoundsOK
<1>6. SetsOK'
  BY DEF SetsOK, WalkOK, VisitInv
<1>7. VisitInv'
  BY DEF VisitInv, WalkOK, FlagsOK
<1> QED
  BY <1>1, <1>2, <1>3, <1>4, <1>5, <1>6, <1>7

LEMMA RecordType ==
  ASSUME IInv, NEW s \in Sessions, AddPublishMessage(s) PROVE IInv'
<1> USE DEF IInv, AddPublishMessage, inLookUp, lookUps, marking, GetMessageID, redisVars, poolVars, bounds
<1>1. FlagsOK'
  BY DEF FlagsOK
<1>2. RedisOK'
  BY DEF RedisOK
<1>3. WalkOK'
  BY DEF WalkOK, Steps
<1>4. IdsOK'
  <2>1. messageID % RecMod \in 0 .. RecMod - 1
    BY RecordedId DEF IdsOK, Ids
  <2> QED
    BY <2>1 DEF IdsOK
<1>5. BoundsOK'
  BY DEF BoundsOK
<1>6. SetsOK'
  BY DEF SetsOK
<1>7. VisitInv'
  BY DEF VisitInv, WalkOK, FlagsOK
<1> QED
  BY <1>1, <1>2, <1>3, <1>4, <1>5, <1>6, <1>7

LEMMA AnswerType ==
  ASSUME IInv, NEW s \in Sessions, Answer(s) PROVE IInv'
<1> USE DEF IInv, Answer, Audiences, ToUser, Ids, redisVars, poolVars, bounds
<1>1. FlagsOK'
  BY DEF FlagsOK
<1>2. RedisOK'
  BY DEF RedisOK
<1>3. WalkOK'
  BY DEF WalkOK, Steps, Locations
<1>4. IdsOK'
  BY DEF IdsOK
<1>5. BoundsOK'
  BY DEF BoundsOK
<1>6. SetsOK'
  BY DEF SetsOK
<1>7. VisitInv'
  BY DEF VisitInv, WalkOK, FlagsOK
<1> QED
  BY <1>1, <1>2, <1>3, <1>4, <1>5, <1>6, <1>7

LEMMA DiesType ==
  ASSUME IInv, NEW s \in Sessions, Dies(s) PROVE IInv'
<1> USE DEF IInv, Dies, Audiences, ToUser, Ids, LastConnected, redisVars, poolVars, bounds
<1>1. FlagsOK'
  BY DEF FlagsOK
<1>2. RedisOK'
  BY DEF RedisOK, Locations
<1>3. WalkOK'
  BY DEF WalkOK, Steps, Locations
<1>4. IdsOK'
  BY DEF IdsOK
<1>5. BoundsOK'
  BY DEF BoundsOK
<1>6. SetsOK'
  BY DEF SetsOK
<1>7. VisitInv'
  BY DEF VisitInv, WalkOK, FlagsOK
<1> QED
  BY <1>1, <1>2, <1>3, <1>4, <1>5, <1>6, <1>7

LEMMA BreakType ==
  ASSUME IInv, OndisConnectCallback PROVE IInv'
<1> USE DEF IInv, OndisConnectCallback, Crosses, inLookUp, lookUps, marking, redisVars, poolVars, bounds
<1>1. FlagsOK'
  BY DEF FlagsOK
<1>2. RedisOK'
  BY DEF RedisOK
<1>3. WalkOK'
  BY DEF WalkOK, Steps
<1>4. IdsOK'
  BY DEF IdsOK
<1>5. BoundsOK'
  BY DEF BoundsOK
<1>6. SetsOK'
  BY DEF SetsOK
<1>7. VisitInv'
  BY DEF VisitInv, WalkOK, FlagsOK
<1> QED
  BY <1>1, <1>2, <1>3, <1>4, <1>5, <1>6, <1>7

LEMMA MarkType ==
  ASSUME IInv, NEW t \in Tokens, Mark(t) PROVE IInv'
<1> USE DEF IInv, Mark, inLookUp, lookUps, marking, redisVars, poolVars, bounds
<1>1. FlagsOK'
  BY DEF FlagsOK
<1>2. RedisOK'
  BY DEF RedisOK
<1>3. WalkOK'
  BY DEF WalkOK, Steps
<1>4. IdsOK'
  BY DEF IdsOK
<1>5. BoundsOK'
  BY DEF BoundsOK
<1>6. SetsOK'
  BY DEF SetsOK, RedisOK
<1>7. VisitInv'
  BY DEF VisitInv, WalkOK, FlagsOK
<1> QED
  BY <1>1, <1>2, <1>3, <1>4, <1>5, <1>6, <1>7

\* The invariant holds at first, and every step keeps it.
LEMMA InvStep == IInv /\ [Next]_vars => IInv'
<1> SUFFICES ASSUME IInv, [Next]_vars PROVE IInv'
  OBVIOUS
<1>1. ASSUME NEW s \in Sessions, Session(s) PROVE IInv'
  BY <1>1, ParseType, CheckType, InfoType, ConnectType, FailType, AccountType, TokenType,
     VisitType, LoadType, StoreType, RecordType, AnswerType, DiesType DEF Session
<1>2. CASE UNCHANGED vars
  BY <1>2 DEF vars, IInv, FlagsOK, RedisOK, WalkOK, IdsOK, BoundsOK, SetsOK, VisitInv
<1> QED
  BY <1>1, <1>2, BreakType, MarkType DEF Next

LEMMA Invariance == Spec => []IInv
  BY TypeInit, InvStep, PTL DEF Spec

\* Every variable of a publish stays in its type: what is pushed to is a token,
\* although the token a session visits may be empty (OnPublish).
THEOREM TypeCorrect == Spec => []TypeOK
  BY Invariance, TypeParts, PTL

-----------------------------------------------------------------------------
(* The connection.                                                         *)

\* A session that is about to connect will connect to its own server, unless
\* RedisClient has been pointed elsewhere.
PointsHome ==
  \A s \in Sessions : step[s] = "connect" => info = server[location[s]] \/ crossed[s]

LEMMA ReachStep ==
  IInv /\ PointsHome /\ LookUpReaches /\ [Next]_vars => (PointsHome /\ LookUpReaches)'
<1> SUFFICES ASSUME IInv, PointsHome, LookUpReaches, [Next]_vars,
                    NEW t \in Sessions
             PROVE /\ step'[t] = "connect" => info' = server'[location'[t]] \/ crossed'[t]
                   /\ step'[t] = "ask" => link' = server'[location'[t]] \/ crossed'[t]
  BY DEF PointsHome, LookUpReaches, Reaches
<1> DEFINE Goal == /\ step'[t] = "connect" => info' = server'[location'[t]] \/ crossed'[t]
                   /\ step'[t] = "ask" => link' = server'[location'[t]] \/ crossed'[t]
<1> USE DEF IInv, WalkOK, FlagsOK, RedisOK, PointsHome, LookUpReaches, Reaches, redisVars,
        inLookUp
<1>1. ASSUME NEW s \in Sessions, CheckConnection(s) PROVE Goal
  BY <1>1 DEF CheckConnection, IsConnected
<1>2. ASSUME NEW s \in Sessions, SetServerInfo(s) PROVE Goal
  BY <1>2 DEF SetServerInfo, Crosses
<1>3. ASSUME NEW s \in Sessions, Connect(s) PROVE Goal
  BY <1>3 DEF Connect, Crosses
<1>4. ASSUME NEW s \in Sessions, ConnectFails(s) PROVE Goal
  BY <1>4 DEF ConnectFails, AccountAnswer, UserFound, DeviceFound, DeviceUndefined, Found,
     Verdict
<1>5. ASSUME NEW s \in Sessions, AskAccount(s) \/ AskToken(s) PROVE Goal
  BY <1>5 DEF AskAccount, AskToken, AccountAnswer, UserFound, DeviceFound, DeviceUndefined,
     Found, Verdict
<1>6. ASSUME NEW s \in Sessions,
             OnPublish(s) \/ Visit(s) \/ LoadID(s) \/ StoreID(s)
               \/ AddPublishMessage(s) \/ Answer(s)
      PROVE Goal
  BY <1>6 DEF OnPublish, Visit, LoadID, StoreID, AddPublishMessage, Answer
<1>7. ASSUME NEW s \in Sessions, Dies(s) PROVE Goal
  BY <1>7 DEF Dies
<1>8. CASE OndisConnectCallback
  BY <1>8 DEF OndisConnectCallback, Crosses
<1>9. ASSUME NEW u \in Tokens, Mark(u) PROVE Goal
  BY <1>9 DEF Mark
<1>10. CASE UNCHANGED vars
  BY <1>10 DEF vars
<1> QED
  BY <1>1, <1>2, <1>3, <1>4, <1>5, <1>6, <1>7, <1>8, <1>9, <1>10 DEF Next, Session

\* A look-up reaches its own server unless it found a connection to the other
\* one, or another thread or a break came after its check (CheckConnection,
\* ConnectSql).
THEOREM LookUpsReach == Spec => []LookUpReaches
<1>1. Init => PointsHome /\ LookUpReaches
  BY DEF Init, PointsHome, LookUpReaches
<1> QED
  BY <1>1, ReachStep, Invariance, PTL DEF Spec

-----------------------------------------------------------------------------
(* Message ids.                                                            *)

\* The pool still holds the id of a push that no other id has followed.
StoredIsCurrent ==
  \A s \in Sessions : step[s] = "record" /\ ~ overtaken[s] => messageID = tmp[s]

IdInv == StoredIsCurrent /\ AuditNamesItsPush

LEMMA IdStep == IInv /\ IdInv /\ [Next]_vars => IdInv'
<1> SUFFICES ASSUME IInv, IdInv, [Next]_vars, NEW t \in Sessions
             PROVE /\ step'[t] = "record" /\ ~ overtaken'[t] => messageID' = tmp'[t]
                   /\ recorded'[t] # tmp'[t] % RecMod =>
                        overtaken'[t] \/ step'[t] \in {"store", "record"}
  BY DEF IdInv, StoredIsCurrent, AuditNamesItsPush
<1> DEFINE Goal == /\ step'[t] = "record" /\ ~ overtaken'[t] => messageID' = tmp'[t]
                   /\ recorded'[t] # tmp'[t] % RecMod =>
                        overtaken'[t] \/ step'[t] \in {"store", "record"}
<1> USE DEF IInv, WalkOK, FlagsOK, IdsOK, IdInv, StoredIsCurrent, AuditNamesItsPush, poolVars
<1>1. ASSUME NEW s \in Sessions, LoadID(s) PROVE Goal
  BY <1>1 DEF LoadID
<1>2. ASSUME NEW s \in Sessions, StoreID(s) PROVE Goal
  BY <1>2 DEF StoreID
<1>3. ASSUME NEW s \in Sessions, AddPublishMessage(s) PROVE Goal
  BY <1>3 DEF AddPublishMessage, GetMessageID
<1>4. ASSUME NEW s \in Sessions, Answer(s) \/ Dies(s) PROVE Goal
  BY <1>4, RecordedId DEF Answer, Dies
<1>5. ASSUME NEW s \in Sessions,
             OnPublish(s) \/ CheckConnection(s) \/ SetServerInfo(s) \/ Connect(s)
               \/ Visit(s)
      PROVE Goal
  BY <1>5 DEF OnPublish, CheckConnection, SetServerInfo, Connect, Visit
<1>6. ASSUME NEW s \in Sessions, ConnectFails(s) \/ AskAccount(s) \/ AskToken(s) PROVE Goal
  BY <1>6 DEF ConnectFails, AskAccount, AskToken, AccountAnswer, UserFound, DeviceFound,
     DeviceUndefined, Found, Verdict
<1>7. CASE OndisConnectCallback \/ \E u \in Tokens : Mark(u)
  BY <1>7 DEF OndisConnectCallback, Mark
<1>8. CASE UNCHANGED vars
  BY <1>8 DEF vars
<1> QED
  BY <1>1, <1>2, <1>3, <1>4, <1>5, <1>6, <1>7, <1>8 DEF Next, Session

\* The record of a push carries its id, whatever other sessions push, unless
\* one of them has stored an id in between (PushNotification, GetMessageID).
THEOREM AuditCorrect == Spec => []AuditNamesItsPush
<1>1. Init => IdInv
  BY RecordedId DEF Init, IdInv, StoredIsCurrent, AuditNamesItsPush
<1>2. IdInv => AuditNamesItsPush
  BY DEF IdInv
<1> QED
  BY <1>1, <1>2, IdStep, Invariance, PTL DEF Spec

-----------------------------------------------------------------------------
(* The answer.                                                             *)

LookingUp(s) == step[s] \in {"check", "info", "connect", "ask"}

\* The account location has not answered yet.
Asking(s) == location[s] = "account" /\ LookingUp(s)

\* From the answer of the account location on, response_flag says what the
\* answer of the publish will say.
FlagTells(s) ==
  /\ response_flag[s] =>
       \/ Addressed(s) \ {NoToken} # {}
       \/ audience[s] # ToUser /\ (Addressed(s) = {} \/ Misled(s))
  /\ ~ response_flag[s] => Addressed(s) \subseteq {NoToken} \/ Misled(s)

FlagInv ==
  \A s \in Sessions :
    /\ Asking(s) => ~ response_flag[s]
    /\ step[s] # "idle" /\ ~ Asking(s) => FlagTells(s)

\* What the answer of the account location makes of the flag.
LEMMA AnswerFlag ==
  ASSUME IInv, NEW s \in Sessions, NEW devices \in SUBSET (Tokens \cup {NoToken}),
         AccountAnswer(s, devices), location'[s] = "account",
         devices = Addressed(s) \/ (devices = {} /\ Misled(s)'),
         UNCHANGED <<listed, audience>>
  PROVE step'[s] = "next" /\ FlagTells(s)'
<1>1. Addressed(s)' = Addressed(s)
  BY DEF Addressed
<1>2. CASE UserFound(s, devices) \/ DeviceFound(s, devices)
  BY <1>1, <1>2 DEF UserFound, DeviceFound, Found, FlagTells, IInv, WalkOK, FlagsOK
<1>3. CASE DeviceUndefined(s, devices)
  BY <1>1, <1>3 DEF DeviceUndefined, FlagTells, IInv, WalkOK, FlagsOK
<1> QED
  BY <1>2, <1>3 DEF AccountAnswer

LEMMA FlagStep == IInv /\ FlagInv /\ [Next]_vars => FlagInv'
<1> SUFFICES ASSUME IInv, FlagInv, [Next]_vars, NEW t \in Sessions
             PROVE /\ Asking(t)' => ~ response_flag'[t]
                   /\ step'[t] # "idle" /\ ~ Asking(t)' => FlagTells(t)'
  BY DEF FlagInv
<1> DEFINE Goal == /\ Asking(t)' => ~ response_flag'[t]
                   /\ step'[t] # "idle" /\ ~ Asking(t)' => FlagTells(t)'
<1>types. /\ step \in [Sessions -> Steps] /\ location \in [Sessions -> Locations]
          /\ audience \in [Sessions -> Audiences] /\ response_flag \in [Sessions -> BOOLEAN]
          /\ blind \in [Sessions -> SUBSET (Tokens \cup {NoToken})]
          /\ unreached \in [Sessions -> SUBSET (Tokens \cup {NoToken})]
          /\ listed \subseteq Tokens \cup {NoToken}
  BY DEF IInv, WalkOK, FlagsOK, SetsOK, RedisOK
<1>other. ASSUME UNCHANGED <<listed, audience[t], response_flag[t], blind[t], unreached[t],
                             step[t], location[t]>>
          PROVE Goal
  BY <1>other DEF FlagInv, FlagTells, Asking, LookingUp, Addressed, Misled
<1>walk. ASSUME UNCHANGED <<listed, audience[t], response_flag[t], location[t]>>,
                blind[t] \subseteq blind'[t], unreached[t] \subseteq unreached'[t],
                step[t] # "idle", (LookingUp(t) /\ ~ Asking(t)) \/ LookingUp(t)' = LookingUp(t)
         PROVE Goal
  BY <1>walk, <1>types DEF FlagInv, FlagTells, Asking, LookingUp, Addressed, Misled
<1>1. ASSUME NEW s \in Sessions, OnPublish(s) PROVE Goal
  <2>1. CASE t = s
    BY <1>1, <2>1, <1>types
    DEF OnPublish, Asking, LookingUp, IInv, VisitInv
  <2>2. CASE t # s
    BY <1>1, <2>2, <1>types, <1>other DEF OnPublish, redisVars, lookUps
  <2> QED
    BY <2>1, <2>2
<1>2. ASSUME NEW s \in Sessions, CheckConnection(s) \/ SetServerInfo(s) \/ Connect(s) PROVE Goal
  <2>1. CASE t = s
    BY <1>2, <2>1, <1>types, <1>walk DEF CheckConnection, SetServerInfo, Connect, redisVars,
       inLookUp, lookUps, LookingUp
  <2>2. CASE t # s
    BY <1>2, <2>2, <1>types, <1>other DEF CheckConnection, SetServerInfo, Connect, redisVars,
       inLookUp, lookUps
  <2> QED
    BY <2>1, <2>2
<1>3. ASSUME NEW s \in Sessions, AskAccount(s) PROVE Goal
  <2>1. CASE t = s
    <3> DEFINE devices == IF Reaches(s) THEN Addressed(s) ELSE {}
    <3>1. devices \in SUBSET (Tokens \cup {NoToken})
      BY <1>types DEF Addressed
    <3>2. devices = Addressed(s) \/ (devices = {} /\ Misled(s)')
      BY <1>3, <1>types DEF AskAccount, Misled, LookUp
    <3>3. /\ AccountAnswer(s, devices) /\ location'[s] = "account"
          /\ UNCHANGED <<listed, audience>>
      BY <1>3 DEF AskAccount, redisVars
    <3> HIDE DEF devices
    <3>4. step'[s] = "next" /\ FlagTells(s)'
      BY <3>1, <3>2, <3>3, AnswerFlag
    <3> QED
      BY <3>4, <2>1 DEF Asking, LookingUp
  <2>2. CASE t # s
    BY <1>3, <2>2, <1>types, <1>other DEF AskAccount, AccountAnswer, UserFound, DeviceFound,
       DeviceUndefined, Found, redisVars
  <2> QED
    BY <2>1, <2>2
<1>4. ASSUME NEW s \in Sessions, ConnectFails(s), location[s] = "account" PROVE Goal
  <2>1. CASE t = s
    <3>1. Misled(s)'
      BY <1>4, <1>types DEF ConnectFails, Misled, LookUp
    <3>2. AccountAnswer(s, {}) /\ location'[s] = "account" /\ UNCHANGED <<listed, audience>>
      BY <1>4 DEF ConnectFails
    <3>3. step'[s] = "next" /\ FlagTells(s)'
      BY <3>1, <3>2, AnswerFlag
    <3> QED
      BY <3>3, <2>1 DEF Asking, LookingUp
  <2>2. CASE t # s
    BY <1>4, <2>2, <1>types, <1>other DEF ConnectFails, AccountAnswer, UserFound, DeviceFound,
       DeviceUndefined, Found
  <2> QED
    BY <2>1, <2>2
<1>5. ASSUME NEW s \in Sessions, ConnectFails(s) \/ AskToken(s), location[s] = "token"
      PROVE Goal
  <2>1. CASE t = s
    <3>1. LookingUp(t) /\ ~ Asking(t)
      BY <1>5, <2>1 DEF ConnectFails, AskToken, LookingUp, Asking
    <3> QED
      BY <1>5, <2>1, <3>1, <1>types, <1>walk DEF ConnectFails, AskToken, Verdict, inLookUp,
         redisVars, LookingUp
  <2>2. CASE t # s
    BY <1>5, <2>2, <1>types, <1>other DEF ConnectFails, AskToken, Verdict, inLookUp, redisVars
  <2> QED
    BY <2>1, <2>2
<1>6. ASSUME NEW s \in Sessions, Visit(s) PROVE Goal
  <2>1. CASE t = s
    <3>1. FlagTells(s)
      BY <1>6 DEF Visit, FlagInv, Asking, LookingUp
    <3>2. UNCHANGED <<listed, audience, response_flag, blind, unreached>>
      BY <1>6 DEF Visit, redisVars, lookUps
    <3>3. location'[s] = "token"
      BY <1>6, <1>types DEF Visit
    <3> QED
      BY <2>1, <3>1, <3>2, <3>3 DEF FlagTells, Addressed, Misled, Asking
  <2>2. CASE t # s
    BY <1>6, <2>2, <1>types, <1>other DEF Visit, redisVars, lookUps
  <2> QED
    BY <2>1, <2>2
<1>7. ASSUME NEW s \in Sessions, LoadID(s) \/ StoreID(s) \/ AddPublishMessage(s) PROVE Goal
  <2>1. CASE t = s
    BY <1>7, <2>1, <1>types, <1>walk DEF LoadID, StoreID, AddPublishMessage, redisVars,
       inLookUp, lookUps, LookingUp
  <2>2. CASE t # s
    BY <1>7, <2>2, <1>types, <1>other DEF LoadID, StoreID, AddPublishMessage, redisVars,
       inLookUp, lookUps
  <2> QED
    BY <2>1, <2>2
<1>8. ASSUME NEW s \in Sessions, Answer(s) PROVE Goal
  <2>1. CASE t = s
    BY <1>8, <2>1, <1>types DEF Answer, Asking, LookingUp
  <2>2. CASE t # s
    BY <1>8, <2>2, <1>types, <1>other DEF Answer, redisVars
  <2> QED
    BY <2>1, <2>2
<1>9. ASSUME NEW s \in Sessions, Dies(s) PROVE Goal
  BY <1>9 DEF Dies, Asking, LookingUp
<1>10. CASE OndisConnectCallback \/ (\E u \in Tokens : Mark(u)) \/ UNCHANGED vars
  BY <1>10, <1>other DEF OndisConnectCallback, Mark, vars, inLookUp, lookUps
<1>11. \A s \in Sessions : location[s] = "account" \/ location[s] = "token"
  BY <1>types DEF Locations
<1> QED
  BY <1>1, <1>2, <1>3, <1>4, <1>5, <1>6, <1>7, <1>8, <1>9, <1>10, <1>11 DEF Next, Session,
     AskToken

\* An acknowledgement means that a device was listed, a refusal that none was,
\* unless the account location was not reached or the device was not found
\* (OnPublish).
THEOREM AnswersAreTrue == Spec => []AnswerTellsTruth
<1>1. Init => FlagInv
  BY DEF Init, FlagInv, Asking, LookingUp
<1>2. FlagInv => AnswerTellsTruth
  BY DEF FlagInv, FlagTells, AnswerTellsTruth, Puback, Refused, Ready, Asking, LookingUp
<1> QED
  BY <1>1, <1>2, FlagStep, Invariance, PTL DEF Spec

-----------------------------------------------------------------------------
(* The devices of a publish.                                               *)

MarksKnown(s) ==
  step[s] # "idle" => alwaysInvalid[s] \subseteq invalid /\ invalid \subseteq wasInvalid[s]

Pushing(s) == step[s] \in {"load", "store"}

\* What is pushed to, or about to be, was not marked all the time.
PushIsFair(s) ==
  /\ step[s] = "idle" => pushed[s] = {}
  /\ step[s] # "idle" => \A t \in pushed[s] : t \notin alwaysInvalid[s] \/ t \in blind[s]
  /\ Pushing(s) => token[s] \notin alwaysInvalid[s] \/ token[s] \in blind[s]

\* Nobody is forgotten: a device waits for its visit, is visited, or has been.
NobodyForgotten(s) ==
  step[s] # "idle" /\ ~ Asking(s) /\ ~ Misled(s) =>
    \A t \in Addressed(s) \ {NoToken} :
      \/ t \in todo[s]
      \/ t = token[s] /\ (LookingUp(s) \/ Pushing(s))
      \/ t \in pushed[s] \cup wasInvalid[s] \cup unreached[s]

DeviceInv ==
  \A s \in Sessions : MarksKnown(s) /\ PushIsFair(s) /\ NobodyForgotten(s)

SetTypes ==
  /\ step \in [Sessions -> Steps] /\ location \in [Sessions -> Locations]
  /\ token \in [Sessions -> Tokens \cup {NoToken}]
  /\ todo \in [Sessions -> SUBSET Tokens]
  /\ pushed \in [Sessions -> SUBSET Tokens]
  /\ blind \in [Sessions -> SUBSET (Tokens \cup {NoToken})]
  /\ unreached \in [Sessions -> SUBSET (Tokens \cup {NoToken})]
  /\ wasInvalid \in [Sessions -> SUBSET Tokens]
  /\ alwaysInvalid \in [Sessions -> SUBSET Tokens]
  /\ listed \subseteq Tokens \cup {NoToken}
  /\ audience \in [Sessions -> Audiences]

\* The account location answers: all devices wait, unless it was not reached.
LEMMA AnswerDevices ==
  ASSUME SetTypes, NEW s \in Sessions, NEW devices \in SUBSET (Tokens \cup {NoToken}),
         MarksKnown(s), PushIsFair(s), step[s] # "idle",
         AccountAnswer(s, devices),
         devices = Addressed(s) \/ (devices = {} /\ Misled(s)'),
         blind[s] \subseteq blind'[s],
         UNCHANGED <<listed, invalid, audience, pushed, wasInvalid, alwaysInvalid>>
  PROVE MarksKnown(s)' /\ PushIsFair(s)' /\ NobodyForgotten(s)'
<1>1. step'[s] = "next"
  BY DEF AccountAnswer, UserFound, DeviceFound, DeviceUndefined, Found, SetTypes
<1>2. Misled(s)' \/ todo'[s] = Addressed(s) \ {NoToken} \/ Addressed(s) = {}
  BY DEF AccountAnswer, UserFound, DeviceFound, DeviceUndefined, Found, SetTypes
<1>3. Addressed(s)' = Addressed(s)
  BY DEF Addressed
<1>4. MarksKnown(s)' /\ PushIsFair(s)'
  BY <1>1 DEF MarksKnown, PushIsFair, Pushing
<1>5. NobodyForgotten(s)'
  BY <1>2, <1>3 DEF NobodyForgotten
<1> QED
  BY <1>4, <1>5

LEMMA DeviceStep == IInv /\ DeviceInv /\ [Next]_vars => DeviceInv'
<1> SUFFICES ASSUME IInv, DeviceInv, [Next]_vars, NEW r \in Sessions
             PROVE MarksKnown(r)' /\ PushIsFair(r)' /\ NobodyForgotten(r)'
  BY DEF DeviceInv
<1> DEFINE Goal == MarksKnown(r)' /\ PushIsFair(r)' /\ NobodyForgotten(r)'
<1>types. SetTypes
  BY DEF SetTypes, IInv, WalkOK, SetsOK, RedisOK
<1>inv. MarksKnown(r) /\ PushIsFair(r) /\ NobodyForgotten(r)
  BY DEF DeviceInv
<1>other. ASSUME UNCHANGED <<listed, invalid, audience[r], step[r], location[r], token[r],
                             todo[r], pushed[r], blind[r], unreached[r], wasInvalid[r],
                             alwaysInvalid[r]>>
          PROVE Goal
  BY <1>other, <1>inv DEF MarksKnown, PushIsFair, NobodyForgotten, Asking, LookingUp, Pushing,
     Addressed, Misled
<1>1. ASSUME NEW s \in Sessions, OnPublish(s) PROVE Goal
  <2>1. CASE r = s
    BY <1>1, <2>1, <1>types, <1>inv
    DEF OnPublish, redisVars, lookUps, SetTypes, MarksKnown, PushIsFair, NobodyForgotten,
        Asking, LookingUp, Pushing, IInv, VisitInv
  <2>2. CASE r # s
    BY <1>1, <2>2, <1>types, <1>other DEF OnPublish, redisVars, lookUps, SetTypes
  <2> QED
    BY <2>1, <2>2
<1>2. ASSUME NEW s \in Sessions, CheckConnection(s) \/ SetServerInfo(s) \/ Connect(s) PROVE Goal
  <2>0. UNCHANGED <<listed, invalid, audience, location, token, todo, pushed, blind, unreached,
                    wasInvalid, alwaysInvalid>>
    BY <1>2 DEF CheckConnection, SetServerInfo, Connect, redisVars, inLookUp, lookUps, marking
  <2>1. CASE r = s
    <3>1. LookingUp(r) /\ LookingUp(r)'
      BY <1>2, <2>1, <1>types DEF CheckConnection, SetServerInfo, Connect, LookingUp, SetTypes
    <3> QED
      BY <2>0, <3>1, <1>inv DEF MarksKnown, PushIsFair, NobodyForgotten, Asking, LookingUp,
         Pushing, Addressed, Misled
  <2>2. CASE r # s
    BY <1>2, <2>0, <2>2, <1>types, <1>other DEF CheckConnection, SetServerInfo, Connect,
       SetTypes
  <2> QED
    BY <2>1, <2>2
<1>3. ASSUME NEW s \in Sessions, AskAccount(s) PROVE Goal
  <2>1. CASE r = s
    <3> DEFINE devices == IF Reaches(s) THEN Addressed(s) ELSE {}
    <3>1. devices \in SUBSET (Tokens \cup {NoToken})
      BY <1>types DEF Addressed, SetTypes
    <3>2. devices = Addressed(s) \/ (devices = {} /\ Misled(s)')
      BY <1>3, <1>types DEF AskAccount, Misled, LookUp, SetTypes
    <3>3. /\ AccountAnswer(s, devices) /\ step[s] # "idle"
          /\ UNCHANGED <<listed, invalid, audience, pushed, wasInvalid, alwaysInvalid>>
          /\ blind[s] \subseteq blind'[s]
      BY <1>3, <1>types DEF AskAccount, redisVars, marking, SetTypes
    <3> HIDE DEF devices
    <3> QED
      BY <3>1, <3>2, <3>3, <2>1, <1>types, <1>inv, AnswerDevices
  <2>2. CASE r # s
    BY <1>3, <2>2, <1>types, <1>other DEF AskAccount, AccountAnswer, UserFound, DeviceFound,
       DeviceUndefined, Found, redisVars, marking, SetTypes
  <2> QED
    BY <2>1, <2>2
<1>4. ASSUME NEW s \in Sessions, ConnectFails(s), location[s] = "account" PROVE Goal
  <2>1. CASE r = s
    <3>1. Misled(s)'
      BY <1>4, <1>types DEF ConnectFails, Misled, LookUp, SetTypes
    <3>2. /\ AccountAnswer(s, {}) /\ step[s] # "idle"
          /\ UNCHANGED <<listed, invalid, audience, pushed, wasInvalid, alwaysInvalid, blind>>
      BY <1>4 DEF ConnectFails, marking
    <3> QED
      BY <3>1, <3>2, <2>1, <1>types, <1>inv, AnswerDevices
  <2>2. CASE r # s
    BY <1>4, <2>2, <1>types, <1>other DEF ConnectFails, AccountAnswer, UserFound, DeviceFound,
       DeviceUndefined, Found, marking, SetTypes
  <2> QED
    BY <2>1, <2>2
<1>5. ASSUME NEW s \in Sessions, ConnectFails(s), location[s] = "token" PROVE Goal
  <2>1. CASE r = s
    <3>1. /\ step'[s] = "next" /\ token[s] \in unreached'[s]
          /\ unreached[s] \subseteq unreached'[s]
          /\ LookingUp(s) /\ ~ Asking(s)
          /\ UNCHANGED <<listed, invalid, audience, token, todo, pushed, blind, wasInvalid,
                         alwaysInvalid>>
      BY <1>5, <1>types DEF ConnectFails, Verdict, UnreachedIsValid, LookUp, marking, SetTypes,
         LookingUp, Asking
    <3> QED
      BY <3>1, <2>1, <1>inv DEF MarksKnown, PushIsFair, NobodyForgotten, LookingUp, Pushing,
         Addressed, Misled
  <2>2. CASE r # s
    BY <1>5, <2>2, <1>types, <1>other DEF ConnectFails, Verdict, UnreachedIsValid, marking,
       SetTypes
  <2> QED
    BY <2>1, <2>2
<1>6. ASSUME NEW s \in Sessions, AskToken(s) PROVE Goal
  <2>0. UNCHANGED <<listed, invalid, audience, location, token, todo, unreached, wasInvalid,
                    alwaysInvalid>>
    BY <1>6 DEF AskToken, redisVars, inLookUp, marking
  <2>1. CASE r = s
    <3> DEFINE valid == ~ (Reaches(s) /\ token[s] \in invalid)
    <3>1. /\ blind[s] \subseteq blind'[s] /\ LookingUp(s) /\ ~ Asking(s)
          /\ valid => token[s] \notin invalid \/ token[s] \in blind'[s]
      BY <1>6, <1>types DEF AskToken, LookUp, SetTypes, LookingUp, Asking
    <3>2. \/ valid /\ step'[s] = "load" /\ pushed' = pushed
          \/ valid /\ step'[s] = "next" /\ pushed'[s] = pushed[s] \cup {token[s]}
          \/ ~ valid /\ step'[s] = "next" /\ pushed' = pushed
      BY <1>6, <1>types DEF AskToken, Verdict, SetTypes
    <3> HIDE DEF valid
    <3>3. MarksKnown(s)'
      BY <2>0, <2>1, <3>1, <1>inv DEF MarksKnown, LookingUp
    <3>4. PushIsFair(s)'
      BY <2>0, <2>1, <3>1, <3>2, <1>inv DEF PushIsFair, MarksKnown, LookingUp, Pushing
    <3>5. ~ valid => token[s] \in wasInvalid[s]
      BY <2>1, <3>1, <1>inv DEF valid, MarksKnown, LookingUp
    <3>6. NobodyForgotten(s)'
      BY <2>0, <2>1, <3>1, <3>2, <3>5, <1>inv DEF NobodyForgotten, LookingUp, Pushing,
         Addressed, Misled
    <3> QED
      BY <2>1, <3>3, <3>4, <3>6
  <2>2. CASE r # s
    BY <1>6, <2>0, <2>2, <1>types, <1>other DEF AskToken, Verdict, SetTypes
  <2> QED
    BY <2>1, <2>2
<1>7. ASSUME NEW s \in Sessions, Visit(s) PROVE Goal
  <2>0. UNCHANGED <<listed, invalid, audience, pushed, blind, unreached, wasInvalid,
                    alwaysInvalid>>
    BY <1>7 DEF Visit, redisVars, lookUps, marking
  <2>1. CASE r = s
    <3>1. PICK t \in todo[s] : todo'[s] = todo[s] \ {t} /\ token'[s] = t
      BY <1>7, <1>types DEF Visit, SetTypes
    <3>2. step[s] = "next" /\ step'[s] = "check"
      BY <1>7, <1>types DEF Visit, SetTypes
    <3>3. MarksKnown(s)' /\ PushIsFair(s)'
      BY <2>0, <2>1, <3>2, <1>inv DEF MarksKnown, PushIsFair, Pushing
    <3>4. NobodyForgotten(s)'
      BY <2>0, <2>1, <3>1, <3>2, <1>inv DEF NobodyForgotten, Asking, LookingUp, Pushing,
         Addressed, Misled
    <3> QED
      BY <2>1, <3>3, <3>4
  <2>2. CASE r # s
    BY <1>7, <2>0, <2>2, <1>types, <1>other DEF Visit, SetTypes
  <2> QED
    BY <2>1, <2>2
<1>8. ASSUME NEW s \in Sessions, LoadID(s) \/ AddPublishMessage(s) PROVE Goal
  <2>0. UNCHANGED <<listed, invalid, audience, location, token, todo, pushed, blind, unreached,
                    wasInvalid, alwaysInvalid>>
    BY <1>8 DEF LoadID, AddPublishMessage, redisVars, inLookUp, lookUps, marking
  <2>1. CASE r = s
    <3>1. \/ step[s] = "load" /\ step'[s] = "store"
          \/ step[s] = "record" /\ step'[s] = "next"
      BY <1>8, <1>types DEF LoadID, AddPublishMessage, SetTypes
    <3> QED
      BY <2>0, <2>1, <3>1, <1>inv DEF MarksKnown, PushIsFair, NobodyForgotten, Asking,
         LookingUp, Pushing, Addressed, Misled
  <2>2. CASE r # s
    BY <1>8, <2>0, <2>2, <1>types, <1>other DEF LoadID, AddPublishMessage, SetTypes
  <2> QED
    BY <2>1, <2>2
<1>9. ASSUME NEW s \in Sessions, StoreID(s) PROVE Goal
  <2>0. UNCHANGED <<listed, invalid, audience, location, token, todo, blind, unreached,
                    wasInvalid, alwaysInvalid>>
    BY <1>9 DEF StoreID, redisVars, inLookUp, marking
  <2>1. CASE r = s
    <3>1. /\ step[s] = "store" /\ step'[s] = "record"
          /\ pushed'[s] = pushed[s] \cup {token[s]}
      BY <1>9, <1>types DEF StoreID, SetTypes
    <3> QED
      BY <2>0, <2>1, <3>1, <1>inv DEF MarksKnown, PushIsFair, NobodyForgotten, Asking,
         LookingUp, Pushing, Addressed, Misled
  <2>2. CASE r # s
    BY <1>9, <2>0, <2>2, <1>types, <1>other DEF StoreID, SetTypes
  <2> QED
    BY <2>1, <2>2
<1>10. ASSUME NEW s \in Sessions, Answer(s) PROVE Goal
  <2>1. CASE r = s
    BY <1>10, <2>1, <1>types DEF Answer, SetTypes, MarksKnown, PushIsFair, NobodyForgotten,
       Pushing
  <2>2. CASE r # s
    BY <1>10, <2>2, <1>types, <1>other DEF Answer, redisVars, SetTypes
  <2> QED
    BY <2>1, <2>2
<1>11. ASSUME NEW s \in Sessions, Dies(s) PROVE Goal
  BY <1>11 DEF Dies, MarksKnown, PushIsFair, NobodyForgotten, Pushing
<1>12. CASE OndisConnectCallback \/ UNCHANGED vars
  BY <1>12, <1>other DEF OndisConnectCallback, vars, inLookUp, lookUps, marking
<1>13. ASSUME NEW u \in Tokens, Mark(u) PROVE Goal
  <2>1. UNCHANGED <<listed, audience, step, location, token, todo, pushed, blind, unreached>>
    BY <1>13 DEF Mark, inLookUp, lookUps
  <2>2. step[r] # "idle" => /\ wasInvalid'[r] = wasInvalid[r] \cup invalid'
                            /\ alwaysInvalid'[r] = alwaysInvalid[r] \cap invalid'
    BY <1>13 DEF Mark
  <2> QED
    BY <2>1, <2>2, <1>inv DEF MarksKnown, PushIsFair, NobodyForgotten, Asking, LookingUp,
       Pushing, Addressed, Misled
<1>14. \A s \in Sessions : location[s] = "account" \/ location[s] = "token"
  BY <1>types DEF SetTypes, Locations
<1> QED
  BY <1>1, <1>2, <1>3, <1>4, <1>5, <1>6, <1>7, <1>8, <1>9, <1>10, <1>11, <1>12, <1>13, <1>14
  DEF Next, Session

\* When a publish is answered, every device it was meant for was pushed to, was
\* marked at some moment, or could not be checked; and no token that was marked
\* all the time was pushed to after a look-up that reached its server (OnPublish,
\* IsValidDeviceToken).
THEOREM TokensAreRespected == Spec => []TokensRespected
<1>1. Init => DeviceInv
  BY DEF Init, DeviceInv, MarksKnown, PushIsFair, NobodyForgotten, Pushing
<1>2. DeviceInv => TokensRespected
  BY DEF DeviceInv, PushIsFair, NobodyForgotten, TokensRespected, Ready, Asking, LookingUp,
     Pushing
<1> QED
  BY <1>1, <1>2, DeviceStep, Invariance, PTL DEF Spec
=============================================================================
