--------------------------- MODULE ApnsClientPool ---------------------------
(***************************************************************************)
(* The APNs client pool (ApsApnsClientPool) with its three TLS clients     *)
(* (SslTcpClient): application sessions append messages to the send list   *)
(* of the advance client, the client's own task writes the head of the     *)
(* list, and the pool's blocking task (re)connects the clients that wait   *)
(* in the connect queue.                                                   *)
(*                                                                         *)
(* The base class TcpClient, the task scheduler, OSQueue and OpenSSL are   *)
(* not part of the repository; what is assumed of them is marked external. *)
(***************************************************************************)
EXTENDS Naturals, Sequences, FiniteSets

CONSTANTS
  Sessions,   \* the application sessions that publish to iOS devices
  IdMod,      \* number of values of m_messageID: 2^32 in the code
  MaxList,    \* bound: a session starts a push only below this list length
  Unstable    \* bound: the clients whose peer closes and whose timer fires

ASSUME PoolAssumption ==
  /\ IdMod \in Nat \ {0}
  /\ MaxList \in Nat \ {0}

Clients == {"advance", "primery", "feedback"}

ASSUME UnstableAssumption == Unstable \subseteq Clients

Queued  == {"advance", "primery"}     \* the clients that ever enter fQueue

\* Socket states.
\*   bare    a new socket without address, certificate and key
\*   ready   parameters set, not connected
\*   half    kConnected is set in fState, but the TLS handshake has failed
\*   up      connected, writable
\*   full    connected, the kernel buffer is full: a write would block
\*   broken  the peer has gone, which nobody has noticed yet
Connected  == {"up", "full", "broken"}
SockStates == {"bare", "ready", "half"} \cup Connected

Events == {"lcs", "connect", "timeout"}

VARIABLES
  messageID,  \* m_messageID, incremented without a lock
  pc,         \* where each session is inside its publish
  tmp,        \* the value of m_messageID a session has loaded
  id,         \* the id a session gave to its current message
  fMsgList,   \* the send list of the advance client
  writeEv,    \* kWriteEvent is pending for the advance client's task
  status,     \* connect status each client's base class keeps
  sock,       \* socket state of each client
  timer,      \* the inactivity timer of each client is armed
  task,       \* how far each client's own task is inside a handler
  disarmed,   \* auxiliary: the advance client was online when its timer was
              \* switched off, and nobody has armed it since
  fQueue,     \* clients that wait to be connected
  poolEv,     \* events pending for the pool's task
  pool,       \* what the pool's task is doing: its step and its client
  gone,       \* the socket the pool is connecting has been replaced
  lcsFind     \* a Find query of the pool is waiting in the LCS

sessionVars == <<messageID, pc, tmp, id>>
clientVars  == <<fMsgList, writeEv, status, sock, timer, task, disarmed>>
poolVars    == <<fQueue, poolEv, pool, gone, lcsFind>>
vars == <<messageID, pc, tmp, id,
          fMsgList, writeEv, status, sock, timer, task, disarmed,
          fQueue, poolEv, pool, gone, lcsFind>>

\* A client's task is disconnecting (Offline is half done), failing or failed
\* (in OnTrySendMsg, before or after that Offline), replacing (in OnTimeout,
\* about to replace the socket), replaced or renewed.
TaskSteps == {"idle", "disconnecting", "failing", "failed",
              "replacing", "replaced", "renewed"}

\* The pool's task is visiting a client of the queue, connecting it, or at
\* one of the steps that follow a connection: each names what was done last.
PoolSteps == {"idle", "visit", "connecting", "connected", "left", "online",
              "armed", "feedback"}

Message == [by : Sessions, id : 0 .. IdMod - 1]

Idle == [at |-> "none", step |-> "idle"]

TypeOK ==
  /\ messageID \in 0 .. IdMod - 1
  /\ pc \in [Sessions -> {"idle", "loaded", "numbered"}]
  /\ tmp \in [Sessions -> 0 .. IdMod - 1]
  /\ id \in [Sessions -> 0 .. IdMod - 1]
  /\ fMsgList \in Seq(Message)
  /\ writeEv \in BOOLEAN
  /\ status \in [Clients -> {"offline", "online"}]
  /\ sock \in [Clients -> SockStates]
  /\ timer \in [Clients -> BOOLEAN]
  /\ task \in [Clients -> TaskSteps]
  /\ disarmed \in BOOLEAN
  /\ fQueue \in {<<>>, <<"advance">>, <<"primery">>,
                 <<"advance", "primery">>, <<"primery", "advance">>}
  /\ poolEv \in SUBSET Events
  /\ pool \in [at : Clients \cup {"none"}, step : PoolSteps]
  /\ gone \in BOOLEAN
  /\ lcsFind \in BOOLEAN

Init ==
  /\ messageID = 0
  /\ pc = [s \in Sessions |-> "idle"]
  /\ tmp = [s \in Sessions |-> 0]
  /\ id = [s \in Sessions |-> 0]
  /\ fMsgList = <<>>
  /\ writeEv = FALSE
  /\ status = [c \in Clients |-> "offline"]
  /\ sock = [c \in Clients |-> "ready"]
  /\ timer = [c \in Clients |-> TRUE]
  /\ task = [c \in Clients |-> "idle"]
  /\ disarmed = FALSE
  /\ fQueue = <<"advance", "primery">>   \* enqueued, but nobody is signalled
  /\ poolEv = {}
  /\ pool = Idle
  /\ gone = FALSE
  /\ lcsFind = FALSE

-----------------------------------------------------------------------------
(* Application sessions: PushNotification.                                 *)

\* The increment of m_messageID is not atomic: first it is loaded ...
LoadID(s) ==
  /\ pc[s] = "idle"
  /\ Len(fMsgList) < MaxList
  /\ tmp' = [tmp EXCEPT ![s] = messageID]
  /\ pc' = [pc EXCEPT ![s] = "loaded"]
  /\ UNCHANGED <<messageID, id>>
  /\ UNCHANGED clientVars
  /\ UNCHANGED poolVars

\* ... then the successor is stored, whatever was stored in between.
StoreID(s) ==
  /\ pc[s] = "loaded"
  /\ messageID' = (tmp[s] + 1) % IdMod
  /\ id' = [id EXCEPT ![s] = (tmp[s] + 1) % IdMod]
  /\ pc' = [pc EXCEPT ![s] = "numbered"]
  /\ UNCHANGED tmp
  /\ UNCHANGED clientVars
  /\ UNCHANGED poolVars

\* Mutant of ListAppend: the newest message goes to the head.
ListPush(list, m) == <<m>> \o list

ListAppend(list, m) == Append(list, m)

\* fMutexList is held by OnTrySendMsg while it fails, and by OnTimeout until
\* the socket is replaced.
ListIsLocked == task["advance"] \in {"failing", "failed", "replacing"}

\* OnPublish / OnSendMessage: append under fMutexList and wake the client.
OnSendMessage(s) ==
  /\ pc[s] = "numbered"
  /\ ~ ListIsLocked
  /\ fMsgList' = ListAppend(fMsgList, [by |-> s, id |-> id[s]])
  /\ writeEv' = TRUE
  /\ pc' = [pc EXCEPT ![s] = "idle"]
  /\ UNCHANGED <<messageID, tmp, id>>
  /\ UNCHANGED <<status, sock, timer, task, disarmed>>
  /\ UNCHANGED poolVars

-----------------------------------------------------------------------------
(* The tasks of the clients.                                               *)

InQueue(q, c) == \E i \in 1 .. Len(q) : q[i] = c

\* OSQueue::EnQueue ignores an element that is already in this queue.
EnQueue(q, c) == IF InQueue(q, c) THEN q ELSE Append(q, c)

\* Only two clients are ever queued: what remains is the other one, if there.
Remove(q, c) ==
  LET other == IF c = "advance" THEN "primery" ELSE "advance" IN
  IF InQueue(q, other) THEN <<other>> ELSE <<>>

\* A task runs on one thread at a time: nothing is written inside a handler.
WriteEvent ==
  /\ writeEv
  /\ task["advance"] = "idle"

\* kWriteEvent with an empty list.
TrySendNothing ==
  /\ WriteEvent
  /\ fMsgList = <<>>
  /\ writeEv' = FALSE
  /\ UNCHANGED <<fMsgList, status, sock, timer, task, disarmed>>
  /\ UNCHANGED sessionVars
  /\ UNCHANGED poolVars

\* SSL_write accepts the head (a write to a broken connection may still be
\* accepted by the kernel), or returns SSL_ERROR_WANT_WRITE on a full buffer:
\* SslTcpSocket::Send reports OS_NoErr in both cases and the head is removed.
TrySendHead ==
  /\ WriteEvent
  /\ fMsgList # <<>>
  /\ sock["advance"] \in Connected
  /\ fMsgList' = Tail(fMsgList)
  /\ writeEv' = (Tail(fMsgList) # <<>>)
  /\ UNCHANGED <<status, sock, timer, task, disarmed>>
  /\ UNCHANGED sessionVars
  /\ UNCHANGED poolVars

\* The socket is not connected, or SSL_write fails for any other reason: the
\* peer has gone, or the write repeats a blocked one with other bytes. The
\* head stays. Whether the base class has called OnNetDisconnect before SendData
\* returns is external; if so, the status is written and the timer is next.
TrySendFails ==
  /\ WriteEvent
  /\ fMsgList # <<>>
  /\ writeEv' = FALSE
  /\ sock' = [sock EXCEPT !["advance"] = IF @ = "bare" THEN "bare" ELSE "ready"]
  /\ \/ /\ task' = [task EXCEPT !["advance"] = "failed"]
        /\ UNCHANGED status
     \/ /\ task' = [task EXCEPT !["advance"] = "failing"]
        /\ status' = [status EXCEPT !["advance"] = "offline"]
  /\ UNCHANGED <<fMsgList, timer, disarmed>>
  /\ UNCHANGED sessionVars
  /\ UNCHANGED poolVars

\* A read event on a connection that has ended or was never complete, or on a
\* socket whose kConnected a failed write has cleared: Read clears kConnected,
\* the base class calls OnNetDisconnect. Nothing asks for a new connection.
OnNetDisconnect(c) ==
  /\ task[c] = "idle"
  /\ \/ sock[c] = "half"
     \/ status[c] = "online" /\ sock[c] \notin {"up", "full"}
  /\ sock' = [sock EXCEPT ![c] = IF @ = "bare" THEN "bare" ELSE "ready"]
  /\ status' = [status EXCEPT ![c] = "offline"]
  /\ task' = [task EXCEPT ![c] = "disconnecting"]
  /\ UNCHANGED <<fMsgList, writeEv, timer, disarmed>>
  /\ UNCHANGED sessionVars
  /\ UNCHANGED poolVars

\* The second half of Offline: SetTimeout(0), without a look at the status,
\* which the pool's task may have set to online in between.
OfflineTimer(c) ==
  /\ task[c] \in {"disconnecting", "failing"}
  /\ timer' = [timer EXCEPT ![c] = FALSE]
  /\ disarmed' = IF c = "advance" THEN status[c] = "online" ELSE disarmed
  /\ task' = [task EXCEPT ![c] = IF @ = "failing" THEN "failed" ELSE "idle"]
  /\ UNCHANGED <<fMsgList, writeEv, status, sock>>
  /\ UNCHANGED sessionVars
  /\ UNCHANGED poolVars

\* An error response of the APNs: OnResponse asks the LCS for the messages
\* recorded from that id on, in the name of the pool.
OnResponse ==
  /\ sock["advance"] \in {"up", "full"}
  /\ status["advance"] = "online"
  /\ task["advance"] = "idle"
  /\ ~ lcsFind
  /\ lcsFind' = TRUE
  /\ UNCHANGED <<fQueue, poolEv, pool, gone>>
  /\ UNCHANGED sessionVars
  /\ UNCHANGED clientVars

\* SslTcpClient::OnTimeout arms the timer and takes the client offline ...
OnTimeout(c) ==
  /\ task[c] = "idle"
  /\ timer[c]
  /\ status' = [status EXCEPT ![c] = "offline"]
  /\ disarmed' = (disarmed /\ c # "advance")
  /\ task' = [task EXCEPT ![c] = "replacing"]
  /\ UNCHANGED <<fMsgList, writeEv, sock, timer>>
  /\ UNCHANGED sessionVars
  /\ UNCHANGED poolVars

\* ... then deletes the socket and makes a new one, even if the pool's task is
\* connecting it right now. The primery and the feedback client stop here.
ReplaceSocket(c) ==
  /\ task[c] = "replacing"
  /\ sock' = [sock EXCEPT ![c] = "bare"]
  /\ gone' = (gone \/ (pool.at = c /\ pool.step \in {"connecting", "feedback"}))
  /\ task' = [task EXCEPT ![c] = IF c = "advance" THEN "replaced" ELSE "idle"]
  /\ UNCHANGED <<fMsgList, writeEv, status, timer, disarmed>>
  /\ UNCHANGED sessionVars
  /\ UNCHANGED <<fQueue, poolEv, pool, lcsFind>>

\* Mutant of ReInitializeParam: the advance client is forgotten.
ReInitializeFeedback(socks) ==
  [c \in Clients |-> IF c = "feedback" /\ socks[c] = "bare" THEN "ready"
                                                            ELSE socks[c]]

\* ReInitializeParam serves the feedback and the advance client only.
ReInitializeParam(socks) ==
  [c \in Clients |-> IF c # "primery" /\ socks[c] = "bare" THEN "ready"
                                                           ELSE socks[c]]

\* ApsApnsAdvanceClient::OnTimeout goes on without fMutexList: it gives the
\* new sockets their parameters, and then asks to be connected.
AdvanceReInitialize ==
  /\ task["advance"] = "replaced"
  /\ sock' = ReInitializeParam(sock)
  /\ task' = [task EXCEPT !["advance"] = "renewed"]
  /\ UNCHANGED <<fMsgList, writeEv, status, timer, disarmed>>
  /\ UNCHANGED sessionVars
  /\ UNCHANGED poolVars

\* The end of OnTimeout and of an OnTrySendMsg that failed: EnQueue, Signal.
AskToConnect ==
  /\ task["advance"] \in {"failed", "renewed"}
  /\ fQueue' = EnQueue(fQueue, "advance")
  /\ poolEv' = poolEv \cup {"connect"}
  /\ task' = [task EXCEPT !["advance"] = "idle"]
  /\ UNCHANGED <<fMsgList, writeEv, status, sock, timer, disarmed>>
  /\ UNCHANGED sessionVars
  /\ UNCHANGED <<pool, gone, lcsFind>>

-----------------------------------------------------------------------------
(* The pool's blocking task. GetEvents clears every pending event and Run  *)
(* serves one of them: lcs before connect before timeout.                  *)

RunLcs ==
  /\ pool = Idle
  /\ "lcs" \in poolEv
  /\ poolEv' = {}
  /\ UNCHANGED <<fQueue, pool, gone, lcsFind>>
  /\ UNCHANGED sessionVars
  /\ UNCHANGED clientVars

RunConnect ==
  /\ pool = Idle
  /\ "connect" \in poolEv
  /\ "lcs" \notin poolEv
  /\ poolEv' = {}
  /\ pool' = IF fQueue = <<>> THEN Idle ELSE [at |-> Head(fQueue), step |-> "visit"]
  /\ UNCHANGED <<fQueue, gone, lcsFind>>
  /\ UNCHANGED sessionVars
  /\ UNCHANGED clientVars

\* The feedback client is closed and connected anew every five minutes.
RunTimeout ==
  /\ pool = Idle
  /\ poolEv = {"timeout"}
  /\ poolEv' = {}
  /\ sock' = ReInitializeParam([sock EXCEPT !["feedback"] = "bare"])
  /\ status' = [status EXCEPT !["feedback"] = "offline"]
  /\ timer' = [timer EXCEPT !["feedback"] = TRUE]
  /\ pool' = [at |-> "feedback", step |-> "feedback"]
  /\ gone' = FALSE
  /\ UNCHANGED <<fMsgList, writeEv, task, disarmed, fQueue, lcsFind>>
  /\ UNCHANGED sessionVars

\* The queue element after c, if c still has one.
After(c) ==
  IF Len(fQueue) = 2 /\ fQueue[1] = c
  THEN [at |-> fQueue[2], step |-> "visit"] ELSE Idle

\* An iterator whose element was removed may end or go on with any element
\* that is queued now (OSQueue: external).
IterateAfterRemoval(q) ==
  pool' \in {Idle} \cup
            {[at |-> d, step |-> "visit"] : d \in {e \in Queued : InQueue(q, e)}}

VisitOffline(c) ==
  /\ pool = [at |-> c, step |-> "visit"]
  /\ status[c] = "offline"
  /\ pool' = [at |-> c, step |-> "connecting"]
  /\ gone' = FALSE
  /\ UNCHANGED <<fQueue, poolEv, lcsFind>>
  /\ UNCHANGED sessionVars
  /\ UNCHANGED clientVars

\* A client that counts as connected only leaves the queue.
VisitOnline(c) ==
  /\ pool = [at |-> c, step |-> "visit"]
  /\ status[c] = "online"
  /\ fQueue' = Remove(fQueue, c)
  /\ IterateAfterRemoval(fQueue')
  /\ UNCHANGED <<poolEv, gone, lcsFind>>
  /\ UNCHANGED sessionVars
  /\ UNCHANGED clientVars

\* A socket without parameters has no host to connect to. The handshake on a
\* socket that has been replaced leaves the new socket alone.
ConnectSucceeds(c) ==
  /\ pool = [at |-> c, step |-> "connecting"]
  /\ gone \/ sock[c] # "bare"
  /\ sock' = IF gone THEN sock ELSE [sock EXCEPT ![c] = "up"]
  /\ pool' = [at |-> c, step |-> "connected"]
  /\ UNCHANGED <<fMsgList, writeEv, status, timer, task, disarmed>>
  /\ UNCHANGED <<fQueue, poolEv, gone, lcsFind>>
  /\ UNCHANGED sessionVars

\* ssl_connect gives up before TCPSocket::Connect, or after it: then the socket
\* counts as connected without a session to write on.
HandshakeFails(c) ==
  /\ \/ UNCHANGED sock
     \/ ~ gone /\ sock[c] # "bare" /\ sock' = [sock EXCEPT ![c] = "half"]
  /\ UNCHANGED <<fMsgList, writeEv, status, timer, task, disarmed>>

\* The client stays in the queue, and nobody is signalled to try again.
ConnectFails(c) ==
  /\ pool = [at |-> c, step |-> "connecting"]
  /\ pool' = After(c)
  /\ HandshakeFails(c)
  /\ UNCHANGED <<fQueue, poolEv, gone, lcsFind>>
  /\ UNCHANGED sessionVars

\* Mutant of NotifySendMsg: a new connection wakes nobody.
NotifyNobody(c) == writeEv

\* Only the advance client has messages to send.
NotifySendMsg(c) == writeEv \/ c = "advance"

\* Mutant of KeepAlive: the inactivity timer stays as Offline left it.
NoKeepAlive(c) == timer' = timer

\* SetTimeout(kTimeKeepAlive * 1000) arms the timer.
KeepAlive(c) == timer' = [timer EXCEPT ![c] = TRUE]

LeaveQueue(c) ==
  /\ pool = [at |-> c, step |-> "connected"]
  /\ fQueue' = Remove(fQueue, c)
  /\ pool' = [at |-> c, step |-> "left"]
  /\ UNCHANGED <<poolEv, gone, lcsFind>>
  /\ UNCHANGED sessionVars
  /\ UNCHANGED clientVars

\* SslTcpClient::Online: first the status ...
OnlineStatus(c) ==
  /\ pool = [at |-> c, step |-> "left"]
  /\ status' = [status EXCEPT ![c] = "online"]
  /\ pool' = [at |-> c, step |-> "online"]
  /\ UNCHANGED <<fMsgList, writeEv, sock, timer, task, disarmed>>
  /\ UNCHANGED <<fQueue, poolEv, gone, lcsFind>>
  /\ UNCHANGED sessionVars

\* ... then the timer.
OnlineTimer(c) ==
  /\ pool = [at |-> c, step |-> "online"]
  /\ KeepAlive(c)
  /\ disarmed' = (disarmed /\ c # "advance")
  /\ pool' = [at |-> c, step |-> "armed"]
  /\ UNCHANGED <<fMsgList, writeEv, status, sock, task>>
  /\ UNCHANGED <<fQueue, poolEv, gone, lcsFind>>
  /\ UNCHANGED sessionVars

\* SetTask and SetListener register the socket, NotifySendMsg starts the list.
WakeClient(c) ==
  /\ pool = [at |-> c, step |-> "armed"]
  /\ writeEv' = NotifySendMsg(c)
  /\ IterateAfterRemoval(fQueue)
  /\ UNCHANGED <<fMsgList, status, sock, timer, task, disarmed>>
  /\ UNCHANGED <<fQueue, poolEv, gone, lcsFind>>
  /\ UNCHANGED sessionVars

FeedbackConnects ==
  /\ pool.step = "feedback"
  /\ sock' = IF gone THEN sock ELSE [sock EXCEPT !["feedback"] = "up"]
  /\ status' = [status EXCEPT !["feedback"] = "online"]
  /\ pool' = Idle
  /\ UNCHANGED <<fMsgList, writeEv, timer, task, disarmed>>
  /\ UNCHANGED <<fQueue, poolEv, gone, lcsFind>>
  /\ UNCHANGED sessionVars

FeedbackFails ==
  /\ pool.step = "feedback"
  /\ pool' = Idle
  /\ HandshakeFails("feedback")
  /\ UNCHANGED <<fQueue, poolEv, gone, lcsFind>>
  /\ UNCHANGED sessionVars

-----------------------------------------------------------------------------
(* External: the LCS answers, the pool's timer, the peers.                 *)

NotifyQueryResult ==
  /\ lcsFind
  /\ lcsFind' = FALSE
  /\ poolEv' = poolEv \cup {"lcs"}
  /\ UNCHANGED <<fQueue, pool, gone>>
  /\ UNCHANGED sessionVars
  /\ UNCHANGED clientVars

PoolTimeout ==
  /\ "timeout" \notin poolEv
  /\ poolEv' = poolEv \cup {"timeout"}
  /\ UNCHANGED <<fQueue, pool, gone, lcsFind>>
  /\ UNCHANGED sessionVars
  /\ UNCHANGED clientVars

SockChanges(c, from, to) ==
  /\ sock[c] \in from
  /\ sock' = [sock EXCEPT ![c] = to]
  /\ UNCHANGED <<fMsgList, writeEv, status, timer, task, disarmed>>
  /\ UNCHANGED sessionVars
  /\ UNCHANGED poolVars

PeerCloses(c) == SockChanges(c, {"up", "full"}, "broken")
PeerStalls    == SockChanges("advance", {"up"}, "full")
PeerReads     == SockChanges("advance", {"full"}, "up")

-----------------------------------------------------------------------------
Publish(s) == LoadID(s) \/ StoreID(s) \/ OnSendMessage(s)

AdvanceTask ==
  \/ TrySendNothing
  \/ TrySendHead
  \/ TrySendFails
  \/ AdvanceReInitialize
  \/ AskToConnect

\* What is left of a handler that any client's task has begun.
ClientTask(c) == OfflineTimer(c) \/ ReplaceSocket(c)

ConnectQueueStep(c) ==
  \/ VisitOffline(c)
  \/ VisitOnline(c)
  \/ ConnectSucceeds(c)
  \/ ConnectFails(c)
  \/ LeaveQueue(c)
  \/ OnlineStatus(c)
  \/ OnlineTimer(c)
  \/ WakeClient(c)

PoolRun ==
  \/ RunLcs
  \/ RunConnect
  \/ RunTimeout
  \/ \E c \in Queued : ConnectQueueStep(c)
  \/ FeedbackConnects
  \/ FeedbackFails

Environment ==
  \/ OnResponse
  \/ NotifyQueryResult
  \/ PoolTimeout
  \/ \E c \in Unstable : OnNetDisconnect(c) \/ OnTimeout(c) \/ PeerCloses(c)
  \/ PeerStalls
  \/ PeerReads

Next ==
  \/ \E s \in Sessions : Publish(s)
  \/ AdvanceTask
  \/ \E c \in Clients : ClientTask(c)
  \/ PoolRun
  \/ Environment

Spec == Init /\ [][Next]_vars

-----------------------------------------------------------------------------
(* Properties.                                                             *)

\* The pool's task has put the advance client online and will still arm its
\* timer, or will still wake it.
AboutToArm  == pool = [at |-> "advance", step |-> "online"]
AboutToWake == AboutToArm \/ pool = [at |-> "advance", step |-> "armed"]

\* A message waiting for a connection that is up and known to be up always has
\* a pending write event, or the pool's task is on its way to signal one: append,
\* partial drain, failed write, reconnect and the replacement of the socket
\* never lose the last wake-up of the list (OnSendMessage, OnTrySendMsg,
\* ApsApnsClientPool::Run).
HealthyConnectionWakes ==
  /\ fMsgList # <<>>
  /\ status["advance"] = "online"
  /\ sock["advance"] \in Connected
  => writeEv \/ AboutToWake

\* A message that nobody is going to try again is stranded for good in one way
\* only. Otherwise the client is offline, so that the next push asks for a
\* connection, or its inactivity timer is armed or about to be and replaces the
\* dead socket (Online, OnTimeout). The exception: Offline wrote the status, the
\* pool's task put the client online, and then Offline switched its timer off.
StrandedCanRecover ==
  fMsgList # <<>> /\ ~ writeEv
    => \/ status["advance"] = "offline"
       \/ timer["advance"] \/ AboutToArm
       \/ disarmed

\* The socket the advance client sends on lacks its parameters only between
\* the two halves of its own OnTimeout (ReInitializeParam).
AdvanceSocketHasParameters ==
  sock["advance"] = "bare" => task["advance"] = "replaced"

\* The log line of a write that would block says the message is added to a
\* list ("Send block, Add to list."): a message does not leave the send list
\* while the socket cannot take it.
BlockedMessageStaysListed ==
  [][fMsgList # <<>> /\ fMsgList' = Tail(fMsgList) => sock["advance"] # "full"]_vars

\* The promise the pool makes to its callers: a first-in first-out channel
\* that takes a message from the head only while it is connected.
Channel == INSTANCE PushChannel WITH
  queue <- fMsgList, link <- sock["advance"] \in Connected

ChannelSpec == Channel!Spec
=============================================================================
