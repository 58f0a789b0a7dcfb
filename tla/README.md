# Verification of the push server

The repository is a push server: applications talk to it over HTTP and have it push
notifications to iOS devices (through APNs), to Android devices (through a C2DM-like service)
and to devices that keep an MQTT connection to the server itself. This directory holds TLA+
models of its components, the TLC configurations that check them on small instances, and
theorems about them that TLAPS proves for every value of the constants.

To check a module: `tlc -config MCx.cfg MCx`; to check a proof: `tlapm x_proofs.tla`.
`PROJECT.json` lists all runs, the lines each definition models, and one mutant for every
property: a bug the code might have had that makes TLC find the property violated.

## 1. Inventory

Base classes (`Task`, `IdleTask`, `TCPSessionInterface`, `HttpSvrSession`, `TcpClient`,
`OSQueue`, `EventContext`), JSON, redis, MongoDB and OpenSSL are not part of the repository.
They are modelled only as the code uses them, and the definitions concerned are marked external.
A *task* is an object with a set of pending events; signalling it adds an event, and a thread of
the pool calls its `Run`, never twice at once, until it has none. `Run` returning -1 deletes it.

| Component | State | Operations | Interacts with |
|---|---|---|---|
| Process supervisor (`ApsMain`, `RunServer`, `AvconPushServer`) | child's pid, exit status, pending signals | fork, wait, restart, forward a signal, start | all servers live in the child it keeps alive |
| APNs client pool (`ApsApnsClientPool`, `SslTcpClient`, `SslTcpSocket`) | message id, send list, connect queue, three connections with timers | push, connect queued clients, write, timeout, error answer | called by application sessions; asks the LCS for messages after an error |
| C2DM client (`PushC2DMClientSocket`, `SslAndroidTcpSocket`) | shared buffer and lock, current socket, its list | push, first initialisation, replace the socket, write listed messages | called by application sessions |
| LCS (`ApsLcs`, `ApsLcsUtil`) | query list, started flag, results of finds | request, run | called by every session and by the pool; calls MongoDB |
| Application sessions (`ApsAppServerSession`) and audit trail (`ApsStatusSave`) | state, application, receive and connect time of each session; documents | connect, publish, pingreq, disconn, end | pool, C2DM client, redis, LCS |
| MQTT sessions, registry, provider sessions (`MqttServer`, `MqttSessionHandler`, `SslSvrSession`) | state and token of each session, map from token to session, packets that wait for room | CONNECT, DISCONNECT, PINGREQ, timeout, push by a provider | a provider finds a session in the registry and writes to it |
| Request parsing (`ApsAppRequestMessage`) | parsed request | parse | application sessions |
| Packets (`MqttPacket`, `ProviderPacket`, `TCPSslRequestStream`) | receive buffer of each session | cut a stream into packets, write a PUBLISH | MQTT and provider sessions |
| Redis locations (`ApsRedisLocation`, `ApsTokenRedisLocation`) | one shared client, the server it is connected to and the one it will connect to | find a user's devices, find one device, is a token valid | application sessions |
| MongoDB location, codecs, listeners, configuration, logger | none to speak of | | |

What is hard in each, and what makes it correct:

* **Supervisor.** Crashes at any moment, signals between `fork()` and the assignment of its
  result, interrupted `wait`s, exit codes cut to eight bits. Correct: one server at a time; a
  signal goes to the present child; a server always comes back.
* **APNs pool.** Three kinds of threads (sessions, the client's task, the pool's task) and
  timers; `GetEvents` clears all events while an else-if chain serves one; a socket is replaced
  while it is being connected; status and timer of a client are written by two calls without a
  lock, on two threads; a status that is wrongly online. Correct: the last wake-up of a
  non-empty send list is never lost; messages leave in order, once, over a connection; what is
  stranded is tried again.
* **C2DM client.** The first socket is made outside the lock; replacing a socket takes its list
  along, and a write that fails on a live connection kills it as well. Correct: no use of a dead
  socket; no mixture of two messages; written at most once; a list is lost only with a socket
  whose connection or write has failed.
* **LCS.** `push_back` by many threads and `remove` by the task on a list without a lock.
  Correct: executed at most once, no query used after it was deleted, nothing lost. The last
  holds only as long as list operations do not overlap.
* **Application sessions.** Documents are found again by application and whole second, by
  requests that overlap; the order of four kinds of queries matters. Correct: every request is
  marked as dealt with, by its own handler; a connect is recorded once and closed when it ends.
* **MQTT registry.** A map without a lock from tokens to raw addresses of sessions that delete
  themselves. Correct: an entry leads to the session connected under the token; a push reaches
  the owner of the token; a connected device can be reached.
* **A publish.** Two locations share one `RedisClient`, without a lock, and each points it at
  its own server when it finds it disconnected; a look-up that fails is answered like one that
  finds nothing; the first device of an empty map is read; ids are counted without a lock, read
  back after the push and cut to 16 bits. Correct: the answer tells whether there was a device;
  valid tokens are pushed to and invalid ones are not; the audit trail names the push.
* **Packets.** A buffer that is started anew with every read, batches that do not fit in it, a
  length check that misses two bytes in front of an unsigned subtraction, commands cut between
  two reads or dropped in a full buffer, a remaining length of one byte, sockets that are full.
  Correct: no byte inside a packet is taken for the beginning of one; packets are handled once
  and in order; what fits in the buffer is handled; the device gets what was published.

The list of hazards, each with its line and the properties that cover it, is in `PROJECT.json`.

## 2. Modules

| Module | Models | Extends / uses |
|---|---|---|
| `Supervisor` | process pair | |
| `ApnsClientPool` | APNs pool with its clients | refines `PushChannel` |
| `PushChannel` | what the pool promises: a first-in first-out channel | |
| `ApnsClientPoolLive` | fairness and progress of the pool | `ApnsClientPool` |
| `C2dmClient` | C2DM client | refines `Mailbox` |
| `Mailbox` | what the C2DM client promises: a message is written once, kept, or dropped | |
| `LcsQueryPool` | LCS at the level of list pointers | refines `QueryQueue` |
| `QueryQueue` | what the LCS promises: a queue, in order until it is broken | |
| `AppSession` | application sessions, LCS as a queue, documents | |
| `MqttRegistry` | device sessions, registry, providers | |
| `Publish` | a publish: its audience, redis look-ups, the loop over devices, ids, the answer | |
| `AndroidPush` | the streams of a provider and a device, from the provider's packet to the device | |
| `X_proofs` | theorems about `X` | `X`, `TLAPS` |
| `MCX` | instance of `X` for TLC | `X` |

How state and actions correspond to the code:

* **Supervisor.** `proc` and `status` are the kernel's view of each process id, `sChildPID` has
  one copy per process since a forked child inherits it. `RecordChild` is the assignment after
  `fork()` returned, `ForkFails` a `fork()` without a child, `WaitReturns` the reading of a status and the decision that follows,
  `WaitInterrupted` the `EINTR` branch, `SigCatcher` the handler. `Exited(code)` cuts the code
  to 8 bits, as `WEXITSTATUS` does. Process ids are reused once they are reaped.
* **ApnsClientPool.** Threads of sessions go through `LoadID`, `StoreID` (`++m_messageID` is a
  load and a store) and `OnSendMessage`. A handler of a client's task is several steps wherever
  another thread can see the difference: `task` says how far it is. `OnNetDisconnect` writes the
  status and `OfflineTimer` the timer; `TrySendHead`, `TrySendFails` and `TrySendNothing` are
  the ways of `OnTrySendMsg`, a failure of which may take the client offline in the same two
  steps; `OnTimeout`, `ReplaceSocket`, `AdvanceReInitialize` and `AskToConnect` follow one
  another. `ListIsLocked` is `fMutexList`, which these handlers hold over some of their steps.
  The pool's task takes its events (`RunLcs`, `RunConnect`, `RunTimeout`) and, for each client
  in the connect queue, visits and connects it, takes it out of the queue (`LeaveQueue`), writes
  status and timer (`OnlineStatus`, `OnlineTimer`) and wakes it (`WakeClient`), since connecting
  blocks and a timeout may replace the socket (`gone`) or a disconnection switch the timer off
  meanwhile. `disarmed` is history: the timer of a client that was online when it was switched
  off, until it is armed again. A socket is `bare`, `ready`, `half` (TCP connected, handshake
  failed, `kConnected` left set), `up`, `full` or `broken`. Messages are a session and an id
  modulo `IdMod` (2^32 in the code); what becomes of the id after the push is part of `Publish`.
  The primery client is only a connection: the branch that would send over it is never taken.
* **C2dmClient.** A push goes through the test of `init_flag`, `Initialize`, the lock, the two
  halves of the buffer, `Send`, and after an error `KillSocket`, `RenewSocket`, `SendAgain`.
  `Initialize` may store its socket between any two of another session's steps. The socket's
  task is `RunKill`, `RunWrites`, `RunWritesPart`, `RunFails`, `RunNothing`. An `SSL_write` is
  one step, and may fail on a live connection too. `stalled` and `failed` are history: the
  sockets whose last write from the list failed, after which the code asks for no event, and
  those that were replaced because a `Send` failed on them. `GenPayloadData` may end the process
  by its assertion. As a `Mailbox`, a message is held by the session that pushes it,
  kept in the list of a socket, or dropped with a socket that was replaced or after two errors.
* **LcsQueryPool.** `next` and `prev` are the pointers of the circular list with its sentinel
  `End`; `PushRead`, `PushLink`, `PushTail` are the writes of `push_back`, `RunUnhookNext` and
  `RunUnhookPrev` those of `remove`. `raced` records that two list operations have overlapped,
  and `order` in which order the queries that wait were linked: the list as it is meant, beside
  the list the pointers make. Nothing depends on either; `order` is the queue of `QueryQueue`.
* **AppSession.** A request is recorded (`Receive`), handled (one action per handler and
  outcome) and concluded by an update. Documents and queries carry the application and the time
  in whole seconds by which the code finds documents again; the number of the request is kept
  beside to say which request wrote what. The texts of the answers are left out. The LCS is a
  queue here: it stands for an LCS whose list operations do not overlap, of which `QueueSpec`
  and `NothingLostWithoutRace` say in `LcsQueryPool` that it is first-in first-out without loss.
* **MqttRegistry.** A session is named by its address, which a later session may get again.
  `Connect`, `ConnectRefused` and `ConnectAgain` are the outcomes of a CONNECT; a provider's
  `Find` and `Publish` are separate steps, between which the session may be deleted
  (`abandoned`). `contested` are the tokens that two live sessions have held at once, `shadowed`
  the sessions whose CONNECT met an entry that a deleted session had left under their token. A
  write to a deleted session is `PublishFreed`, with every outcome it may have.
* **Publish.** The three look-ups consist of the same steps: `CheckConnection`, and if
  `RedisClient` is not connected `SetServerInfo` and `Connect` (or `ConnectFails`), then
  `AskAccount` or `AskToken`. Other sessions come between any two of them. `link` is the server
  `RedisClient` is connected to, `info` the one it will connect to; at start-up the token
  location is initialised last. A look-up over the wrong connection returns false, as one over a
  broken connection does. `Found` and `Visit` are the loop over the devices, `LoadID`, `StoreID`
  and `AddPublishMessage` what `PushNotification` and its caller do with the id, `Answer` the
  reply; `Dies` is the undefined read of an empty map when it ends the process. `crossed`,
  `blind`, `unreached`, `wasInvalid` and `alwaysInvalid` are history that the properties need
  and nothing depends on. Ids are numbers modulo `IdMod`, and modulo `RecMod` in a record: they
  stand for the 32 bits of `m_messageID` and the 16 bits of `mid`.
* **AndroidPush.** Bytes are counted but not spelled out. A record is what one `SSL_write` of
  the provider sends, of at most `MaxRecord` bytes: TLS puts up to 16384 bytes into one record,
  and hands a record out only when all of it has arrived. A packet in it knows its length and
  where it ends, and `ReadRequest` takes as much of a record as the buffer holds: `packets` are
  those that begin in the buffer, and the last may be cut. `ProcessRecvMsg` takes one packet
  with the length it reads, which is garbage if the buffer ends between the two bytes of that
  length, and with the wrap of `nLen`; `ParamError`, `EndOfBuffer` and `CleanupRequest` are the
  other states of `Run`. A command of the device has two halves, since only whether it is
  complete matters. `BufferOverfilled` is a read that fills the buffer of `MqttServer`, which
  drops it; how long a command is stays open, so any read may be one, and `flooded` are the
  commands in such reads. `Send` succeeds, lists the message, or writes a part of it;
  `WriteEvent` is the removal from the list; `DeviceTakes` reads as MQTT prescribes.

## 3. Runs

Every run takes less than three minutes on two workers. A run whose result is "no" is expected
to find its property violated.

| Run | Question | Result |
|---|---|---|
| `apns_pool` | wake-ups, timers and parameters under all interleavings of one session with the tasks, timers and peers; refinement of `PushChannel` | holds; a list is stranded only behind a timer that was switched off under a client online |
| `apns_live` | does the send list keep moving once the network is calm? | yes, but for a client whose timer was switched off like that |
| `apns_blocked` | does a message that could not be written stay listed, as the log line says? | no (finding) |
| `c2dm` | dead sockets, mixed messages, sockets nobody can reach, lists that are lost or wait for nothing; refinement of `Mailbox`: doubled and lost messages | holds; a list waits for nothing only after a second write failed |
| `lcs_queue` | what do overlapping list operations do, and is every request executed, in order, while they do not overlap? refinement of `QueryQueue` | queries are lost and the list can be severed for ever; nothing is executed twice or used after its deletion; without an overlap nothing is lost and every request is executed in order |
| `app_session` | is every request marked, by its own handler, and a connect recorded once? | holds, with the two exceptions the properties name |
| `disconnect_record` | is a connect closed in the audit trail by a disconnect? | no (finding) |
| `supervisor` | one server, signals to the present child, a server comes back | holds |
| `mqtt_registry` | entries, pushes and reachability | holds, outside freed addresses and contested tokens; a device that reconnects over the entry of its dead session is never reachable |
| `mqtt_delete` | is a session only deleted when nobody holds it, as the comment says? | no (finding) |
| `publish` | is the answer true, are invalid tokens spared and valid ones pushed to, which id is recorded, when two publishes share one `RedisClient`? | holds, except after a look-up that failed or was led elsewhere |
| `android_push` | do the sessions find where packets begin, is what fits in the buffer handled, which pushes does the device get? | packets are never misread; what fits is never lost; pushes are lost to full sockets, long payloads and partial writes only; commands also in a read that fills the buffer |

**Reading the exceptions.** Some properties hold only outside a condition. Each of these is
itself a weakness of the code, named so that the property says exactly how far its damage goes:
nothing goes wrong elsewhere. The mutants show that they do not swallow the properties.

| Condition | Module | Weakness |
|---|---|---|
| `disarmed` | `ApnsClientPool` | `Offline` switches off the timer of a client that `Online` has put online in between |
| `raced` | `LcsQueryPool` | operations on the unlocked list overlap |
| `abandoned` | `MqttRegistry` | an address is used after its session was freed |
| `contested` | `MqttRegistry` | two live sessions held one token at once |
| `shadowed` | `MqttRegistry` | a session connected while a deleted session was still registered under its token; such a session is shown to be unreachable, not just excused |
| `Strayed` | `AppSession` | a connect is recorded under another name than it is updated under |
| `overtaken` | `Publish` | another session stored an id between a push and its record: the unlocked increment, and the id that is read back later |
| `crossed`, `Misled` | `Publish` | two owners share a connection; a failure looks like an answer |
| `failed` | `C2dmClient` | a `Send` failed, on a live connection or not, and its socket goes with the whole list |
| `stalled` | `C2dmClient` | after a failed write of a listed message no event is asked for |
| `oversized` | `AndroidPush` | a batch is larger than the buffer |
| `split`, `flooded` | `AndroidPush` | a command is cut between two reads, or is in a read that fills the buffer |

**Bounds.**
* `apns_pool`: one session and a list of two messages: order and the last wake-up need a message
  behind another; the session's own steps interleave with every other task. Peers close and
  timers fire for the advance client only (`Unstable`): the others have no list, and their
  connections fail and succeed freely. The proofs allow all. Ids wrap after two values; two
  sessions that compete for an id are in `publish`.
  `apns_live`: a list of one message and disturbances of the advance client only, since a
  temporal property is checked without symmetry.
* `c2dm`: two sessions and three messages, so that a message is listed behind another while a
  third fails, and three sockets: two first initialisations that overlap and a replacement, or
  one initialisation and two replacements.
* `lcs_queue`: three queries, each pointer write a step, so that a query can be pushed before,
  during and after a removal; the LCS starts late and may stop at any time.
* `app_session`: two sessions, two applications, two seconds, three requests: two requests that
  share application and second, and a third that may stray. Sessions are used once.
* `supervisor`: three process ids, so that an id can be reused while another is in use.
* `mqtt_registry`: two addresses, two tokens, two providers, and one blocked packet.
* `publish`: two sessions and two publishes (at once, or one after the other by either), a token
  for each platform and the empty one, two servers (each location gets either, so that the same
  and different servers occur), ids modulo four that are recorded modulo two, one connection
  that breaks and one token that is marked or unmarked. Two look-ups that reconnect at the same
  time are enough for every way in which one re-points the other; the theorems hold for any
  number.
* `android_push`: three packets in batches of up to three, two commands (a third makes the run
  too long; the theorem has any number), one send that meets a full socket. An `SSL_write` of
  more than 16384 bytes is left out (`MaxRecord`): it is several TLS records, so that the rest
  of a packet may arrive after `CleanupRequest` has stopped reading, and nothing is claimed of
  it. The buffer has 2047 bytes as in the code. With payloads of 14, 52 and 1923 bytes it may
  end after a packet, inside its payload, two bytes before its end (where the length check
  errs), and after the first byte of its payload length; and with the 30 bytes of `appid` a
  PUBLISH is shorter or longer than the 125 bytes of payload from which its length byte fails.
  `nLen` wraps at 2^16 instead of 2^32: what matters is that a wrapped value is larger than the
  buffer, which is all the proofs assume.

**Deadlock** is checked except where the system really stops: the parent may quit, the requested
queries may all be done, all sessions may have ended, the C2DM client may end the process, and
in `publish` and `android_push` everything the bounds allow may have been sent.

**Fairness.** A task with events is run by the thread pool, so its steps are weakly fair, and so
is a thread inside a handler: it does not stop there of its own. In the pool a blocking connect
comes to an end. The inactivity timer of a connection that has become stale fires with strong
fairness: its event is pending from when it expires, but a handler of the same task that is
under way disables `OnTimeout` for a while, again and again. Processes are scheduled and signals
delivered. Nothing is assumed of peers, applications or devices. The progress of the send list
assumes that from some time on the advance client is not disturbed (`Disturbance`): under
endless disconnections nothing could be promised. Neither could it while writes fail on a live
connection for ever, or while the pool's task connects the client each time between the two
halves of its `OnTimeout`, which then throws the new connection away.

## 4. Findings

Three places where a comment or a log line of the code says one thing and the code does another,
each with a run that shows it (`findings` in `PROJECT.json`): messages that count as sent when
they were not (`SslTcpSocket.cpp:236`), sessions deleted while they are held
(`MqttServer.cpp:23`), and connects that stay open in the audit trail
(`ApsAppServerSession.cpp:332`).

Read in the code while it was modelled, without a run of their own:

* `Online` and `Offline` each write the status and then the timer, without a lock, on two
  threads. If a connection ends while the client is being connected again, `Offline` may switch
  off the timer of the client that is now online (`SslTcpClient.cpp:73`, `:65`); when its status
  turns stale, no timer recovers it. `StrandedCanRecover` says that this is the only way for a
  message to be stranded for good.
* A device that reconnects after its session timed out, while the entry of that session is still
  there, is acknowledged and never reachable: `insert()` does not replace
  (`MqttSessionHandler.cpp:36`, the half of `ConnectedIsReachable` about `shadowed`).
* Every error of `SSL_write` but `SSL_ERROR_WANT_WRITE` counts as the end of the connection, also
  the bad retry of a blocked write with another buffer, after which a socket that works is
  replaced and loses its list (`SslAndroidTcpSocket.cpp:303`).
* The 32 bits of a message id are recorded as 16 (`ApsStatusSave.cpp:227`): pushes that are
  65536 apart have the same id in the audit trail.
* A read that fills the buffer of an MQTT session is neither handled nor cleaned up after
  (`MqttServer.cpp:54`): the commands in it are lost.
* A caught signal is forwarded to the child, whose own handler does nothing with it; `RunServer`
  waits for flags that nobody sets (`ApsMain.cpp:59`, `RunServer.cpp:164`).
* A child that exits with -1 is restarted although the comment says it should not: an exit code
  has eight bits and is never -1 (`ApsMain.cpp:192`).
* A packet that an MQTT session keeps until its socket is writeable (`MqttServer.cpp:76`) is
  removed from its list on the write event without being written: the `Send` is commented out
  (`MqttServer.cpp:94`).
* The remaining length of a PUBLISH is written into one byte (`MqttServer.cpp:421`), while the
  reader beside it knows that there may be four (`MqttServer.cpp:161`).
* A provider's packet has 37 bytes besides its payload; the checks count 35
  (`SslSvrSession.cpp:208`, `:231`). A batch that does not fit in the buffer can therefore end
  the server.
* The comment on E2BIG says that the next state checks for it (`SslSvrSession.cpp:116`); no
  state does, and the packets in the full buffer are handled.
* `SslSvrSession::Run` returns without asking for the next read event once a buffer is empty
  (`SslSvrSession.cpp:136`); whether it is called again is up to a base class.
* "Save the push message for send when the android device is connect" stands over an empty
  branch (`SslSvrSession.cpp:276`).
* When the locations are configured with different redis servers, the account look-ups go to the
  token server from start-up on, until the connection breaks (`ApsRedisLocation.cpp:119`).
* A listed C2DM message whose second write fails asks for no further event; it waits until
  another `Send` blocks (`SslAndroidTcpSocket.cpp:369`). `ListedIsAwaited` says that this is the
  only way for a list to wait for nothing.
* A pingreq before connect is answered with the error code of a publish
  (`ApsAppServerSession.cpp:246`).

## 5. Proofs

| Module | Theorems | Argument |
|---|---|---|
| `ApnsClientPool_proofs` | `TypeCorrect`, `HealthyConnectionAlwaysWakes`, `StrandedAlwaysRecoverable`, `AdvanceSocketAlwaysHasParameters`, `PoolIsChannel` | `WakeInv`: the wake-up property alone is not inductive, since going online must find a wake-up. It needs that an online client's timer is armed, or about to be, unless it was `disarmed`. The refinement shows that each step of the pool accepts a message, takes the head, changes the link or stutters |
| `C2dmClient_proofs` | `TypeCorrect`, `BufferIsOwn`, `SocketIsUsable`, `OnlyFailedLose`, `OnlyInitStrands`, `ListsAreAwaited`, `WrittenAtMostOnce`, `NothingLost`, `ClientIsMailbox`, `MailboxKeepsPromise` | `IInv`: the holder of the lock is the one session under it; the buffer is filled in step by step; nothing is signalled to sockets that were not made; whoever may use the socket finds one unless it is being replaced, which only the holder does. The types alone are not inductive: a listed message must be complete. `FailedInv`: a socket that is told to go has nothing listed or a `Send` has failed on it, and a socket that was not made lists nothing. `LiveInv`: the sockets nobody has told to go are at most as many as `Initialize` made, and one fewer while one is being replaced; it counts them with the theorems on finite sets. `TrailInv`: each message is pushed by one session, untouched until that session has sent it, then written once or listed in one place, and kept once its push has returned. With it each step of the client gives, writes, keeps or drops one message, drops a whole list, or stutters; that a mailbox writes nothing twice and loses nothing is proved of `Mailbox` itself |
| `LcsQueryPool_proofs` | `TypeCorrect`, `AtMostOnce`, `NoUseAfterDelete`, `SeveredForGood`, `NothingLost`, `LcsIsQueue` | `IInv`: however list operations overlap, only the predecessor a query has recorded, or a node that has left, points to it, and a query that was taken had the sentinel as its predecessor. Hence no list operation leads back to what was taken. `ShapeInv`: until list operations overlap, the pointers make the list `order` up to the one operation that is under way, so what the task takes is the oldest query. `ChainInv`: then every query of `order` is on the chain that the code follows from the sentinel; the chain is the least set closed under `next`, so one step at an end of the list changes it by one element, without induction over its length |
| `MqttRegistry_proofs` | `TypeCorrect`, `EntriesCorrect`, `PushesReachOwner`, `ReachableWhileConnected` | `IInv`: a session that got through its CONNECT has a token; what a provider holds got through its CONNECT; two live sessions with one token make it contested. `ShadowedIsNamed`: only such a session has met the entry of a deleted one, so that the next CONNECT at its address starts afresh; the two properties are part of the invariant |
| `AppSession_proofs` | `TypeCorrect`, `OneDocument`, `ClosedByOwn`, `MarkedByOwn`, `TrailSettles` | Types with `RequestOK`, what a session holds while a request is open. `RecordInv`: the connect document of a session is written or waits in the queue, and there is none while it is new or about to record its connect. `ClosingInv`: a query that will close a document carries an application of which a session has left. `MarkInv`: a record and its mark come from requests that are among the users of its key. `NumberInv`: every document has its own number and is added before the update of its request. `CountInv`: the documents of a key that are not marked are at most as many as the requests of that key whose update is still to come, in a session or in the queue; so none is left unmarked when nothing is under way. Each step is followed through both sets, with the theorems on cardinalities |
| `Publish_proofs` | `TypeCorrect`, `LookUpsReach`, `AuditCorrect`, `AnswersAreTrue`, `TokensAreRespected` | Types need `VisitInv`: who pushes is visiting a token. `PointsHome`: who is about to connect or to ask points to his own server or is crossed. `StoredIsCurrent`: between store and record the pool's id is the session's own, or it was overtaken. `FlagTells`: once the account location has answered, the flag agrees with the devices that are addressed. `MarksKnown`, `PushIsFair` and `NobodyForgotten`: the history of marks encloses the marks of now, each push is justified, and each device is pushed to, excused, being visited or still to be visited |
| `AndroidPush_proofs` | `TypeCorrect`, `HandledInOrder`, `SmallBatches`, `PushesReachDevice`, `ObeyedInOrder` | `ProviderInv`: the packets of a record follow each other byte by byte (`WellFormed`), numbers increase from what was handled through the buffer to what was sent (`InOrder`), and `nLen` is the number of bytes from the first packet in the buffer to its end, which cuts at most the last (`BufferInv`). Hence whatever is cut is seen as cut, by an error or a wrap. `PushInv`: every message stems from a published packet, and what was published is in transit, dropped or taken as long as the device is in step. `CommandInv`: the halves of the commands that are left are in order, and whole unless a read has split one, an answer was blocked or a full buffer took the CONNECT |
| `Supervisor_proofs` | `TypeCorrect`, `AtMostOneServer`, `SignalsReachChild` | `IInv`: a child that is not reaped is the one of the last fork, and the parent has not yet learnt of its death |

All theorems hold for any sets of sessions, tokens, queries, messages, servers and process ids,
any payload lengths and any bounds. `MaxRecord` is the one bound they depend on: the theorems
about `AndroidPush` speak of providers whose `SSL_write`s are at most 16384 bytes. The type
invariants are proved rather than repeated in the runs. They rest on the named assumptions about
constants at the head of each module (for example that `None` is not a session), which TLC
evaluates in every run.

`ExecutedAtMostOnce`, `AtMostOnce` and `NothingLostSilently` are proved and not repeated in the
runs either: the refinements `QueueSpec` and `MailSpec`, which the runs check, imply them.

Only model-checked: liveness (`SendListMoves`, `RequestsAreExecuted`, `ServerComesBack`), which
TLAPS cannot do under fairness. Every other property of a passing run is also a theorem.

## 6. Not modelled

* TLS, JSON, redis, MongoDB, the kernel's buffers beyond "there is room", and the base classes:
  they are outside the repository. Their outcomes are choices.
* Data races inside library calls: `std::map` in the registry, `SSL_write` by two threads on one
  connection, the static buffer of `asctime`, the vector of results in `ApsLcsUtil`. The
  exception is the list of the LCS, whose pointers are modelled.
* The queries that wait in memory when the server crashes: nothing in the code finds them again,
  so there is nothing to check beyond `Supervisor`.
* Four branches of the sessions of `AndroidPush`: a read error, after which `Run` returns
  without a new request (`TCPSslRequestStream.cpp:65`, `SslSvrSession.cpp:104`); the timeout of
  a provider's session, which nobody refreshes (`SslSvrSession.cpp:76`); token lengths other
  than the 32 bytes of this system's tokens, which are read and not checked
  (`SslSvrSession.cpp:224`); and payloads that do not fit in the buffer of `mqtt_send_publish`
  (`MqttServer.cpp:419`), which `SendBuffer` rules out by assumption.
* Encoding of messages, parsing of the configuration, logging and the listeners, which keep no
  state that anything depends on; the fields of requests and packets that are only copied.
* Code nobody calls: `ApsErrorMessage`, `UpdateDisconnMessge`, `AndroidSslTCPSocket::Read`,
  `SetValidDeviceToken`.

## 7. Plan

Done, in this order: `ApnsClientPool` (the core: what the server is for), `LcsQueryPool`,
`Supervisor`, `MqttRegistry`, `AppSession`, `C2dmClient`, `Publish`, `AndroidPush`, and the
theorems above. What would be worth doing next:

1. `PushServer`: `Publish` composed with `PushChannel` and `Mailbox`, so that an acknowledged
   push is followed to the network. Now that the pool and the C2DM client are proved to refine
   these two, the composition need not contain the large modules themselves.
2. An abstract specification of the registry (a map from tokens to connected sessions) with a
   refinement that holds outside `contested` and `abandoned`.
3. Progress of a listed C2DM message: with fairness of the socket's task, a list that is awaited
   is written or its socket replaced, unless its socket stays `stalled`.
