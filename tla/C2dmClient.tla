----------------------------- MODULE C2dmClient -----------------------------
(***************************************************************************)
(* The client of the Android push service: application sessions share one   *)
(* PushC2DMClientSocket, which keeps one buffer and one AndroidSslTCPSocket *)
(* and replaces the latter when a write fails. A socket that is out of room *)
(* keeps the message in a list, which its own task writes out.              *)
(*                                                                         *)
(* An SSL_write is one step; TLS, the kernel and the task framework, which  *)
(* signals events and deletes a task whose Run returns -1, are external.    *)
(***************************************************************************)
EXTENDS Naturals, Sequences, FiniteSets

CONSTANTS
  Sessions,    \* application sessions, each in a thread of its own
  Messages,    \* messages, each of them is pushed at most once
  None,        \* NULL
  MaxSockets   \* bound: sockets that are made

ASSUME C2dmAssumption ==
  /\ None \notin Sessions \cup Messages
  /\ MaxSockets \in Nat

Sockets == 1 .. MaxSockets
Null == 0

VARIABLES
  init_flag,    \* static bool of PushNotification
  m_Lock,       \* its holder
  m_sslSocket,  \* the current socket
  m_data,       \* the buffer: device token and payload
  pc,           \* where each session is in PushNotification
  msg,          \* the message it pushes
  made,         \* how many sockets have been made: the newest one's number
  conn,         \* the connection of each socket
  room,         \* is there room for a message in its send buffer?
  fMsgList,     \* messages that wait for room
  wants,        \* has EV_WR been requested?
  events,       \* events signalled to the socket's task
  pushed,       \* auxiliary: messages that sessions have begun to push
  inits,        \* auxiliary: how many sockets Initialize has made
  written,      \* auxiliary: how often each message has been written
  lost,         \* auxiliary: messages in the list of a deleted socket
  refused,      \* auxiliary: messages that failed on the new socket too
  stalled,      \* auxiliary: sockets whose last write from the list failed
  failed,       \* auxiliary: sockets that have been replaced, or will be, because
                \* a Send failed on them
  exited        \* has the process ended: by exit(-1), or by an assertion?

sessionVars == <<init_flag, m_Lock, m_sslSocket, m_data, pc, msg, pushed, inits,
                 refused, failed>>
socketVars  == <<made, conn, room, fMsgList, wants, events, written, lost, stalled>>
vars == <<sessionVars, socketVars, exited>>

Steps == {"idle", "init", "flag", "lock", "payload", "token", "send", "kill",
          "renew", "resend"}

Buffer == [token : Messages, payload : Messages]

TypeOK ==
  /\ init_flag \in BOOLEAN
  /\ m_Lock \in Sessions \cup {None}
  /\ m_sslSocket \in Sockets \cup {Null}
  /\ m_data \in [token : Messages \cup {None}, payload : Messages \cup {None}]
  /\ pc \in [Sessions -> Steps]
  /\ msg \in [Sessions -> Messages \cup {None}]
  /\ made \in 0 .. MaxSockets
  /\ conn \in [Sockets -> {"none", "up", "down", "deleted"}]
  /\ room \in [Sockets -> BOOLEAN]
  /\ fMsgList \in [Sockets -> Seq(Buffer)]
  /\ wants \in [Sockets -> BOOLEAN]
  /\ events \in [Sockets -> SUBSET {"kill", "write"}]
  /\ pushed \in SUBSET Messages
  /\ inits \in Nat
  /\ written \in [Messages -> Nat]
  /\ lost \in SUBSET Messages
  /\ refused \in SUBSET Messages
  /\ stalled \in SUBSET Sockets
  /\ failed \in SUBSET Sockets
  /\ exited \in BOOLEAN

\* The constructor leaves m_sslSocket unset; nobody reads it before the first
\* Initialize has stored it.
Init ==
  /\ init_flag = FALSE
  /\ m_Lock = None
  /\ m_sslSocket = Null
  /\ m_data = [token |-> None, payload |-> None]
  /\ pc = [s \in Sessions |-> "idle"]
  /\ msg = [s \in Sessions |-> None]
  /\ made = 0
  /\ conn = [k \in Sockets |-> "none"]
  /\ room = [k \in Sockets |-> TRUE]
  /\ fMsgList = [k \in Sockets |-> <<>>]
  /\ wants = [k \in Sockets |-> FALSE]
  /\ events = [k \in Sockets |-> {}]
  /\ pushed = {}
  /\ inits = 0
  /\ written = [m \in Messages |-> 0]
  /\ lost = {}
  /\ refused = {}
  /\ stalled = {}
  /\ failed = {}
  /\ exited = FALSE

Goto(s, step) == pc' = [pc EXCEPT ![s] = step]

-----------------------------------------------------------------------------
(* The first push makes the first socket, before the lock is taken.        *)

\* Mutant of FlagWhenChecked: the flag is set before the socket is made.
FlagSetFirst == TRUE

FlagWhenChecked == init_flag

PushNotification(s, m) ==
  /\ pc[s] = "idle"
  /\ m \notin pushed
  /\ pushed' = pushed \cup {m}
  /\ msg' = [msg EXCEPT ![s] = m]
  /\ Goto(s, IF init_flag THEN "lock" ELSE "init")
  /\ init_flag' = FlagWhenChecked
  /\ UNCHANGED <<m_Lock, m_sslSocket, m_data, inits, refused, failed, exited>>
  /\ UNCHANGED socketVars

\* The constructor: up to six attempts to connect, then exit(-1). MakeSocket
\* leaves the new socket in m_sslSocket.
MakeSocket ==
  /\ made < MaxSockets
  /\ made' = made + 1
  /\ m_sslSocket' = made + 1
  /\ conn' = [conn EXCEPT ![made + 1] = "up"]
  /\ UNCHANGED <<room, fMsgList, wants, events, written, lost, stalled, exited>>

ConnectFails ==
  /\ exited' = TRUE
  /\ UNCHANGED m_sslSocket
  /\ UNCHANGED socketVars

Initialize(s) ==
  /\ pc[s] = "init"
  /\ \/ MakeSocket /\ inits' = inits + 1
     \/ ConnectFails /\ UNCHANGED inits
  /\ Goto(s, "flag")
  /\ UNCHANGED <<init_flag, m_Lock, m_data, msg, pushed, refused, failed>>

SetInitFlag(s) ==
  /\ pc[s] = "flag"
  /\ init_flag' = TRUE
  /\ Goto(s, "lock")
  /\ UNCHANGED <<m_Lock, m_sslSocket, m_data, msg, pushed, inits, refused, failed, exited>>
  /\ UNCHANGED socketVars

-----------------------------------------------------------------------------
(* The rest is done under m_Lock.                                          *)

\* Mutant of LockIsFree: the lock is not waited for.
LockIsIgnored(s) == s \in Sessions

LockIsFree(s) == m_Lock = None

Lock(s) ==
  /\ pc[s] = "lock"
  /\ LockIsFree(s)
  /\ m_Lock' = s
  /\ Goto(s, "payload")
  /\ UNCHANGED <<init_flag, m_sslSocket, m_data, msg, pushed, inits, refused, failed, exited>>
  /\ UNCHANGED socketVars

\* assert(len <= 256): a payload that is too long is the end of the process.
GenPayloadData(s) ==
  /\ pc[s] = "payload"
  /\ m_data' = [m_data EXCEPT !.payload = msg[s]]
  /\ exited' \in BOOLEAN
  /\ Goto(s, "token")
  /\ UNCHANGED <<init_flag, m_Lock, m_sslSocket, msg, pushed, inits, refused, failed>>
  /\ UNCHANGED socketVars

TokenData(s) == [m_data EXCEPT !.token = msg[s]]

GenPushData(s) ==
  /\ pc[s] = "token"
  /\ m_data' = TokenData(s)
  /\ Goto(s, "send")
  /\ UNCHANGED <<init_flag, m_Lock, m_sslSocket, msg, pushed, inits, refused, failed, exited>>
  /\ UNCHANGED socketVars

\* SSL_write returns without error, ...
WriteAll(k, m) ==
  /\ conn[k] = "up"
  /\ room[k]
  /\ written' = [written EXCEPT ![m] = @ + 1]

\* Mutant of ListAppend: the list holds one message.
ListReplace(list, d) == <<d>>

ListAppend(list, d) == Append(list, d)

\* ... or wants to write: the message is copied to the list, EV_WR requested.
SendBlocks(k) ==
  /\ conn[k] = "up"
  /\ ~ room[k]
  /\ fMsgList' = [fMsgList EXCEPT ![k] = ListAppend(@, m_data)]
  /\ wants' = [wants EXCEPT ![k] = TRUE]
  /\ stalled' = stalled \ {k}

\* ... or any other error: the connection is broken, or SSL refuses to write, say
\* because a blocked write must be repeated first with the same arguments.
SendFails(k) == conn[k] \in {"up", "down"}

Sends(k) ==
  /\ \/ WriteAll(k, m_data.payload) /\ UNCHANGED <<fMsgList, wants, stalled>>
     \/ SendBlocks(k) /\ UNCHANGED written
  /\ UNCHANGED <<made, conn, room, events, lost>>

\* The push returns: the locker gives the lock back.
Return(s) ==
  /\ m_Lock' = None
  /\ msg' = [msg EXCEPT ![s] = None]
  /\ Goto(s, "idle")

Send(s) ==
  /\ pc[s] = "send"
  /\ \/ /\ Sends(m_sslSocket)
        /\ Return(s)
        /\ UNCHANGED failed
     \/ /\ SendFails(m_sslSocket)
        /\ failed' = failed \cup {m_sslSocket}
        /\ Goto(s, "kill")
        /\ UNCHANGED <<m_Lock, msg>>
        /\ UNCHANGED socketVars
  /\ UNCHANGED <<init_flag, m_sslSocket, m_data, pushed, inits, refused, exited>>

\* Mutant of SignalKill: the old socket's task is not told to clean up.
SignalNothing(k) == events[k]

SignalKill(k) == events[k] \cup {"kill"}

\* Mutant of KillSocket: the new socket is stored first, and gets the signal.
KillReplacement(s) ==
  /\ pc[s] = "kill"
  /\ made < MaxSockets
  /\ events' = [events EXCEPT ![made + 1] = SignalKill(made + 1)]
  /\ m_sslSocket' = Null
  /\ Goto(s, "renew")
  /\ UNCHANGED <<init_flag, m_Lock, m_data, msg, pushed, inits, refused, failed, exited>>
  /\ UNCHANGED <<made, conn, room, fMsgList, wants, written, lost, stalled>>

\* m_sslSocket is read again: an Initialize may have replaced it meanwhile.
KillSocket(s) ==
  /\ pc[s] = "kill"
  /\ events' = [events EXCEPT ![m_sslSocket] = SignalKill(m_sslSocket)]
  /\ m_sslSocket' = Null
  /\ Goto(s, "renew")
  /\ UNCHANGED <<init_flag, m_Lock, m_data, msg, pushed, inits, refused, failed, exited>>
  /\ UNCHANGED <<made, conn, room, fMsgList, wants, written, lost, stalled>>

RenewSocket(s) ==
  /\ pc[s] = "renew"
  /\ MakeSocket \/ ConnectFails
  /\ Goto(s, "resend")
  /\ UNCHANGED <<init_flag, m_Lock, m_data, msg, pushed, inits, refused, failed>>

\* The result of the second Send is not looked at.
SendAgain(s) ==
  /\ pc[s] = "resend"
  /\ \/ Sends(m_sslSocket) /\ UNCHANGED refused
     \/ /\ SendFails(m_sslSocket)
        /\ refused' = refused \cup {m_data.payload}
        /\ UNCHANGED socketVars
  /\ Return(s)
  /\ UNCHANGED <<init_flag, m_sslSocket, m_data, pushed, inits, failed, exited>>

-----------------------------------------------------------------------------
(* The socket's task. GetEvents takes all events at once.                  *)

Contents(k) == {fMsgList[k][i].payload : i \in 1 .. Len(fMsgList[k])}

\* Run returns -1, and the task is deleted together with its list.
RunKill(k) ==
  /\ "kill" \in events[k]
  /\ conn[k] # "deleted"
  /\ conn' = [conn EXCEPT ![k] = "deleted"]
  /\ lost' = lost \cup Contents(k)
  /\ fMsgList' = [fMsgList EXCEPT ![k] = <<>>]
  /\ wants' = [wants EXCEPT ![k] = FALSE]
  /\ stalled' = stalled \ {k}
  /\ UNCHANGED <<made, room, events, written>>

TakesWriteEvent(k) == events[k] = {"write"}

RunNothing(k) ==
  /\ TakesWriteEvent(k)
  /\ fMsgList[k] = <<>>
  /\ events' = [events EXCEPT ![k] = {}]
  /\ UNCHANGED <<made, conn, room, fMsgList, wants, written, lost, stalled>>

ListRemoveHead(list) == Tail(list)

\* Mutant of EventForMore: the task does not signal itself.
NoEventForMore(list) == {}

EventForMore(list) == IF list = <<>> THEN {} ELSE {"write"}

\* One message is written; the task signals itself when there are more.
RunWrites(k) ==
  /\ TakesWriteEvent(k)
  /\ fMsgList[k] # <<>>
  /\ WriteAll(k, Head(fMsgList[k]).payload)
  /\ fMsgList' = [fMsgList EXCEPT ![k] = ListRemoveHead(@)]
  /\ events' = [events EXCEPT ![k] = EventForMore(Tail(fMsgList[k]))]
  /\ UNCHANGED <<made, conn, room, wants, lost, stalled>>

\* A part is written: EV_WR is requested and the message will be written whole.
RunWritesPart(k) ==
  /\ TakesWriteEvent(k)
  /\ fMsgList[k] # <<>>
  /\ conn[k] = "up"
  /\ wants' = [wants EXCEPT ![k] = TRUE]
  /\ events' = [events EXCEPT ![k] = {}]
  /\ UNCHANGED <<made, conn, room, fMsgList, written, lost, stalled>>

\* Nothing is written, for want of room or for any error: Run returns, EV_WR is
\* not requested.
RunFails(k) ==
  /\ TakesWriteEvent(k)
  /\ fMsgList[k] # <<>>
  /\ conn[k] # "deleted"
  /\ events' = [events EXCEPT ![k] = {}]
  /\ stalled' = stalled \cup {k}
  /\ UNCHANGED <<made, conn, room, fMsgList, wants, written, lost>>

Run(k) ==
  /\ RunKill(k) \/ RunNothing(k) \/ RunWrites(k) \/ RunWritesPart(k) \/ RunFails(k)
  /\ UNCHANGED sessionVars
  /\ UNCHANGED exited

\* The kernel finds the socket writeable, or broken, and signals the task.
Writeable(k) ==
  /\ wants[k]
  /\ room[k] \/ conn[k] = "down"
  /\ wants' = [wants EXCEPT ![k] = FALSE]
  /\ events' = [events EXCEPT ![k] = @ \cup {"write"}]
  /\ UNCHANGED <<made, conn, room, fMsgList, written, lost, stalled>>

\* The peer stops reading or reads again.
RoomChanges(k) ==
  /\ conn[k] = "up"
  /\ room' = [room EXCEPT ![k] = ~ @]
  /\ UNCHANGED <<made, conn, fMsgList, wants, events, written, lost, stalled>>

ConnectionBreaks(k) ==
  /\ conn[k] = "up"
  /\ conn' = [conn EXCEPT ![k] = "down"]
  /\ UNCHANGED <<made, room, fMsgList, wants, events, written, lost, stalled>>

SocketChanges(k) ==
  /\ Writeable(k) \/ RoomChanges(k) \/ ConnectionBreaks(k)
  /\ UNCHANGED sessionVars
  /\ UNCHANGED exited

-----------------------------------------------------------------------------
Push(s) ==
  \/ \E m \in Messages : PushNotification(s, m)
  \/ Initialize(s)
  \/ SetInitFlag(s)
  \/ Lock(s)
  \/ GenPayloadData(s)
  \/ GenPushData(s)
  \/ Send(s)
  \/ KillSocket(s)
  \/ RenewSocket(s)
  \/ SendAgain(s)

Next ==
  /\ ~ exited
  /\ \/ \E s \in Sessions : Push(s)
     \/ \E k \in Sockets : Run(k) \/ SocketChanges(k)

Spec == Init /\ [][Next]_vars

-----------------------------------------------------------------------------
(* Properties.                                                             *)

\* PushNotification never writes to, or signals, a socket that is missing or
\* has been told to go, although Initialize stores m_sslSocket without the lock.
SocketUsable ==
  \A s \in Sessions :
    pc[s] \in {"send", "kill", "resend"} /\ ~ exited =>
      m_sslSocket # Null /\ "kill" \notin events[m_sslSocket]

\* What a session sends, and sends again, is its own token with its own payload,
\* although all sessions share m_data.
OwnMessage ==
  \A s \in Sessions :
    pc[s] \in {"send", "kill", "renew", "resend"} =>
      m_data = [token |-> msg[s], payload |-> msg[s]]

\* A message is written at most once in full: by Send or by Run, never by both,
\* and not again on the socket that replaces a broken one.
Places == UNION {{k} \X (1 .. Len(fMsgList[k])) : k \in Sockets}
Copies(m) == {e \in Places : fMsgList[e[1]][e[2]].payload = m}

AtMostOnce == \A m \in Messages : written[m] + Cardinality(Copies(m)) <= 1

\* A message whose push has returned is written or listed, or it was listed on a
\* socket that has been replaced, or was refused by two sockets in a row.
Pushing == {msg[s] : s \in Sessions}

NothingLostSilently ==
  \A m \in pushed \ Pushing :
    \/ written[m] > 0
    \/ Copies(m) # {}
    \/ m \in lost \cup refused

\* Only a socket on which a Send failed takes listed messages with it: one that is
\* killed by mistake, because Initialize put it in the way while m_sslSocket was
\* read anew, has none (KillSocket, Initialize).
OnlyFailedSocketsLose ==
  \A k \in Sockets :
    "kill" \in events[k] /\ fMsgList[k] # <<>> => k \in failed

\* Sockets that are alive and that nobody can reach any more come from first
\* pushes that overlapped: replacing a socket leaves none behind.
Stranded == {k \in 1 .. made : k # m_sslSocket /\ "kill" \notin events[k]}

StrandedByInitOnly == Stranded # {} => Cardinality(Stranded) < inits

\* A message that is listed is waited for: its socket has been told to write,
\* or to go, or has asked to be told. Only a second write that failed (Run)
\* leaves it without that, and then until the next Send blocks.
ListedIsAwaited ==
  \A k \in Sockets :
    fMsgList[k] # <<>> => wants[k] \/ events[k] # {} \/ k \in stalled

\* The client implements the mailbox: no message is written twice, by Send and
\* by Run or on two sockets, and none disappears but those in the list of a
\* socket that is replaced, or refused by two sockets in a row.
Mail == INSTANCE Mailbox WITH
  given <- pushed,
  held <- Pushing \ {None},
  kept <- UNION {Contents(k) : k \in Sockets},
  dropped <- lost \cup refused

MailSpec == Mail!Spec
=============================================================================
