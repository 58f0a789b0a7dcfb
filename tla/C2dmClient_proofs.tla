-------------------------- MODULE C2dmClient_proofs --------------------------
(***************************************************************************)
(* Theorems about the C2DM client, for any sets of sessions and messages.  *)
(***************************************************************************)
EXTENDS C2dmClient, FiniteSetTheorems, TLAPS

Locked == {"payload", "token", "send", "kill", "renew", "resend"}

\* The holder of m_Lock is the session that runs under it.
LockInv == \A s \in Sessions : pc[s] \in Locked => m_Lock = s

\* A session that pushes has a message, and fills in the buffer step by step.
BufferInv ==
  \A s \in Sessions :
    /\ pc[s] # "idle" => msg[s] \in Messages
    /\ pc[s] = "token" => m_data.payload = msg[s]

\* Nothing was ever signalled to a socket that has not been made, ...
FreshInv ==
  \A k \in Sockets : k > made => events[k] = {} /\ ~ wants[k]

\* ... and the current socket has been made and not been told to go.
CurrentInv ==
  /\ m_sslSocket \in 0 .. made
  /\ m_sslSocket # Null => "kill" \notin events[m_sslSocket]

\* Who may use the socket finds one, unless it is just being replaced.
Admitted(s) == init_flag \/ pc[s] \in {"flag", "lock"} \cup Locked

PresentInv ==
  \A s \in Sessions :
    Admitted(s) /\ ~ exited =>
      m_sslSocket # Null \/ \E t \in Sessions : pc[t] = "renew"

IInv ==
  /\ TypeOK
  /\ LockInv
  /\ BufferInv
  /\ OwnMessage
  /\ FreshInv
  /\ CurrentInv
  /\ PresentInv

USE C2dmAssumption

LEMMA InvInit == Init => IInv
<1> SUFFICES ASSUME Init PROVE IInv
  OBVIOUS
<1> USE DEF Init
<1>1. TypeOK
  <2>1. init_flag \in BOOLEAN /\ exited \in BOOLEAN
    OBVIOUS
  <2>2. m_Lock \in Sessions \cup {None} /\ m_sslSocket \in Sockets \cup {Null}
    OBVIOUS
  <2>3. m_data \in [token : Messages \cup {None}, payload : Messages \cup {None}]
    OBVIOUS
  <2>4. /\ pc \in [Sessions -> Steps]
        /\ msg \in [Sessions -> Messages \cup {None}]
    BY DEF Steps
  <2>5. made \in 0 .. MaxSockets /\ inits \in Nat /\ written \in [Messages -> Nat]
    OBVIOUS
  <2>6. /\ conn \in [Sockets -> {"none", "up", "down", "deleted"}]
        /\ room \in [Sockets -> BOOLEAN] /\ wants \in [Sockets -> BOOLEAN]
    OBVIOUS
  <2>7. fMsgList \in [Sockets -> Seq(Buffer)]
    OBVIOUS
  <2>8. events \in [Sockets -> SUBSET {"kill", "write"}]
    OBVIOUS
  <2>9. pushed \subseteq Messages /\ lost \subseteq Messages /\ refused \subseteq Messages
    OBVIOUS
  <2> QED
    BY <2>1, <2>2, <2>3, <2>4, <2>5, <2>6, <2>7, <2>8, <2>9 DEF TypeOK
<1>2. LockInv /\ BufferInv /\ OwnMessage
  BY DEF LockInv, BufferInv, OwnMessage, Locked
<1>3. FreshInv /\ CurrentInv
  BY DEF FreshInv, CurrentInv, Sockets, Null
<1>4. PresentInv
  BY DEF PresentInv, Admitted, Locked
<1> QED
  BY <1>1, <1>2, <1>3, <1>4 DEF IInv

-----------------------------------------------------------------------------
(* The steps of a push.                                                    *)

\* What making a socket, or failing to, leaves true.
LEMMA MakeSocketStep ==
  ASSUME IInv, MakeSocket \/ ConnectFails
  PROVE /\ m_sslSocket' \in Sockets \cup {Null}
        /\ made' \in 0 .. MaxSockets
        /\ conn' \in [Sockets -> {"none", "up", "down", "deleted"}]
        /\ exited' \in BOOLEAN
        /\ room' = room /\ fMsgList' = fMsgList /\ wants' = wants
        /\ events' = events /\ written' = written /\ lost' = lost /\ stalled' = stalled
        /\ FreshInv' /\ CurrentInv'
        /\ ~ exited' => m_sslSocket' # Null
<1> USE DEF IInv, TypeOK, Sockets, Null, FreshInv, CurrentInv
<1>1. CASE MakeSocket
  <2>1. made + 1 \in Sockets /\ events[made + 1] = {}
    BY <1>1 DEF MakeSocket
  <2> QED
    BY <1>1, <2>1 DEF MakeSocket
<1>2. CASE ConnectFails
  BY <1>2 DEF ConnectFails, socketVars
<1> QED
  BY <1>1, <1>2

LEMMA PushNotificationStep ==
  ASSUME IInv, NEW s \in Sessions, NEW m \in Messages, PushNotification(s, m)
  PROVE IInv'
<1> USE DEF IInv, PushNotification, Goto, FlagWhenChecked, socketVars, TypeOK
<1>1. TypeOK'
  BY DEF Steps
<1>2. LockInv' /\ BufferInv' /\ OwnMessage'
  BY DEF LockInv, BufferInv, OwnMessage, Locked
<1>3. FreshInv' /\ CurrentInv'
  BY DEF FreshInv, CurrentInv
<1>4. PresentInv'
  BY DEF PresentInv, Admitted, Locked
<1> QED
  BY <1>1, <1>2, <1>3, <1>4

LEMMA InitializeStep ==
  ASSUME IInv, NEW s \in Sessions, Initialize(s), ~ exited PROVE IInv'
<1> USE DEF IInv, Initialize, Goto
<1>1. /\ m_sslSocket' \in Sockets \cup {Null}
      /\ made' \in 0 .. MaxSockets
      /\ conn' \in [Sockets -> {"none", "up", "down", "deleted"}]
      /\ exited' \in BOOLEAN
      /\ room' = room /\ fMsgList' = fMsgList /\ wants' = wants
      /\ events' = events /\ written' = written /\ lost' = lost /\ stalled' = stalled
      /\ FreshInv' /\ CurrentInv'
      /\ ~ exited' => m_sslSocket' # Null
  BY MakeSocketStep
<1>2. TypeOK'
  <2>1. inits' \in Nat
    BY DEF TypeOK
  <2> QED
    BY <1>1, <2>1 DEF TypeOK, Steps
<1> USE DEF TypeOK
<1>3. LockInv' /\ BufferInv' /\ OwnMessage'
  BY DEF LockInv, BufferInv, OwnMessage, Locked
<1>4. PresentInv'
  BY <1>1 DEF PresentInv
<1> QED
  BY <1>1, <1>2, <1>3, <1>4

LEMMA UnlockedSteps ==
  ASSUME IInv, ~ exited, NEW s \in Sessions,
         SetInitFlag(s) \/ Lock(s) \/ GenPayloadData(s) \/ GenPushData(s)
  PROVE IInv'
<1> USE DEF IInv, TypeOK, Goto, LockIsFree, TokenData, socketVars, Locked,
            SetInitFlag, Lock, GenPayloadData, GenPushData
<1>1. TypeOK'
  <2>1. m_data' \in [token : Messages \cup {None}, payload : Messages \cup {None}]
    <3>1. msg[s] \in Messages \cup {None}
      OBVIOUS
    <3> QED
      BY <3>1
  <2>2. pc' \in [Sessions -> Steps]
    <3>1. PICK x \in {"lock", "payload", "token", "send"} : pc' = [pc EXCEPT ![s] = x]
      OBVIOUS
    <3>2. pc \in [Sessions -> Steps] /\ x \in Steps
      BY DEF Steps
    <3> QED
      BY ONLY <3>1, <3>2
  <2>3. init_flag' \in BOOLEAN
    BY Zenon
  <2>4. m_Lock' \in Sessions \cup {None}
    OBVIOUS
  <2>5. UNCHANGED <<m_sslSocket, msg, pushed, inits, refused, failed, made, conn, room,
                    fMsgList, wants, events, written, lost, stalled>>
    OBVIOUS
  <2>6. exited' \in BOOLEAN
    BY Zenon
  <2> QED
    BY <2>1, <2>2, <2>3, <2>4, <2>5, <2>6 DEF TypeOK
<1>2. LockInv'
  BY DEF LockInv
<1>3. BufferInv' /\ OwnMessage'
  <2>1. CASE SetInitFlag(s) \/ Lock(s)
    BY <2>1 DEF LockInv, BufferInv, OwnMessage
  <2>2. CASE GenPayloadData(s)
    BY <2>2 DEF LockInv, BufferInv, OwnMessage
  <2>3. CASE GenPushData(s)
    BY <2>3 DEF LockInv, BufferInv, OwnMessage
  <2> QED
    BY ONLY <2>1, <2>2, <2>3, SetInitFlag(s) \/ Lock(s) \/ GenPayloadData(s) \/ GenPushData(s)
<1>4. FreshInv' /\ CurrentInv'
  BY DEF FreshInv, CurrentInv
<1>5. PresentInv'
  BY DEF PresentInv, Admitted
<1> QED
  BY <1>1, <1>2, <1>3, <1>4, <1>5

-----------------------------------------------------------------------------
(* The steps that use a socket.                                            *)

\* The session that holds the lock finds a socket that it may use.
LEMMA UserFindsSocket ==
  ASSUME IInv, ~ exited, NEW s \in Sessions, pc[s] \in {"send", "kill", "resend"}
  PROVE m_sslSocket \in Sockets /\ m_sslSocket # Null /\ m_sslSocket <= made
        /\ "kill" \notin events[m_sslSocket]
<1>1. \A t \in Sessions : pc[t] # "renew"
  BY DEF IInv, LockInv, Locked
<1>2. m_sslSocket # Null
  BY <1>1 DEF IInv, PresentInv, Admitted, Locked
<1> QED
  BY <1>2 DEF IInv, CurrentInv, TypeOK, Sockets, Null

LEMMA SendsStep ==
  ASSUME IInv, m_data \in Buffer, m_sslSocket \in Sockets, Sends(m_sslSocket),
         m_sslSocket <= made
  PROVE /\ fMsgList' \in [Sockets -> Seq(Buffer)]
        /\ wants' \in [Sockets -> BOOLEAN]
        /\ written' \in [Messages -> Nat]
        /\ made' = made /\ conn' = conn /\ room' = room /\ events' = events /\ lost' = lost
        /\ stalled' \in SUBSET Sockets
        /\ FreshInv'
<1> USE DEF IInv, TypeOK, Sends, WriteAll, SendBlocks, ListAppend
<1>1. fMsgList' \in [Sockets -> Seq(Buffer)]
  <2>1. Append(fMsgList[m_sslSocket], m_data) \in Seq(Buffer)
    OBVIOUS
  <2>2. \/ fMsgList' = fMsgList
        \/ fMsgList' = [fMsgList EXCEPT ![m_sslSocket] = Append(fMsgList[m_sslSocket], m_data)]
    OBVIOUS
  <2>3. fMsgList \in [Sockets -> Seq(Buffer)]
    OBVIOUS
  <2> QED
    BY ONLY <2>1, <2>2, <2>3
<1>2. written' \in [Messages -> Nat] /\ wants' \in [Sockets -> BOOLEAN]
  <2> HIDE DEF IInv
  <2>1. written \in [Messages -> Nat] /\ wants \in [Sockets -> BOOLEAN]
    BY DEF IInv
  <2>2. \/ written' = written
        \/ written' = [written EXCEPT ![m_data.payload] = @ + 1]
    OBVIOUS
  <2>3. written' \in [Messages -> Nat]
    BY <2>1, <2>2
  <2>4. \/ wants' = wants
        \/ wants' = [wants EXCEPT ![m_sslSocket] = TRUE]
    OBVIOUS
  <2> QED
    BY <2>1, <2>3, <2>4
<1>3. FreshInv'
  BY DEF FreshInv, Sockets
<1> QED
  BY <1>1, <1>2, <1>3

\* When a push returns, the buffer no longer matters to anybody.
LEMMA ReturnStep ==
  ASSUME IInv, NEW s \in Sessions, pc[s] \in {"send", "resend"}, Return(s),
         UNCHANGED <<init_flag, m_sslSocket, m_data, exited>>
  PROVE LockInv' /\ BufferInv' /\ OwnMessage' /\ PresentInv'
        /\ m_Lock' \in Sessions \cup {None}
        /\ pc' \in [Sessions -> Steps]
        /\ msg' \in [Sessions -> Messages \cup {None}]
<1> USE DEF IInv, TypeOK, Return, Goto, Locked
<1>1. LockInv' /\ BufferInv' /\ OwnMessage'
  BY DEF LockInv, BufferInv, OwnMessage
<1>2. PresentInv'
  BY DEF PresentInv, Admitted, LockInv
<1> QED
  BY <1>1, <1>2 DEF Steps

LEMMA SendStep ==
  ASSUME IInv, ~ exited, NEW s \in Sessions, Send(s) PROVE IInv'
<1> USE DEF IInv, Send
<1>1. m_sslSocket \in Sockets /\ m_sslSocket <= made
  BY UserFindsSocket
<1>2. m_data \in Buffer
  BY DEF OwnMessage, BufferInv, Buffer
<1>3. CASE Sends(m_sslSocket) /\ Return(s)
  <2>1. TypeOK'
    BY <1>1, <1>2, <1>3, SendsStep, ReturnStep DEF TypeOK
  <2>2. CurrentInv' /\ FreshInv'
    BY <1>1, <1>2, <1>3, SendsStep DEF CurrentInv
  <2> QED
    BY <1>3, <2>1, <2>2, ReturnStep
<1>4. CASE /\ Goto(s, "kill")
           /\ failed' = failed \cup {m_sslSocket}
           /\ UNCHANGED <<m_Lock, msg>>
           /\ UNCHANGED socketVars
  <2> USE <1>4 DEF Goto, socketVars, TypeOK, Locked
  <2>1. TypeOK'
    BY <1>1 DEF Steps
  <2>2. LockInv' /\ BufferInv' /\ OwnMessage'
    BY DEF LockInv, BufferInv, OwnMessage
  <2>3. FreshInv' /\ CurrentInv'
    BY DEF FreshInv, CurrentInv
  <2>4. PresentInv'
    BY <1>1 DEF PresentInv, Sockets, Null
  <2> QED
    BY <2>1, <2>2, <2>3, <2>4
<1> QED
  BY <1>3, <1>4

LEMMA KillSocketStep ==
  ASSUME IInv, ~ exited, NEW s \in Sessions, KillSocket(s) PROVE IInv'
<1> USE DEF IInv, KillSocket, Goto, SignalKill, TypeOK, Locked
<1>1. m_sslSocket \in Sockets /\ m_sslSocket <= made
  BY UserFindsSocket
<1>2. TypeOK'
  <2>1. events' \in [Sockets -> SUBSET {"kill", "write"}]
    BY <1>1
  <2> QED
    BY <2>1 DEF Steps
<1>3. LockInv' /\ BufferInv' /\ OwnMessage'
  BY DEF LockInv, BufferInv, OwnMessage
<1>4. FreshInv' /\ CurrentInv'
  BY <1>1 DEF FreshInv, CurrentInv, Null, Sockets
<1>5. PresentInv'
  BY DEF PresentInv
<1> QED
  BY <1>2, <1>3, <1>4, <1>5

LEMMA RenewSocketStep ==
  ASSUME IInv, ~ exited, NEW s \in Sessions, RenewSocket(s) PROVE IInv'
<1> USE DEF IInv, RenewSocket, Goto
<1>1. /\ m_sslSocket' \in Sockets \cup {Null}
      /\ made' \in 0 .. MaxSockets
      /\ conn' \in [Sockets -> {"none", "up", "down", "deleted"}]
      /\ exited' \in BOOLEAN
      /\ room' = room /\ fMsgList' = fMsgList /\ wants' = wants
      /\ events' = events /\ written' = written /\ lost' = lost /\ stalled' = stalled
      /\ FreshInv' /\ CurrentInv'
      /\ ~ exited' => m_sslSocket' # Null
  BY MakeSocketStep
<1>2. TypeOK'
  BY <1>1 DEF TypeOK, Steps
<1> USE DEF TypeOK
<1>3. LockInv' /\ BufferInv' /\ OwnMessage'
  BY DEF LockInv, BufferInv, OwnMessage, Locked
<1>4. PresentInv'
  BY <1>1 DEF PresentInv
<1> QED
  BY <1>1, <1>2, <1>3, <1>4

LEMMA SendAgainStep ==
  ASSUME IInv, ~ exited, NEW s \in Sessions, SendAgain(s) PROVE IInv'
<1> USE DEF IInv, SendAgain
<1>1. m_sslSocket \in Sockets /\ m_sslSocket <= made
  BY UserFindsSocket
<1>2. m_data \in Buffer
  BY DEF OwnMessage, BufferInv, Buffer
<1>3. refused' \in SUBSET Messages
  BY <1>2 DEF TypeOK, Buffer
<1>4. CASE Sends(m_sslSocket)
  <2>1. TypeOK'
    BY <1>1, <1>2, <1>3, <1>4, SendsStep, ReturnStep DEF TypeOK
  <2>2. CurrentInv' /\ FreshInv'
    BY <1>1, <1>2, <1>4, SendsStep DEF CurrentInv
  <2> QED
    BY <2>1, <2>2, ReturnStep
<1>5. CASE UNCHANGED socketVars
  <2>1. TypeOK'
    BY <1>3, <1>5, ReturnStep DEF TypeOK, socketVars
  <2>2. CurrentInv' /\ FreshInv'
    BY <1>5 DEF CurrentInv, FreshInv, socketVars
  <2> QED
    BY <2>1, <2>2, ReturnStep
<1> QED
  BY <1>4, <1>5

-----------------------------------------------------------------------------
(* The steps of a socket's task and of its surroundings.                   *)

SocketTypes ==
  /\ conn \in [Sockets -> {"none", "up", "down", "deleted"}]
  /\ room \in [Sockets -> BOOLEAN]
  /\ fMsgList \in [Sockets -> Seq(Buffer)]
  /\ wants \in [Sockets -> BOOLEAN]
  /\ events \in [Sockets -> SUBSET {"kill", "write"}]
  /\ written \in [Messages -> Nat]
  /\ lost \in SUBSET Messages
  /\ stalled \in SUBSET Sockets

\* A step of one socket signals nothing to another one, and never a kill.
EventsStay(k) ==
  \A l \in Sockets :
    /\ "kill" \in events'[l] => "kill" \in events[l]
    /\ l # k => events'[l] = events[l] /\ wants'[l] = wants[l]

SocketsChange(k) ==
  \/ RunKill(k) \/ RunNothing(k) \/ RunWrites(k) \/ RunWritesPart(k) \/ RunFails(k)
  \/ Writeable(k) \/ RoomChanges(k) \/ ConnectionBreaks(k)

LEMMA ContentsAreMessages ==
  ASSUME SocketTypes, NEW k \in Sockets PROVE Contents(k) \subseteq Messages
<1>1. fMsgList[k] \in Seq(Buffer)
  BY DEF SocketTypes
<1>2. \A i \in 1 .. Len(fMsgList[k]) : fMsgList[k][i] \in Buffer
  BY <1>1
<1>3. \A d \in Buffer : d.payload \in Messages
  BY DEF Buffer
<1> QED
  BY <1>2, <1>3 DEF Contents

LEMMA CountStep ==
  ASSUME NEW f \in [Messages -> Nat], NEW m
  PROVE [f EXCEPT ![m] = @ + 1] \in [Messages -> Nat]
<1>1. \A n \in Messages : f[n] + 1 \in Nat
  OBVIOUS
<1> QED
  BY <1>1

LEMMA SocketTypesStep ==
  ASSUME SocketTypes, NEW k \in Sockets, SocketsChange(k)
  PROVE SocketTypes' /\ made' = made /\ EventsStay(k)
<1>1. CASE RunKill(k)
  <2> USE <1>1 DEF RunKill
  <2>1. lost' \in SUBSET Messages
    BY ContentsAreMessages DEF SocketTypes
  <2>2. fMsgList' \in [Sockets -> Seq(Buffer)]
    <3>1. <<>> \in Seq(Buffer)
      OBVIOUS
    <3> QED
      BY <3>1 DEF SocketTypes
  <2>3. EventsStay(k)
    BY DEF EventsStay, SocketTypes
  <2> QED
    BY <2>1, <2>2, <2>3 DEF SocketTypes
<1>2. CASE RunNothing(k)
  BY <1>2 DEF SocketTypes, RunNothing, TakesWriteEvent, EventsStay
<1>3. CASE RunWrites(k)
  <2> USE <1>3 DEF RunWrites
  <2>1. fMsgList' \in [Sockets -> Seq(Buffer)]
    <3>1. fMsgList[k] \in Seq(Buffer) /\ fMsgList[k] # <<>>
      BY DEF SocketTypes
    <3>2. Tail(fMsgList[k]) \in Seq(Buffer)
      BY <3>1
    <3> QED
      BY <3>2 DEF SocketTypes, ListRemoveHead
  <2>2. written' \in [Messages -> Nat]
    <3>1. written' = [written EXCEPT ![Head(fMsgList[k]).payload] = @ + 1]
      BY DEF WriteAll
    <3>2. written \in [Messages -> Nat]
      BY DEF SocketTypes
    <3> QED
      BY <3>1, <3>2, CountStep
  <2>3. events' \in [Sockets -> SUBSET {"kill", "write"}] /\ EventsStay(k)
    BY DEF SocketTypes, EventsStay, TakesWriteEvent, EventForMore
  <2> QED
    BY <2>1, <2>2, <2>3 DEF SocketTypes
<1>4. CASE RunWritesPart(k)
  BY <1>4 DEF SocketTypes, RunWritesPart, TakesWriteEvent, EventsStay
<1>5. CASE RunFails(k)
  BY <1>5 DEF SocketTypes, RunFails, TakesWriteEvent, EventsStay
<1>6. CASE Writeable(k)
  BY <1>6 DEF SocketTypes, Writeable, EventsStay
<1>7. CASE RoomChanges(k)
  BY <1>7 DEF SocketTypes, RoomChanges, EventsStay
<1>8. CASE ConnectionBreaks(k)
  BY <1>8 DEF SocketTypes, ConnectionBreaks, EventsStay
<1> QED
  BY <1>1, <1>2, <1>3, <1>4, <1>5, <1>6, <1>7, <1>8 DEF SocketsChange

\* A socket that has not been made gets no event: nothing is requested for it.
LEMMA UnmadeIsQuiet ==
  ASSUME SocketTypes, FreshInv, NEW k \in Sockets, SocketsChange(k), k > made
  PROVE events'[k] = {} /\ ~ wants'[k]
<1>1. events[k] = {} /\ ~ wants[k]
  BY DEF FreshInv
<1> QED
  BY <1>1 DEF SocketTypes, SocketsChange, RunKill, RunNothing, RunWrites, RunWritesPart,
     RunFails, TakesWriteEvent, Writeable, RoomChanges, ConnectionBreaks

LEMMA SocketStep ==
  ASSUME IInv, NEW k \in Sockets, Run(k) \/ SocketChanges(k) PROVE IInv'
<1>1. UNCHANGED sessionVars /\ UNCHANGED exited /\ SocketsChange(k)
  BY DEF Run, SocketChanges, SocketsChange
<1>2. SocketTypes /\ FreshInv
  BY DEF IInv, TypeOK, SocketTypes
<1>3. SocketTypes' /\ made' = made /\ EventsStay(k)
  BY <1>1, <1>2, SocketTypesStep
<1>4. TypeOK'
  BY <1>1, <1>3 DEF IInv, TypeOK, SocketTypes, sessionVars
<1>5. LockInv' /\ BufferInv' /\ OwnMessage'
  BY <1>1 DEF IInv, sessionVars, LockInv, BufferInv, OwnMessage
<1>6. PresentInv'
  BY <1>1 DEF IInv, sessionVars, PresentInv, Admitted
<1>7. FreshInv'
  BY <1>1, <1>2, <1>3, UnmadeIsQuiet DEF FreshInv, EventsStay
<1>8. CurrentInv'
  BY <1>1, <1>3 DEF IInv, TypeOK, sessionVars, CurrentInv, EventsStay
<1> QED
  BY <1>4, <1>5, <1>6, <1>7, <1>8 DEF IInv

LEMMA InvNext == IInv /\ [Next]_vars => IInv'
<1> SUFFICES ASSUME IInv, [Next]_vars PROVE IInv'
  OBVIOUS
<1>1. ASSUME NEW s \in Sessions, Push(s), ~ exited PROVE IInv'
  BY <1>1, PushNotificationStep, InitializeStep, UnlockedSteps, SendStep,
     KillSocketStep, RenewSocketStep, SendAgainStep DEF Push
<1>2. ASSUME NEW k \in Sockets, Run(k) \/ SocketChanges(k) PROVE IInv'
  BY <1>2, SocketStep
<1>3. CASE UNCHANGED vars
  BY <1>3 DEF vars, sessionVars, socketVars, IInv, TypeOK, LockInv, BufferInv,
     OwnMessage, FreshInv, CurrentInv, PresentInv, Admitted
<1> QED
  BY <1>1, <1>2, <1>3 DEF Next

LEMMA InvAlways == Spec => []IInv
  BY InvInit, InvNext, PTL DEF Spec

-----------------------------------------------------------------------------
\* The variables of PushNotification and of the sockets keep their types.
THEOREM TypeCorrect == Spec => []TypeOK
<1>1. IInv => TypeOK
  BY DEF IInv
<1> QED
  BY <1>1, InvAlways, PTL

\* What a session sends, and sends again on a new socket, is its own message:
\* m_Lock is held from GenPayloadData to the second Send.
THEOREM BufferIsOwn == Spec => []OwnMessage
<1>1. IInv => OwnMessage
  BY DEF IInv
<1> QED
  BY <1>1, InvAlways, PTL

\* PushNotification never uses a socket that is missing or told to go, even when
\* Initialize, which does not take the lock, stores its socket in between.
THEOREM SocketIsUsable == Spec => []SocketUsable
<1>1. IInv => SocketUsable
  BY UserFindsSocket DEF SocketUsable
<1> QED
  BY <1>1, InvAlways, PTL

-----------------------------------------------------------------------------
(* Sockets that are told to go.                                            *)

\* The steps of a session that touch neither sockets nor the pointer to one.
Talks(s) ==
  \/ \E m \in Messages : PushNotification(s, m)
  \/ SetInitFlag(s)
  \/ Lock(s)
  \/ GenPayloadData(s)
  \/ GenPushData(s)

LEMMA TalksStep ==
  ASSUME IInv, NEW s \in Sessions, Talks(s)
  PROVE /\ UNCHANGED <<m_sslSocket, inits, refused, made, conn, room, fMsgList,
                       wants, events, written, lost>>
        /\ UNCHANGED <<stalled, failed>>
        /\ \A t \in Sessions : pc'[t] \in {"kill", "renew"} => pc[t] = pc'[t]
  BY DEF IInv, TypeOK, Talks, Goto, PushNotification, SetInitFlag, Lock, GenPayloadData,
     GenPushData, socketVars

\* Only the holder of the lock is at a step that is taken under it.
LEMMA Alone ==
  ASSUME IInv, NEW s \in Sessions, pc[s] \in Locked
  PROVE \A t \in Sessions : pc[t] \in Locked => t = s
  BY DEF IInv, LockInv

\* A socket that has nothing to lose, or on which a Send failed.
Spent(k) == fMsgList[k] = <<>> \/ k \in failed

FailedInv ==
  /\ \A k \in Sockets : k > made => fMsgList[k] = <<>>
  /\ \A k \in Sockets : "kill" \in events[k] => Spent(k)
  /\ \A s \in Sessions : pc[s] = "kill" /\ ~ exited => Spent(m_sslSocket)

\* Kills are signalled by KillSocket only, and not taken back.
LEMMA KillsStay ==
  ASSUME IInv, NEW k \in Sockets, SocketsChange(k)
  PROVE \A l \in Sockets : "kill" \in events'[l] <=> "kill" \in events[l]
  BY DEF IInv, TypeOK, SocketsChange, RunKill, RunNothing, RunWrites, RunWritesPart,
     RunFails, TakesWriteEvent, EventForMore, Writeable, RoomChanges, ConnectionBreaks

LEMMA SpentStays ==
  ASSUME IInv, NEW k \in Sockets, SocketsChange(k), UNCHANGED failed,
         NEW l \in Sockets, Spent(l)
  PROVE Spent(l)' /\ (fMsgList[l] = <<>> => fMsgList'[l] = <<>>)
<1> USE DEF Spent, IInv, TypeOK
<1>1. CASE RunKill(k)
  BY <1>1 DEF RunKill
<1>2. CASE RunWrites(k)
  BY <1>2 DEF RunWrites, WriteAll
<1>3. CASE UNCHANGED fMsgList
  BY <1>3
<1> QED
  BY <1>1, <1>2, <1>3 DEF SocketsChange, RunNothing, RunWritesPart, RunFails, Writeable,
     RoomChanges, ConnectionBreaks

LEMMA FailedStep == IInv /\ FailedInv /\ [Next]_vars => FailedInv'
<1> SUFFICES ASSUME IInv, FailedInv, [Next]_vars PROVE FailedInv'
  OBVIOUS
<1>1. ASSUME NEW s \in Sessions, ~ exited, Talks(s) PROVE FailedInv'
  BY <1>1, TalksStep DEF FailedInv, Spent
<1>2. ASSUME MakeSocket, UNCHANGED failed PROVE
        /\ \A k \in Sockets : k > made' => fMsgList'[k] = <<>>
        /\ \A k \in Sockets : "kill" \in events'[k] => Spent(k)'
        /\ Spent(m_sslSocket)'
  <2>1. made + 1 \in Sockets /\ fMsgList[made + 1] = <<>> /\ made \in Nat
    BY <1>2 DEF IInv, TypeOK, FailedInv, MakeSocket, Sockets
  <2>2. m_sslSocket' = made + 1 /\ made' = made + 1 /\ UNCHANGED <<fMsgList, events>>
    BY <1>2 DEF IInv, TypeOK, MakeSocket
  <2>3. \A k \in Sockets : k \in Nat
    BY DEF Sockets
  <2>4. \A k \in Sockets : Spent(k) => Spent(k)'
    BY <1>2, <2>2 DEF Spent
  <2>5. Spent(m_sslSocket)'
    BY <2>1, <2>2 DEF Spent
  <2>6. \A k \in Sockets : k > made' => k > made
    BY <2>1, <2>2, <2>3
  <2> QED
    BY <2>2, <2>4, <2>5, <2>6 DEF FailedInv
<1>3. ASSUME ConnectFails, UNCHANGED failed PROVE FailedInv'
  BY <1>3 DEF ConnectFails, socketVars, FailedInv, Spent
<1>4. ASSUME NEW s \in Sessions, Initialize(s) PROVE FailedInv'
  BY <1>2, <1>3, <1>4 DEF Initialize, FailedInv
<1>5. ASSUME NEW s \in Sessions, ~ exited, Send(s) \/ SendAgain(s) PROVE FailedInv'
  <2>1. /\ m_sslSocket \in Sockets /\ m_sslSocket <= made
        /\ "kill" \notin events[m_sslSocket]
        /\ \A t \in Sessions : pc[t] \in Locked => t = s
    BY <1>5, UserFindsSocket, Alone DEF Send, SendAgain, Locked
  <2>2. /\ UNCHANGED <<made, events, m_sslSocket>> /\ failed \subseteq failed'
        /\ \A k \in Sockets : k # m_sslSocket => fMsgList'[k] = fMsgList[k]
    BY <1>5, <2>1 DEF Send, SendAgain, Sends, SendBlocks, socketVars, IInv, TypeOK
  <2>3. /\ \A k \in Sockets : k > made' => fMsgList'[k] = <<>>
        /\ \A k \in Sockets : "kill" \in events'[k] => Spent(k)'
    <3>1. ASSUME NEW k \in Sockets, k > made PROVE fMsgList'[k] = <<>>
      <4>1. k # m_sslSocket
        BY <2>1, <3>1 DEF IInv, TypeOK, Sockets
      <4> QED
        BY <2>2, <3>1, <4>1 DEF FailedInv
    <3>2. ASSUME NEW k \in Sockets, "kill" \in events[k] PROVE Spent(k)'
      <4>1. k # m_sslSocket
        BY <2>1, <3>2
      <4> QED
        BY <2>2, <3>2, <4>1 DEF FailedInv, Spent
    <3> QED
      BY <2>2, <3>1, <3>2
  <2>4. \A t \in Sessions : pc'[t] = "kill" => t = s
    BY <1>5, <2>1 DEF Send, SendAgain, Return, Goto, IInv, TypeOK, Locked
  <2>5. pc'[s] = "kill" => m_sslSocket \in failed'
    BY <1>5 DEF Send, SendAgain, Return, Goto, IInv, TypeOK
  <2> QED
    BY <2>2, <2>3, <2>4, <2>5 DEF FailedInv, Spent
<1>6. ASSUME NEW s \in Sessions, ~ exited, KillSocket(s) PROVE FailedInv'
  <2>1. m_sslSocket \in Sockets /\ \A t \in Sessions : pc[t] \in Locked => t = s
    BY <1>6, UserFindsSocket, Alone DEF KillSocket, Locked
  <2>2. \A t \in Sessions : pc'[t] # "kill"
    BY <1>6, <2>1 DEF KillSocket, Goto, IInv, TypeOK, Locked
  <2>3. Spent(m_sslSocket)
    BY <1>6 DEF FailedInv, KillSocket
  <2>4. /\ UNCHANGED <<made, failed, fMsgList>>
        /\ \A k \in Sockets : k # m_sslSocket => events'[k] = events[k]
    BY <1>6 DEF KillSocket, IInv, TypeOK
  <2> QED
    BY <2>1, <2>2, <2>3, <2>4 DEF FailedInv, Spent
<1>7. ASSUME NEW s \in Sessions, RenewSocket(s) PROVE FailedInv'
  BY <1>2, <1>3, <1>7 DEF RenewSocket, FailedInv
<1>8. ASSUME NEW k \in Sockets, SocketsChange(k), UNCHANGED <<sessionVars, exited>>
      PROVE FailedInv'
  <2>1. made' = made
    BY <1>8, SocketTypesStep DEF IInv, TypeOK, SocketTypes
  <2>2. \A l \in Sockets : l > made' => fMsgList'[l] = <<>>
    BY <1>8, <2>1, SpentStays DEF FailedInv, Spent, sessionVars
  <2>3. \A l \in Sockets : "kill" \in events'[l] => Spent(l)'
    BY <1>8, KillsStay, SpentStays DEF FailedInv, sessionVars
  <2>4. ASSUME NEW s \in Sessions, pc'[s] = "kill", ~ exited' PROVE Spent(m_sslSocket)'
    <3>1. pc[s] = "kill" /\ ~ exited /\ m_sslSocket' = m_sslSocket
      BY <1>8, <2>4 DEF sessionVars
    <3>2. m_sslSocket \in Sockets /\ Spent(m_sslSocket)
      BY <3>1, UserFindsSocket DEF FailedInv
    <3> QED
      BY <1>8, <3>1, <3>2, SpentStays DEF Spent, sessionVars
  <2> QED
    BY <2>2, <2>3, <2>4 DEF FailedInv
<1>9. CASE UNCHANGED vars
  BY <1>9 DEF vars, sessionVars, socketVars, FailedInv, Spent
<1> QED
  BY <1>1, <1>4, <1>5, <1>6, <1>7, <1>8, <1>9
     DEF Next, Push, Talks, Run, SocketChanges, SocketsChange

\* A socket that is told to go takes messages with it only if a Send failed on it,
\* whatever Initialize has put in its place between the error and KillSocket.
THEOREM OnlyFailedLose == Spec => []OnlyFailedSocketsLose
<1>1. Init => FailedInv
  BY DEF Init, FailedInv, Spent
<1>2. FailedInv => OnlyFailedSocketsLose
  BY DEF FailedInv, Spent, OnlyFailedSocketsLose
<1> QED
  BY <1>1, <1>2, FailedStep, InvAlways, PTL DEF Spec

-----------------------------------------------------------------------------
(* Sockets that nobody can reach.                                          *)

\* The sockets that have been made and not been told to go.
Live == {k \in 1 .. made : "kill" \notin events[k]}

\* Each was made by Initialize, or took the place of one that was told to go.
LiveInv ==
  /\ Cardinality(Live) <= inits
  /\ \A s \in Sessions : pc[s] = "renew" => Cardinality(Live) < inits
  /\ m_sslSocket = Null => Live = {} \/ Cardinality(Live) < inits

LEMMA LiveFinite ==
  ASSUME made \in Nat
  PROVE IsFiniteSet(Live) /\ Cardinality(Live) \in Nat
<1>1. IsFiniteSet(1 .. made)
  BY FS_Interval
<1>2. Live \in SUBSET (1 .. made)
  BY DEF Live
<1> QED
  BY <1>1, <1>2, FS_Subset, FS_CardinalityType

LEMMA LiveMade ==
  ASSUME IInv, MakeSocket
  PROVE Cardinality(Live') = Cardinality(Live) + 1 /\ m_sslSocket' # Null
<1>1. made \in Nat /\ made' = made + 1 /\ events' = events /\ m_sslSocket' = made + 1
  BY DEF IInv, TypeOK, MakeSocket
<1>2. made + 1 \in Sockets /\ events[made + 1] = {}
  BY <1>1 DEF IInv, TypeOK, FreshInv, MakeSocket, Sockets
<1>3. Live' = Live \cup {made + 1} /\ made + 1 \notin Live
  BY <1>1, <1>2 DEF Live
<1>4. Cardinality(Live \cup {made + 1}) = Cardinality(Live) + 1
  BY <1>1, <1>3, LiveFinite, FS_AddElement
<1> QED
  BY <1>1, <1>3, <1>4 DEF Null

LEMMA LiveStep == IInv /\ LiveInv /\ [Next]_vars => LiveInv'
<1> SUFFICES ASSUME IInv, LiveInv, [Next]_vars PROVE LiveInv'
  OBVIOUS
<1>1. IsFiniteSet(Live) /\ Cardinality(Live) \in Nat /\ inits \in Nat /\ made \in Nat
  <2>1. made \in Nat /\ inits \in Nat
    BY DEF IInv, TypeOK
  <2> QED
    BY <2>1, LiveFinite
<1>2. ASSUME UNCHANGED <<made, inits, m_sslSocket>>,
             \A k \in Sockets : "kill" \in events'[k] <=> "kill" \in events[k],
             \A s \in Sessions : pc'[s] = "renew" => pc[s] = "renew"
      PROVE LiveInv'
  <2>1. \A k \in 1 .. made : k \in Sockets
    BY DEF IInv, TypeOK, Sockets
  <2>2. Live' = Live
    BY <1>2, <2>1 DEF Live
  <2> QED
    BY <1>2, <2>2 DEF LiveInv
<1>3. ASSUME NEW s \in Sessions, ~ exited, Talks(s) PROVE LiveInv'
  BY <1>2, <1>3, TalksStep
<1>4. ASSUME NEW s \in Sessions, Initialize(s) PROVE LiveInv'
  <2>1. \A t \in Sessions : pc'[t] = "renew" => pc[t] = "renew"
    BY <1>4 DEF Initialize, Goto, IInv, TypeOK
  <2>2. CASE MakeSocket
    <3>1. Cardinality(Live') = Cardinality(Live) + 1 /\ m_sslSocket' # Null
      BY <2>2, LiveMade
    <3>2. CASE inits' = inits + 1
      BY <1>1, <2>1, <3>1, <3>2 DEF LiveInv
    <3> QED
      BY <1>4, <2>2, <3>2 DEF Initialize, MakeSocket, ConnectFails, socketVars, IInv, TypeOK
  <2>3. CASE ConnectFails /\ UNCHANGED inits
    BY <1>2, <2>1, <2>3 DEF ConnectFails, socketVars
  <2> QED
    BY <1>4, <2>2, <2>3 DEF Initialize
<1>5. ASSUME NEW s \in Sessions, Send(s) \/ SendAgain(s) PROVE LiveInv'
  <2>1. UNCHANGED <<made, inits, m_sslSocket, events>>
    BY <1>5 DEF Send, SendAgain, Sends, socketVars
  <2>2. \A t \in Sessions : pc'[t] = "renew" => pc[t] = "renew"
    BY <1>5 DEF Send, SendAgain, Return, Goto, IInv, TypeOK
  <2> QED
    BY <1>2, <2>1, <2>2
<1>6. ASSUME NEW s \in Sessions, ~ exited, KillSocket(s) PROVE LiveInv'
  <2>1. /\ m_sslSocket \in Sockets /\ m_sslSocket <= made
        /\ "kill" \notin events[m_sslSocket]
    BY <1>6, UserFindsSocket DEF KillSocket
  <2>2. m_sslSocket \in Live
    BY <1>1, <2>1 DEF Live, Sockets
  <2>3. /\ UNCHANGED <<made, inits>>
        /\ \A k \in Sockets : "kill" \in events'[k] <=> "kill" \in events[k] \/ k = m_sslSocket
    BY <1>6, <2>1 DEF KillSocket, SignalKill, IInv, TypeOK
  <2>4. \A k \in 1 .. made : k \in Sockets
    BY DEF IInv, TypeOK, Sockets
  <2>5. Live' = Live \ {m_sslSocket}
    BY <2>3, <2>4 DEF Live
  <2>6. Cardinality(Live \ {m_sslSocket}) = Cardinality(Live) - 1
    BY <1>1, <2>2, FS_RemoveElement
  <2>7. Cardinality(Live') < inits'
    BY <1>1, <2>3, <2>5, <2>6 DEF LiveInv
  <2>8. Cardinality(Live') <= inits'
    BY <1>1, <2>3, <2>5, <2>6 DEF LiveInv
  <2> QED
    BY <2>7, <2>8 DEF LiveInv
<1>7. ASSUME NEW s \in Sessions, RenewSocket(s) PROVE LiveInv'
  <2>1. /\ \A t \in Sessions : pc[t] \in Locked => t = s
        /\ pc[s] = "renew"
    BY <1>7, Alone DEF RenewSocket, Locked
  <2>2. \A t \in Sessions : pc'[t] # "renew"
    BY <1>7, <2>1 DEF RenewSocket, Goto, IInv, TypeOK, Locked
  <2>3. Cardinality(Live) < inits /\ inits' = inits
    BY <1>7, <2>1 DEF LiveInv, RenewSocket
  <2>4. CASE MakeSocket
    <3>1. Cardinality(Live') = Cardinality(Live) + 1 /\ m_sslSocket' # Null
      BY <2>4, LiveMade
    <3>2. Cardinality(Live') <= inits'
      BY <1>1, <2>3, <3>1
    <3> QED
      BY <2>2, <3>1, <3>2 DEF LiveInv
  <2>5. CASE ConnectFails
    BY <1>2, <2>2, <2>3, <2>5 DEF ConnectFails, socketVars
  <2> QED
    BY <1>7, <2>4, <2>5 DEF RenewSocket
<1>8. ASSUME NEW k \in Sockets, SocketsChange(k), UNCHANGED <<sessionVars, exited>>
      PROVE LiveInv'
  <2>1. made' = made
    BY <1>8, SocketTypesStep DEF IInv, TypeOK, SocketTypes
  <2>2. \A l \in Sockets : "kill" \in events'[l] <=> "kill" \in events[l]
    BY <1>8, KillsStay
  <2>3. UNCHANGED <<inits, m_sslSocket, pc>>
    BY <1>8 DEF sessionVars
  <2> QED
    BY <1>2, <2>1, <2>2, <2>3
<1>9. CASE UNCHANGED vars
  BY <1>2, <1>9 DEF vars, sessionVars, socketVars
<1> QED
  BY <1>3, <1>4, <1>5, <1>6, <1>7, <1>8, <1>9
     DEF Next, Push, Talks, Run, SocketChanges, SocketsChange

\* However many sockets are replaced, those that are alive and out of reach are
\* fewer than the sockets that Initialize has made.
THEOREM OnlyInitStrands == Spec => []StrandedByInitOnly
<1>1. Init => LiveInv
  <2> SUFFICES ASSUME Init PROVE LiveInv
    OBVIOUS
  <2>1. Live = {} /\ inits = 0 /\ \A s \in Sessions : pc[s] # "renew"
    BY DEF Init, Live
  <2>2. Cardinality({}) = 0
    BY FS_EmptySet
  <2> QED
    BY <2>1, <2>2 DEF LiveInv
<1>2. IInv /\ LiveInv => StrandedByInitOnly
  <2> SUFFICES ASSUME IInv, LiveInv, Stranded # {} PROVE Cardinality(Stranded) < inits
    BY DEF StrandedByInitOnly
  <2>1. made \in Nat /\ inits \in Nat
    BY DEF IInv, TypeOK
  <2>2. IsFiniteSet(Live) /\ Cardinality(Live) \in Nat
    BY <2>1, LiveFinite
  <2>3. Stranded = Live \ {m_sslSocket}
    BY DEF Stranded, Live
  <2>4. CASE m_sslSocket = Null
    <3>1. Stranded = Live
      BY <2>1, <2>3, <2>4 DEF Live, Null
    <3> QED
      BY <2>4, <3>1 DEF LiveInv
  <2>5. CASE m_sslSocket # Null
    <3>1. m_sslSocket \in Live
      BY <2>1, <2>5 DEF IInv, CurrentInv, Live, Null
    <3>2. Cardinality(Live \ {m_sslSocket}) = Cardinality(Live) - 1
      BY <2>2, <3>1, FS_RemoveElement
    <3> QED
      BY <2>1, <2>2, <2>3, <3>2 DEF LiveInv
  <2> QED
    BY <2>4, <2>5
<1> QED
  BY <1>1, <1>2, LiveStep, InvAlways, PTL DEF Spec

-----------------------------------------------------------------------------
(* Messages in the lists.                                                  *)

Listed(L, m) == \E k \in Sockets : \E i \in 1 .. Len(L[k]) : L[k][i].payload = m

Unique(L, m) ==
  \A k, l \in Sockets : \A i \in 1 .. Len(L[k]), j \in 1 .. Len(L[l]) :
    L[k][i].payload = m /\ L[l][j].payload = m => k = l /\ i = j

Lists == [Sockets -> Seq(Buffer)]

\* How the lists L become the lists M: d is put into the list of k, its head is
\* taken, it is emptied.
Appended(M, L, k, d) == M = [L EXCEPT ![k] = Append(L[k], d)]
Shortened(M, L, k) == L[k] # <<>> /\ M = [L EXCEPT ![k] = Tail(L[k])]
Emptied(M, L, k) == M = [L EXCEPT ![k] = <<>>]

LEMMA AppendLists ==
  ASSUME NEW L \in Lists, NEW k \in Sockets, NEW d \in Buffer, NEW M,
         Appended(M, L, k, d), NEW m
  PROVE /\ Listed(M, m) <=> Listed(L, m) \/ m = d.payload
        /\ Unique(L, m) /\ (m = d.payload => ~ Listed(L, m)) => Unique(M, m)
<1> DEFINE n == Len(L[k])
<1>1. /\ n \in Nat /\ Len(M[k]) = n + 1 /\ M[k][n + 1] = d
      /\ \A i \in 1 .. n : M[k][i] = L[k][i]
      /\ \A l \in Sockets : l # k => M[l] = L[l]
  BY DEF Lists, Appended
<1> HIDE DEF n
<1>2. \A i \in 1 .. Len(M[k]) : i \in 1 .. n \/ i = n + 1
  BY <1>1
<1>3. n + 1 \in 1 .. Len(M[k]) /\ \A i \in 1 .. n : i \in 1 .. Len(M[k])
  BY <1>1
<1>4. ASSUME NEW l \in Sockets, NEW i \in 1 .. Len(M[l])
      PROVE (l = k /\ i = n + 1 /\ M[l][i] = d) \/ (i \in 1 .. Len(L[l]) /\ M[l][i] = L[l][i])
  BY <1>1, <1>2 DEF n
<1>5. ASSUME NEW l \in Sockets, NEW i \in 1 .. Len(L[l])
      PROVE i \in 1 .. Len(M[l]) /\ M[l][i] = L[l][i]
  BY <1>1, <1>3 DEF n
<1>6. Listed(M, m) <=> Listed(L, m) \/ m = d.payload
  <2>1. Listed(M, m) => Listed(L, m) \/ m = d.payload
    BY <1>4 DEF Listed
  <2>2. Listed(L, m) => Listed(M, m)
    BY <1>5 DEF Listed
  <2>3. m = d.payload => Listed(M, m)
    BY <1>1, <1>3 DEF Listed
  <2> QED
    BY <2>1, <2>2, <2>3
<1>7. ASSUME Unique(L, m), m = d.payload => ~ Listed(L, m) PROVE Unique(M, m)
  <2>1. ASSUME NEW l \in Sockets, NEW h \in Sockets, NEW i \in 1 .. Len(M[l]),
               NEW j \in 1 .. Len(M[h]), M[l][i].payload = m, M[h][j].payload = m
        PROVE l = h /\ i = j
    <3>1. CASE m = d.payload
      <4>1. ~ (i \in 1 .. Len(L[l]) /\ M[l][i] = L[l][i])
        BY <1>7, <2>1, <3>1 DEF Listed
      <4>2. ~ (j \in 1 .. Len(L[h]) /\ M[h][j] = L[h][j])
        BY <1>7, <2>1, <3>1 DEF Listed
      <4> QED
        BY <1>4, <4>1, <4>2
    <3>2. CASE m # d.payload
      <4>1. /\ i \in 1 .. Len(L[l]) /\ L[l][i].payload = m
            /\ j \in 1 .. Len(L[h]) /\ L[h][j].payload = m
        BY <1>4, <2>1, <3>2
      <4> QED
        BY ONLY Unique(L, m), <4>1, l \in Sockets, h \in Sockets DEF Unique
    <3> QED
      BY <3>1, <3>2
  <2> QED
    BY ONLY <2>1 DEF Unique
<1> QED
  BY <1>6, <1>7

LEMMA TailLists ==
  ASSUME NEW L \in Lists, NEW k \in Sockets, NEW M, Shortened(M, L, k), NEW m
  PROVE /\ Listed(M, m) => Listed(L, m)
        /\ Listed(L, m) => Listed(M, m) \/ m = Head(L[k]).payload
        /\ Listed(L, Head(L[k]).payload)
        /\ Unique(L, m) => Unique(M, m)
        /\ Unique(L, m) /\ m = Head(L[k]).payload => ~ Listed(M, m)
<1> DEFINE n == Len(L[k])
<1>1. /\ n \in Nat \ {0} /\ Len(M[k]) = n - 1 /\ Head(L[k]) = L[k][1]
      /\ \A i \in 1 .. n - 1 : M[k][i] = L[k][i + 1]
      /\ \A l \in Sockets : l # k => M[l] = L[l]
  <2>1. L[k] \in Seq(Buffer) /\ L[k] # <<>>
    BY DEF Lists, Shortened
  <2>2. /\ Len(L[k]) \in Nat \ {0} /\ Len(Tail(L[k])) = Len(L[k]) - 1
        /\ Head(L[k]) = L[k][1]
        /\ \A i \in 1 .. Len(L[k]) - 1 : Tail(L[k])[i] = L[k][i + 1]
    BY <2>1
  <2> QED
    BY <2>2 DEF Lists, Shortened
<1> HIDE DEF n
<1>2. 1 \in 1 .. n
  BY <1>1
<1>3. ASSUME NEW i \in 1 .. Len(M[k]) PROVE i + 1 \in 1 .. n /\ M[k][i] = L[k][i + 1] /\ i + 1 # 1
  BY <1>1
<1>4. ASSUME NEW i \in 1 .. n, i # 1
      PROVE i - 1 \in 1 .. Len(M[k]) /\ M[k][i - 1] = L[k][i]
  BY <1>1, <1>4
\* Where an element of M is in L.
<1> DEFINE At(l, i) == IF l = k THEN i + 1 ELSE i
<1>10. ASSUME NEW l \in Sockets, NEW i \in 1 .. Len(M[l])
       PROVE At(l, i) \in 1 .. Len(L[l]) /\ M[l][i] = L[l][At(l, i)] /\ i \in Int
  <2>1. CASE l = k
    BY <1>3, <2>1 DEF n
  <2>2. CASE l # k
    BY <1>1, <2>2
  <2> QED
    BY <2>1, <2>2
<1>5. Listed(M, m) => Listed(L, m)
  <2> SUFFICES ASSUME NEW l \in Sockets, NEW i \in 1 .. Len(M[l]), M[l][i].payload = m
               PROVE Listed(L, m)
    BY DEF Listed
  <2>1. CASE l = k
    BY <1>3, <2>1 DEF Listed, n
  <2>2. CASE l # k
    BY <1>1, <2>2 DEF Listed
  <2> QED
    BY <2>1, <2>2
<1>6. Listed(L, m) => Listed(M, m) \/ m = Head(L[k]).payload
  <2> SUFFICES ASSUME NEW l \in Sockets, NEW i \in 1 .. Len(L[l]), L[l][i].payload = m,
                      m # Head(L[k]).payload
               PROVE Listed(M, m)
    BY DEF Listed
  <2>1. CASE l = k
    <3>1. i \in 1 .. n /\ i # 1
      BY <1>1, <2>1 DEF n
    <3> QED
      BY <1>4, <2>1, <3>1 DEF Listed
  <2>2. CASE l # k
    BY <1>1, <2>2 DEF Listed
  <2> QED
    BY <2>1, <2>2
<1>7. Listed(L, Head(L[k]).payload)
  BY <1>1, <1>2 DEF Listed, n
<1>8. ASSUME Unique(L, m) PROVE Unique(M, m)
  <2>1. ASSUME NEW l \in Sockets, NEW h \in Sockets, NEW i \in 1 .. Len(M[l]),
               NEW j \in 1 .. Len(M[h]), M[l][i].payload = m, M[h][j].payload = m
        PROVE l = h /\ i = j
    <3>1. l = h /\ At(l, i) = At(h, j)
      <4>1. /\ At(l, i) \in 1 .. Len(L[l]) /\ L[l][At(l, i)].payload = m
            /\ At(h, j) \in 1 .. Len(L[h]) /\ L[h][At(h, j)].payload = m
        BY <1>10, <2>1
      <4> HIDE DEF At
      <4> QED
        BY ONLY Unique(L, m), <4>1, l \in Sockets, h \in Sockets DEF Unique
    <3>2. i \in Int /\ j \in Int
      BY <1>10
    <3> QED
      BY <3>1, <3>2
  <2> QED
    BY ONLY <2>1 DEF Unique
<1>9. ASSUME Unique(L, m), m = Head(L[k]).payload, Listed(M, m) PROVE FALSE
  <2>1. PICK l \in Sockets : \E i \in 1 .. Len(M[l]) : M[l][i].payload = m
    BY <1>9 DEF Listed
  <2>2. PICK i \in 1 .. Len(M[l]) : M[l][i].payload = m
    BY <2>1
  <2>3. 1 \in 1 .. Len(L[k]) /\ L[k][1].payload = m
    BY <1>1, <1>2, <1>9 DEF n
  <2>4. CASE l = k
    <3>1. i + 1 \in 1 .. Len(L[k]) /\ L[k][i + 1].payload = m /\ i + 1 # 1
      BY <1>3, <2>2, <2>4 DEF n
    <3> QED
      BY <1>9, <2>3, <3>1 DEF Unique
  <2>5. CASE l # k
    BY <1>1, <1>9, <2>2, <2>3, <2>5 DEF Unique
  <2> QED
    BY <2>4, <2>5
<1> QED
  BY <1>5, <1>6, <1>7, <1>8, <1>9

LEMMA EmptyLists ==
  ASSUME NEW L \in Lists, NEW k \in Sockets, NEW M, Emptied(M, L, k), NEW m
  PROVE /\ Listed(M, m) => Listed(L, m)
        /\ Listed(L, m) => Listed(M, m) \/ \E i \in 1 .. Len(L[k]) : L[k][i].payload = m
        /\ Unique(L, m) => Unique(M, m)
        /\ Unique(L, m) => \A i \in 1 .. Len(L[k]) : L[k][i].payload = m => ~ Listed(M, m)
<1>1. M[k] = <<>> /\ Len(M[k]) = 0 /\ \A l \in Sockets : l # k => M[l] = L[l]
  BY DEF Lists, Emptied
<1>2. \A i \in 1 .. Len(M[k]) : FALSE
  BY <1>1
<1>3. ASSUME NEW l \in Sockets, NEW i \in 1 .. Len(M[l])
      PROVE l # k /\ i \in 1 .. Len(L[l]) /\ M[l][i] = L[l][i]
  BY <1>1, <1>2
<1>4. Listed(M, m) => Listed(L, m)
  BY <1>3 DEF Listed
<1>5. Listed(L, m) => Listed(M, m) \/ \E i \in 1 .. Len(L[k]) : L[k][i].payload = m
  BY <1>1 DEF Listed
<1>6. ASSUME Unique(L, m) PROVE Unique(M, m)
  <2>1. ASSUME NEW l \in Sockets, NEW h \in Sockets, NEW i \in 1 .. Len(M[l]),
               NEW j \in 1 .. Len(M[h]), M[l][i].payload = m, M[h][j].payload = m
        PROVE l = h /\ i = j
    <3>1. /\ i \in 1 .. Len(L[l]) /\ L[l][i].payload = m
          /\ j \in 1 .. Len(L[h]) /\ L[h][j].payload = m
      BY <1>3, <2>1
    <3> QED
      BY ONLY Unique(L, m), <3>1, l \in Sockets, h \in Sockets DEF Unique
  <2> QED
    BY ONLY <2>1 DEF Unique
<1>7. ASSUME Unique(L, m), NEW i \in 1 .. Len(L[k]), L[k][i].payload = m PROVE ~ Listed(M, m)
  <2> SUFFICES ASSUME NEW l \in Sockets, NEW j \in 1 .. Len(M[l]), M[l][j].payload = m
               PROVE FALSE
    BY DEF Listed
  <2>1. l # k /\ j \in 1 .. Len(L[l]) /\ L[l][j].payload = m
    BY <1>3
  <2> QED
    BY ONLY <1>7, <2>1, k \in Sockets, l \in Sockets DEF Unique
<1> QED
  BY <1>4, <1>5, <1>6, <1>7

-----------------------------------------------------------------------------
(* Messages are written once, and none is lost silently.                   *)

Counted(m) ==
  /\ written[m] <= 1
  /\ Unique(fMsgList, m)
  /\ Listed(fMsgList, m) => written[m] = 0

\* Nothing has become of the message yet.
Untouched(m) == written[m] = 0 /\ ~ Listed(fMsgList, m)

\* What has become of a message whose push has returned.
Kept(m) == written[m] > 0 \/ Listed(fMsgList, m) \/ m \in lost \cup refused

\* Messages are pushed by one session each, and nothing becomes of them before
\* it has sent them.
PushedInv ==
  /\ \A s \in Sessions :
       /\ pc[s] = "idle" => msg[s] = None
       /\ msg[s] # None => msg[s] \in pushed /\ Untouched(msg[s])
  /\ \A s, t \in Sessions : msg[s] = msg[t] /\ msg[s] # None => s = t

TrailInv ==
  /\ \A m \in Messages : Counted(m) /\ (m \notin pushed => Untouched(m))
  /\ PushedInv
  /\ \A m \in pushed \ Pushing : Kept(m)

LEMMA ListTypes == IInv => fMsgList \in Lists /\ written \in [Messages -> Nat]
  BY DEF IInv, TypeOK, Lists

\* A step of a socket writes or loses what is listed, and nothing else.
LEMMA SocketKeeps ==
  ASSUME IInv, NEW k \in Sockets, SocketsChange(k), NEW m \in Messages, Counted(m)
  PROVE /\ Counted(m)'
        /\ Untouched(m) => Untouched(m)'
        /\ refused' = refused /\ Kept(m) => Kept(m)'
<1>1. fMsgList \in Lists /\ written \in [Messages -> Nat]
  BY ListTypes
<1>2. CASE UNCHANGED <<fMsgList, written, lost>>
  BY <1>2 DEF Counted, Untouched, Kept
<1>3. CASE RunKill(k)
  <2>1. /\ Emptied(fMsgList', fMsgList, k)
        /\ lost' = lost \cup Contents(k) /\ written' = written
    BY <1>3 DEF RunKill, Emptied
  <2>2. /\ Listed(fMsgList', m) => Listed(fMsgList, m)
        /\ Listed(fMsgList, m) => Listed(fMsgList', m) \/ m \in Contents(k)
        /\ Unique(fMsgList, m) => Unique(fMsgList', m)
    BY <1>1, <2>1, EmptyLists DEF Contents
  <2> QED
    BY <2>1, <2>2 DEF Counted, Untouched, Kept
<1>4. CASE RunWrites(k)
  <2> DEFINE h == Head(fMsgList[k]).payload
  <2>1. /\ Shortened(fMsgList', fMsgList, k)
        /\ lost' = lost /\ written' = [written EXCEPT ![h] = @ + 1]
    BY <1>4 DEF RunWrites, WriteAll, ListRemoveHead, Shortened
  <2>2. /\ Listed(fMsgList', m) => Listed(fMsgList, m)
        /\ Listed(fMsgList, m) => Listed(fMsgList', m) \/ m = h
        /\ Listed(fMsgList, h)
        /\ Unique(fMsgList, m) => Unique(fMsgList', m)
        /\ Unique(fMsgList, m) /\ m = h => ~ Listed(fMsgList', m)
    BY <1>1, <2>1, TailLists
  <2> HIDE DEF h
  <2>3. written[m] \in Nat /\ written'[m] = IF m = h THEN written[m] + 1 ELSE written[m]
    BY <1>1, <2>1
  <2>4. CASE m = h
    BY <2>2, <2>3, <2>4 DEF Counted, Untouched, Kept
  <2>5. CASE m # h
    BY <2>1, <2>2, <2>3, <2>5 DEF Counted, Untouched, Kept
  <2> QED
    BY <2>4, <2>5
<1> QED
  BY <1>2, <1>3, <1>4 DEF SocketsChange, RunNothing, RunWritesPart, RunFails, Writeable,
     RoomChanges, ConnectionBreaks

\* A Send that succeeds writes or lists its message.
LEMMA SendKeeps ==
  ASSUME IInv, m_sslSocket \in Sockets, m_data \in Buffer, Sends(m_sslSocket),
         Untouched(m_data.payload), NEW m \in Messages, Counted(m)
  PROVE /\ Counted(m)'
        /\ Untouched(m) /\ m # m_data.payload => Untouched(m)'
        /\ refused \subseteq refused' /\ (Kept(m) \/ m = m_data.payload) => Kept(m)'
<1>1. fMsgList \in Lists /\ written \in [Messages -> Nat] /\ lost' = lost
  BY ListTypes DEF Sends
<1> DEFINE h == m_data.payload
<1>2. CASE WriteAll(m_sslSocket, m_data.payload) /\ UNCHANGED fMsgList
  <2>1. written[m] \in Nat /\ written'[m] = IF m = h THEN written[m] + 1 ELSE written[m]
    BY <1>1, <1>2 DEF WriteAll
  <2>2. Untouched(h) /\ fMsgList' = fMsgList
    BY <1>2
  <2> HIDE DEF h
  <2>3. CASE m = h
    BY <2>1, <2>2, <2>3 DEF Counted, Untouched, Kept, h
  <2>4. CASE m # h
    BY <1>1, <2>1, <2>2, <2>4 DEF Counted, Untouched, Kept, h
  <2> QED
    BY <2>3, <2>4 DEF h
<1>3. CASE SendBlocks(m_sslSocket) /\ UNCHANGED written
  <2>1. Appended(fMsgList', fMsgList, m_sslSocket, m_data)
    BY <1>3 DEF SendBlocks, ListAppend, Appended
  <2>2. /\ Listed(fMsgList', m) <=> Listed(fMsgList, m) \/ m = h
        /\ Unique(fMsgList, m) /\ (m = h => ~ Listed(fMsgList, m)) => Unique(fMsgList', m)
    BY <1>1, <2>1, AppendLists
  <2>3. Untouched(h) /\ written' = written
    BY <1>3
  <2> HIDE DEF h
  <2>4. CASE m = h
    BY <2>2, <2>3, <2>4 DEF Counted, Untouched, Kept, h
  <2>5. CASE m # h
    BY <1>1, <2>2, <2>3, <2>5 DEF Counted, Untouched, Kept, h
  <2> QED
    BY <2>4, <2>5 DEF h
<1> QED
  BY <1>2, <1>3 DEF Sends

LEMMA PushNotificationTrail ==
  ASSUME IInv, TrailInv, NEW s \in Sessions, NEW n \in Messages, PushNotification(s, n)
  PROVE TrailInv'
<1>1. /\ pushed' = pushed \cup {n} /\ n \notin pushed /\ msg[s] = None /\ n # None
      /\ msg'[s] = n /\ \A t \in Sessions : t # s => msg'[t] = msg[t] /\ pc'[t] = pc[t]
      /\ pc'[s] # "idle"
      /\ UNCHANGED <<fMsgList, written, lost, refused>>
  BY DEF PushNotification, Goto, socketVars, TrailInv, PushedInv, IInv, TypeOK
<1>2. \A m \in Messages : Counted(m)' /\ (m \notin pushed' => Untouched(m)')
  BY <1>1 DEF TrailInv, Counted, Untouched
<1>3. PushedInv'
  <2>1. Untouched(n)
    BY <1>1 DEF TrailInv
  <2>2. \A t \in Sessions : msg[t] # n
    BY <1>1 DEF TrailInv, PushedInv
  <2>3. ASSUME NEW t \in Sessions
        PROVE /\ pc'[t] = "idle" => msg'[t] = None
              /\ msg'[t] # None => msg'[t] \in pushed' /\ Untouched(msg[t])' /\ Untouched(msg'[t])
    BY <1>1, <2>1 DEF TrailInv, PushedInv, Untouched
  <2>4. \A t \in Sessions : msg'[t] # None => Untouched(msg[t])'
    BY <2>3
  <2>5. \A t, u \in Sessions : msg'[t] = msg'[u] /\ msg'[t] # None => t = u
    BY <1>1, <2>2 DEF TrailInv, PushedInv
  <2> QED
    BY <2>3, <2>4, <2>5 DEF PushedInv
<1>4. ASSUME NEW m \in pushed' \ Pushing' PROVE Kept(m)'
  <2>1. m # n
    BY <1>1, <1>4 DEF Pushing
  <2>2. \A t \in Sessions : msg[t] # m
    <3>1. m \in Messages
      BY <1>1, <2>1 DEF IInv, TypeOK
    <3>2. msg[s] # m
      BY <1>1, <3>1
    <3> QED
      BY <1>1, <1>4, <3>2 DEF Pushing
  <2>3. m \in pushed \ Pushing
    BY <1>1, <2>1, <2>2 DEF Pushing
  <2> QED
    BY <1>1, <2>3 DEF TrailInv, Kept
<1> QED
  BY <1>2, <1>3, <1>4 DEF TrailInv

\* A push returns: its message was sent, or refused.
LEMMA ReturnTrail ==
  ASSUME IInv, TrailInv, ~ exited, NEW s \in Sessions, Return(s), UNCHANGED pushed,
         Send(s) \/ SendAgain(s)
  PROVE TrailInv'
<1>1. m_sslSocket \in Sockets /\ pc[s] \in {"send", "resend"}
  BY UserFindsSocket DEF Send, SendAgain
<1>2. /\ m_data \in Buffer /\ m_data.payload = msg[s] /\ msg[s] \in Messages
      /\ msg[s] # None
  BY <1>1 DEF IInv, OwnMessage, BufferInv, Buffer
<1>3. Untouched(msg[s]) /\ msg[s] \in pushed
  BY <1>2 DEF TrailInv, PushedInv
<1>4. /\ msg'[s] = None /\ pc'[s] = "idle" /\ pushed' = pushed
      /\ \A t \in Sessions : t # s => msg'[t] = msg[t] /\ pc'[t] = pc[t]
  BY DEF Return, Goto, IInv, TypeOK
<1>5. /\ refused \subseteq refused'
      /\ \/ Sends(m_sslSocket)
         \/ UNCHANGED <<fMsgList, written, lost>> /\ msg[s] \in refused'
  <2>1. CASE Send(s)
    BY <1>4, <2>1 DEF Send, Goto, IInv, TypeOK
  <2>2. CASE SendAgain(s)
    BY <1>2, <2>2 DEF SendAgain, socketVars
  <2> QED
    BY <2>1, <2>2
<1>6. ASSUME NEW m \in Messages
      PROVE /\ Counted(m)'
            /\ Untouched(m) /\ m # msg[s] => Untouched(m)'
            /\ Kept(m) \/ m = msg[s] => Kept(m)'
  <2>1. Counted(m)
    BY DEF TrailInv
  <2>2. CASE Sends(m_sslSocket)
    BY <1>1, <1>2, <1>3, <1>5, <2>1, <2>2, SendKeeps
  <2>3. CASE UNCHANGED <<fMsgList, written, lost>> /\ msg[s] \in refused'
    BY <1>5, <2>1, <2>3 DEF Counted, Untouched, Kept
  <2> QED
    BY <1>5, <2>2, <2>3
<1>7. \A t \in Sessions : t # s /\ msg[t] # None => msg[t] # msg[s] /\ msg[t] \in Messages
  BY <1>2 DEF TrailInv, PushedInv, IInv, TypeOK
<1>8. PushedInv'
  <2>1. ASSUME NEW t \in Sessions, msg'[t] # None
        PROVE t # s /\ msg'[t] \in pushed' /\ Untouched(msg[t])' /\ msg'[t] = msg[t]
    <3>1. t # s /\ msg'[t] = msg[t] /\ msg[t] # None
      BY <1>4, <2>1
    <3>2. msg[t] \in Messages /\ msg[t] # msg[s] /\ msg[t] \in pushed /\ Untouched(msg[t])
      BY <1>7, <3>1 DEF TrailInv, PushedInv
    <3>3. \A m \in Messages : Untouched(m) /\ m # msg[s] => written'[m] = 0 /\ ~ Listed(fMsgList', m)
      BY <1>6 DEF Untouched
    <3> QED
      BY <1>4, <3>1, <3>2, <3>3 DEF Untouched
  <2>2. \A t \in Sessions : pc'[t] = "idle" => msg'[t] = None
    BY <1>4 DEF TrailInv, PushedInv
  <2>3. \A t, u \in Sessions : msg'[t] = msg'[u] /\ msg'[t] # None => t = u
    BY <1>4, <2>1 DEF TrailInv, PushedInv
  <2> QED
    BY <2>1, <2>2, <2>3 DEF PushedInv
<1>9. ASSUME NEW m \in Messages PROVE m \notin pushed' => Untouched(m)'
  BY <1>3, <1>4, <1>6 DEF TrailInv
<1>10. ASSUME NEW m \in pushed' \ Pushing' PROVE Kept(m)'
  <2>1. m \in Messages /\ m \in pushed
    BY <1>4 DEF IInv, TypeOK
  <2>2. m = msg[s] \/ m \notin Pushing
    BY <1>4, <1>10 DEF Pushing
  <2> QED
    BY <1>6, <2>1, <2>2 DEF TrailInv
<1> QED
  BY <1>6, <1>9, <1>8, <1>10 DEF TrailInv

\* What does not touch messages, and starts or ends no push.
LEMMA SilentTrail ==
  ASSUME IInv, TrailInv, UNCHANGED <<msg, pushed>>,
         \A s \in Sessions : pc'[s] = "idle" => pc[s] = "idle",
         UNCHANGED <<fMsgList, written, lost, refused>>
  PROVE TrailInv'
  BY DEF TrailInv, PushedInv, Counted, Untouched, Kept, Pushing

LEMMA SocketTrail ==
  ASSUME IInv, TrailInv, NEW k \in Sockets, SocketsChange(k), UNCHANGED sessionVars
  PROVE TrailInv'
<1>1. UNCHANGED <<pc, msg, pushed, refused>>
  BY DEF sessionVars
<1>2. ASSUME NEW m \in Messages
      PROVE Counted(m)' /\ (Untouched(m) => Untouched(m)') /\ (Kept(m) => Kept(m)')
  BY <1>1, SocketKeeps DEF TrailInv
<1>3. \A m \in Messages : Counted(m)' /\ (m \notin pushed' => Untouched(m)')
  BY <1>1, <1>2 DEF TrailInv
<1>4. PushedInv'
  <2>1. \A m \in Messages : Untouched(m) => written'[m] = 0 /\ ~ Listed(fMsgList', m)
    BY <1>2 DEF Untouched
  <2>2. \A s \in Sessions : msg[s] # None => Untouched(msg[s]) /\ msg[s] \in Messages
    BY DEF TrailInv, PushedInv, IInv, TypeOK
  <2> QED
    BY <1>1, <2>1, <2>2 DEF TrailInv, PushedInv, Untouched
<1>5. ASSUME NEW m \in pushed' \ Pushing' PROVE Kept(m)'
  <2>1. m \in Messages /\ m \in pushed \ Pushing
    BY <1>1 DEF Pushing, IInv, TypeOK
  <2> QED
    BY <1>2, <2>1 DEF TrailInv
<1> QED
  BY <1>3, <1>4, <1>5 DEF TrailInv

LEMMA TrailStep == IInv /\ TrailInv /\ [Next]_vars => TrailInv'
<1> SUFFICES ASSUME IInv, TrailInv, [Next]_vars PROVE TrailInv'
  OBVIOUS
<1>1. ASSUME NEW s \in Sessions, ~ exited, Send(s) \/ SendAgain(s) PROVE TrailInv'
  <2>1. CASE Return(s)
    BY <1>1, <2>1, ReturnTrail DEF Send, SendAgain
  <2>2. CASE ~ Return(s)
    <3>1. /\ UNCHANGED <<msg, pushed, refused, fMsgList, written, lost>>
          /\ pc' = [pc EXCEPT ![s] = "kill"]
      BY <1>1, <2>2 DEF Send, SendAgain, Goto, socketVars
    <3> QED
      BY <3>1, SilentTrail DEF IInv, TypeOK
  <2> QED
    BY <2>1, <2>2
<1>2. ASSUME NEW s \in Sessions,
             \/ SetInitFlag(s) \/ Lock(s) \/ GenPayloadData(s) \/ GenPushData(s)
             \/ Initialize(s) \/ KillSocket(s) \/ RenewSocket(s)
      PROVE TrailInv'
  <2>1. UNCHANGED <<msg, pushed, refused, fMsgList, written, lost>>
    BY <1>2 DEF SetInitFlag, Lock, GenPayloadData, GenPushData, Initialize, KillSocket,
       RenewSocket, MakeSocket, ConnectFails, socketVars
  <2>2. \A t \in Sessions : pc'[t] = "idle" => pc[t] = "idle"
    BY <1>2 DEF SetInitFlag, Lock, GenPayloadData, GenPushData, Initialize, KillSocket,
       RenewSocket, Goto, IInv, TypeOK
  <2> QED
    BY <2>1, <2>2, SilentTrail
<1>3. ASSUME NEW k \in Sockets, SocketsChange(k), UNCHANGED sessionVars PROVE TrailInv'
  BY <1>3, SocketTrail
<1>4. CASE UNCHANGED vars
  BY <1>4, SilentTrail DEF vars, sessionVars, socketVars
<1> QED
  BY <1>1, <1>2, <1>3, <1>4, PushNotificationTrail
     DEF Next, Push, Run, SocketChanges, SocketsChange

LEMMA TrailInit == Init => TrailInv
<1> SUFFICES ASSUME Init PROVE TrailInv
  OBVIOUS
<1>1. \A m : ~ Listed(fMsgList, m) /\ Unique(fMsgList, m)
  <2>1. \A k \in Sockets : \A i \in 1 .. Len(fMsgList[k]) : FALSE
    BY DEF Init
  <2> QED
    BY <2>1 DEF Listed, Unique
<1> QED
  BY <1>1 DEF Init, TrailInv, PushedInv, Counted, Untouched

LEMMA TrailAlways == Spec => [](IInv /\ TrailInv)
  BY InvAlways, TrailInit, TrailStep, PTL DEF Spec

\* The copies that the properties speak of are those in the lists.
LEMMA CopiesAreListed ==
  ASSUME NEW m
  PROVE /\ Listed(fMsgList, m) <=> Copies(m) # {}
        /\ Unique(fMsgList, m) => \A e, f \in Copies(m) : e = f
<1>1. \A e : e \in Places <=>
        \E k \in Sockets : \E i \in 1 .. Len(fMsgList[k]) : e = <<k, i>>
  BY DEF Places
<1>2. ASSUME NEW e \in Copies(m)
      PROVE \E k \in Sockets : \E i \in 1 .. Len(fMsgList[k]) :
              e = <<k, i>> /\ fMsgList[k][i].payload = m
  BY <1>1 DEF Copies
<1>3. ASSUME NEW k \in Sockets, NEW i \in 1 .. Len(fMsgList[k]), fMsgList[k][i].payload = m
      PROVE <<k, i>> \in Copies(m)
  BY <1>1, <1>3 DEF Copies
<1>4. Listed(fMsgList, m) <=> Copies(m) # {}
  BY <1>2, <1>3 DEF Listed
<1>5. ASSUME Unique(fMsgList, m), NEW e \in Copies(m), NEW f \in Copies(m) PROVE e = f
  BY <1>2, <1>5 DEF Unique
<1> QED
  BY <1>4, <1>5

\* A message is written at most once: by Send, or from the list of one socket.
THEOREM WrittenAtMostOnce == Spec => []AtMostOnce
<1>1. IInv /\ TrailInv => AtMostOnce
  <2> SUFFICES ASSUME IInv, TrailInv, NEW m \in Messages
               PROVE written[m] + Cardinality(Copies(m)) <= 1
    BY DEF AtMostOnce
  <2>1. written[m] \in Nat /\ written[m] <= 1 /\ (Copies(m) # {} => written[m] = 0)
    BY CopiesAreListed DEF TrailInv, Counted, IInv, TypeOK
  <2>2. CASE Copies(m) = {}
    BY <2>1, <2>2, FS_EmptySet
  <2>3. CASE Copies(m) # {}
    <3>1. PICK e \in Copies(m) : TRUE
      BY <2>3
    <3>2. \A f \in Copies(m) : f = e
      BY CopiesAreListed DEF TrailInv, Counted
    <3>3. Copies(m) = {e}
      BY <3>1, <3>2
    <3>4. Cardinality({e}) = 1
      BY FS_Singleton
    <3> QED
      BY <2>1, <2>3, <3>3, <3>4
  <2> QED
    BY <2>2, <2>3
<1> QED
  BY <1>1, TrailAlways, PTL

\* No message disappears without a trace: it was written, waits, was in the list of
\* a socket that was replaced, or was refused by two sockets in a row.
THEOREM NothingLost == Spec => []NothingLostSilently
<1>1. IInv /\ TrailInv => NothingLostSilently
  BY CopiesAreListed DEF TrailInv, Kept, NothingLostSilently
<1> QED
  BY <1>1, TrailAlways, PTL

-----------------------------------------------------------------------------
(* A list waits for something.                                             *)

LEMMA AwaitedSend ==
  ASSUME IInv, ListedIsAwaited, m_sslSocket \in Sockets, Sends(m_sslSocket)
  PROVE ListedIsAwaited'
<1> SUFFICES ASSUME NEW k \in Sockets, fMsgList'[k] # <<>>
             PROVE wants'[k] \/ events'[k] # {} \/ k \in stalled'
  BY DEF ListedIsAwaited
<1>1. events' = events
  BY DEF Sends
<1>2. CASE UNCHANGED <<fMsgList, wants, stalled>>
  BY <1>1, <1>2 DEF ListedIsAwaited
<1>3. CASE SendBlocks(m_sslSocket)
  <2>1. CASE k = m_sslSocket
    BY <1>3, <2>1 DEF SendBlocks, IInv, TypeOK
  <2>2. CASE k # m_sslSocket
    <3>1. fMsgList'[k] = fMsgList[k] /\ wants'[k] = wants[k] /\ (k \in stalled <=> k \in stalled')
      BY <1>3, <2>2 DEF SendBlocks, IInv, TypeOK
    <3> QED
      BY <1>1, <3>1 DEF ListedIsAwaited
  <2> QED
    BY <2>1, <2>2
<1> QED
  BY <1>2, <1>3 DEF Sends

LEMMA AwaitedSocket ==
  ASSUME IInv, ListedIsAwaited, NEW k \in Sockets, SocketsChange(k)
  PROVE ListedIsAwaited'
<1> SUFFICES ASSUME NEW l \in Sockets, fMsgList'[l] # <<>>
             PROVE wants'[l] \/ events'[l] # {} \/ l \in stalled'
  BY DEF ListedIsAwaited
<1> USE DEF IInv, TypeOK
<1>1. fMsgList[l] # <<>> => wants[l] \/ events[l] # {} \/ l \in stalled
  BY DEF ListedIsAwaited
<1>2. CASE RunKill(k)
  BY <1>1, <1>2 DEF RunKill
<1>3. CASE RunNothing(k)
  BY <1>1, <1>3 DEF RunNothing
<1>4. CASE RunWrites(k)
  BY <1>1, <1>4 DEF RunWrites, ListRemoveHead, EventForMore
<1>5. CASE RunWritesPart(k)
  BY <1>1, <1>5 DEF RunWritesPart
<1>6. CASE RunFails(k)
  BY <1>1, <1>6 DEF RunFails
<1>7. CASE Writeable(k)
  BY <1>1, <1>7 DEF Writeable
<1>8. CASE RoomChanges(k) \/ ConnectionBreaks(k)
  BY <1>1, <1>8 DEF RoomChanges, ConnectionBreaks
<1> QED
  BY <1>2, <1>3, <1>4, <1>5, <1>6, <1>7, <1>8 DEF SocketsChange

LEMMA AwaitedStep == IInv /\ ListedIsAwaited /\ [Next]_vars => ListedIsAwaited'
<1> SUFFICES ASSUME IInv, ListedIsAwaited, [Next]_vars PROVE ListedIsAwaited'
  OBVIOUS
<1>1. CASE UNCHANGED <<fMsgList, wants, events, stalled>>
  BY <1>1 DEF ListedIsAwaited
<1>2. ASSUME NEW s \in Sessions, ~ exited, Send(s) \/ SendAgain(s) PROVE ListedIsAwaited'
  <2>1. m_sslSocket \in Sockets
    BY <1>2, UserFindsSocket DEF Send, SendAgain
  <2> QED
    BY <1>1, <1>2, <2>1, AwaitedSend DEF Send, SendAgain, socketVars
<1>3. ASSUME NEW s \in Sessions, ~ exited, KillSocket(s) PROVE ListedIsAwaited'
  <2>1. UNCHANGED <<fMsgList, wants, stalled>>
    BY <1>3 DEF KillSocket
  <2>2. \A k \in Sockets : events[k] \subseteq events'[k]
    BY <1>3 DEF KillSocket, SignalKill, IInv, TypeOK
  <2>3. ASSUME NEW k \in Sockets, events[k] # {} PROVE events'[k] # {}
    BY <2>2, <2>3
  <2> QED
    BY <2>1, <2>3 DEF ListedIsAwaited
<1>4. ASSUME NEW s \in Sessions, Talks(s) \/ Initialize(s) \/ RenewSocket(s)
      PROVE ListedIsAwaited'
  BY <1>1, <1>4 DEF Talks, PushNotification, SetInitFlag, Lock, GenPayloadData, GenPushData,
     Initialize, RenewSocket, MakeSocket, ConnectFails, socketVars
<1>5. ASSUME NEW k \in Sockets, SocketsChange(k) PROVE ListedIsAwaited'
  BY <1>5, AwaitedSocket
<1>6. CASE UNCHANGED vars
  BY <1>1, <1>6 DEF vars, socketVars
<1> QED
  BY <1>2, <1>3, <1>4, <1>5, <1>6 DEF Next, Push, Talks, Run, SocketChanges, SocketsChange

\* A list is never forgotten by its task, but after a write from it has failed
\* (SSL_write in Run): events are taken all at once, and signalled again.
THEOREM ListsAreAwaited == Spec => []ListedIsAwaited
<1>1. Init => ListedIsAwaited
  BY DEF Init, ListedIsAwaited
<1> QED
  BY <1>1, AwaitedStep, InvAlways, PTL DEF Spec

-----------------------------------------------------------------------------
(* The client is a mailbox.                                                *)

Listing == UNION {Contents(k) : k \in Sockets}

Held == Pushing \ {None}

LEMMA ListingIsListed ==
  ASSUME NEW m
  PROVE /\ m \in Listing <=> Listed(fMsgList, m)
        /\ m \in Listing' <=> Listed(fMsgList', m)
<1>1. ASSUME m \in Listing PROVE Listed(fMsgList, m)
  BY <1>1 DEF Listing, Contents, Listed
<1>2. ASSUME Listed(fMsgList, m) PROVE m \in Listing
  <2>1. PICK k \in Sockets : \E i \in 1 .. Len(fMsgList[k]) : fMsgList[k][i].payload = m
    BY <1>2 DEF Listed
  <2>2. m \in Contents(k)
    BY <2>1 DEF Contents
  <2> QED
    BY <2>2 DEF Listing
<1>3. ASSUME m \in Listing' PROVE Listed(fMsgList', m)
  BY <1>3 DEF Listing, Contents, Listed
<1>4. ASSUME Listed(fMsgList', m) PROVE m \in Listing'
  <2>1. PICK k \in Sockets : \E i \in 1 .. Len(fMsgList'[k]) : fMsgList'[k][i].payload = m
    BY <1>4 DEF Listed
  <2>2. m \in Contents(k)'
    BY <2>1 DEF Contents
  <2> QED
    BY <2>2 DEF Listing
<1> QED
  BY <1>1, <1>2, <1>3, <1>4

\* The variables of the mailbox, as the client has them.
MailSame == UNCHANGED <<pushed, Held, Listing, written, lost \cup refused>>

LEMMA MailGive ==
  ASSUME IInv, TrailInv, NEW s \in Sessions, NEW m \in Messages, PushNotification(s, m)
  PROVE Mail!Give(m)
<1>1. /\ m \notin pushed /\ pushed' = pushed \cup {m} /\ msg[s] = None /\ m # None
      /\ msg'[s] = m /\ \A t \in Sessions : t # s => msg'[t] = msg[t]
      /\ UNCHANGED <<fMsgList, written, lost, refused>>
  BY DEF PushNotification, socketVars, TrailInv, PushedInv, IInv, TypeOK
<1>2. Held' = Held \cup {m}
  BY <1>1 DEF Held, Pushing
<1>3. Listing' = Listing
  BY <1>1 DEF Listing, Contents
<1> QED
  BY <1>1, <1>2, <1>3 DEF Mail!Give, Held, Listing

LEMMA MailRelease ==
  ASSUME IInv, TrailInv, ~ exited, NEW s \in Sessions, Return(s), UNCHANGED pushed,
         Send(s) \/ SendAgain(s)
  PROVE \E m \in Messages : Mail!Release(m)
<1> DEFINE m == msg[s]
<1>1. m_sslSocket \in Sockets /\ pc[s] \in {"send", "resend"}
  BY UserFindsSocket DEF Send, SendAgain
<1>2. m_data \in Buffer /\ m_data.payload = m /\ m \in Messages /\ m # None
  BY <1>1 DEF IInv, OwnMessage, BufferInv, Buffer
<1>3. /\ msg'[s] = None /\ \A t \in Sessions : t # s => msg'[t] = msg[t]
      /\ \A t \in Sessions : t # s => msg[t] # m
  BY <1>2 DEF Return, TrailInv, PushedInv, IInv, TypeOK
<1>4. m \in Held /\ Held' = Held \ {m}
  BY <1>2, <1>3 DEF Held, Pushing
<1> HIDE DEF m
<1>5. \/ /\ written' = [written EXCEPT ![m] = @ + 1]
         /\ Listing' = Listing /\ lost' \cup refused' = lost \cup refused
      \/ /\ Listing' = Listing \cup {m}
         /\ written' = written /\ lost' \cup refused' = lost \cup refused
      \/ /\ lost' \cup refused' = (lost \cup refused) \cup {m}
         /\ written' = written /\ Listing' = Listing
  <2>1. CASE WriteAll(m_sslSocket, m_data.payload) /\ UNCHANGED <<fMsgList, lost, refused>>
    BY <1>2, <2>1 DEF WriteAll, Listing, Contents
  <2>2. CASE SendBlocks(m_sslSocket) /\ UNCHANGED <<written, lost, refused>>
    <3>1. Appended(fMsgList', fMsgList, m_sslSocket, m_data)
      BY <2>2 DEF SendBlocks, ListAppend, Appended
    <3>2. \A n : Listed(fMsgList', n) <=> Listed(fMsgList, n) \/ n = m
      BY <1>1, <1>2, <3>1, ListTypes, AppendLists
    <3>3. Listing' = Listing \cup {m}
      BY <3>2, ListingIsListed
    <3> QED
      BY <2>2, <3>3
  <2>3. CASE UNCHANGED socketVars /\ refused' = refused \cup {m}
    BY <2>3 DEF socketVars, Listing, Contents
  <2>4. CASE Send(s)
    <3>1. pc'[s] = "idle"
      BY DEF Return, Goto, IInv, TypeOK
    <3>2. Sends(m_sslSocket) /\ UNCHANGED refused
      BY <2>4, <3>1 DEF Send, Goto, IInv, TypeOK
    <3> QED
      BY <2>1, <2>2, <3>2 DEF Sends
  <2>5. CASE SendAgain(s)
    BY <1>2, <2>1, <2>2, <2>3, <2>5 DEF SendAgain, Sends
  <2> QED
    BY <2>4, <2>5
<1>6. Mail!Release(m)
  BY <1>4, <1>5 DEF Mail!Release, Mail!Writes, Held, Listing
<1> QED
  BY <1>2, <1>6 DEF m

LEMMA MailSocket ==
  ASSUME IInv, TrailInv, NEW k \in Sockets, SocketsChange(k), UNCHANGED sessionVars
  PROVE Mail!Next \/ MailSame
<1>1. UNCHANGED <<pushed, msg, refused>> /\ Held' = Held
  BY DEF sessionVars, Held, Pushing
<1>2. fMsgList \in Lists
  BY ListTypes
<1>3. CASE RunKill(k)
  <2> DEFINE M == Contents(k)
  <2>1. Emptied(fMsgList', fMsgList, k) /\ lost' = lost \cup M /\ written' = written
    BY <1>3 DEF RunKill, Emptied
  <2>2. M \subseteq Messages /\ M \subseteq Listing
    BY ContentsAreMessages DEF Listing, IInv, TypeOK, SocketTypes
  <2>3. ASSUME NEW n PROVE n \in Listing' <=> n \in Listing /\ n \notin M
    <3>1. /\ Listed(fMsgList', n) => Listed(fMsgList, n)
          /\ Listed(fMsgList, n) => Listed(fMsgList', n) \/ n \in M
          /\ Unique(fMsgList, n) /\ n \in M => ~ Listed(fMsgList', n)
      BY <1>2, <2>1, EmptyLists DEF Contents
    <3>2. n \in M => Unique(fMsgList, n)
      BY <2>2 DEF TrailInv, Counted
    <3> HIDE DEF M
    <3> QED
      BY <3>1, <3>2, ListingIsListed
  <2> HIDE DEF M
  <2>4. Listing' = Listing \ M
    BY <2>3
  <2>5. Mail!DropKept(M)
    BY <1>1, <2>1, <2>4 DEF Mail!DropKept, Held, Listing
  <2> QED
    BY <2>2, <2>5 DEF Mail!Next, Listing
<1>4. CASE RunWrites(k)
  <2> DEFINE h == Head(fMsgList[k]).payload
  <2>1. /\ Shortened(fMsgList', fMsgList, k)
        /\ lost' = lost /\ written' = [written EXCEPT ![h] = @ + 1]
    BY <1>4 DEF RunWrites, WriteAll, ListRemoveHead, Shortened
  <2>2. Listed(fMsgList, h)
    BY <1>2, <2>1, TailLists
  <2>3. h \in Messages
    <3>1. PICK l \in Sockets : h \in Contents(l)
      BY <2>2, ListingIsListed DEF Listing
    <3> QED
      BY <3>1, ContentsAreMessages DEF IInv, TypeOK, SocketTypes
  <2>4. ASSUME NEW n PROVE n \in Listing' <=> n \in Listing /\ n # h
    <3>1. /\ Listed(fMsgList', n) => Listed(fMsgList, n)
          /\ Listed(fMsgList, n) => Listed(fMsgList', n) \/ n = h
          /\ Unique(fMsgList, n) /\ n = h => ~ Listed(fMsgList', n)
      BY <1>2, <2>1, TailLists
    <3>2. n = h => Unique(fMsgList, n)
      BY <2>3 DEF TrailInv, Counted
    <3> HIDE DEF h
    <3> QED
      BY <3>1, <3>2, ListingIsListed
  <2>5. h \in Listing
    BY <2>2, ListingIsListed
  <2> HIDE DEF h
  <2>6. Listing' = Listing \ {h}
    BY <2>4
  <2>7. Mail!WriteKept(h)
    BY <1>1, <2>1, <2>5, <2>6 DEF Mail!WriteKept, Mail!Writes, Held, Listing
  <2> QED
    BY <2>3, <2>7 DEF Mail!Next
<1>5. CASE UNCHANGED <<fMsgList, written, lost>>
  BY <1>1, <1>5 DEF MailSame, Listing, Contents
<1> QED
  BY <1>3, <1>4, <1>5 DEF SocketsChange, RunNothing, RunWritesPart, RunFails, Writeable,
     RoomChanges, ConnectionBreaks

LEMMA MailStep == IInv /\ TrailInv /\ [Next]_vars => Mail!Next \/ MailSame
<1> SUFFICES ASSUME IInv, TrailInv, [Next]_vars PROVE Mail!Next \/ MailSame
  OBVIOUS
<1>1. CASE UNCHANGED <<pushed, msg, fMsgList, written, lost, refused>>
  BY <1>1 DEF MailSame, Held, Pushing, Listing, Contents
<1>2. ASSUME NEW s \in Sessions, ~ exited, Send(s) \/ SendAgain(s)
      PROVE Mail!Next \/ MailSame
  <2>1. CASE Return(s)
    <3>1. UNCHANGED pushed
      BY <1>2 DEF Send, SendAgain
    <3> QED
      BY <1>2, <2>1, <3>1, MailRelease DEF Mail!Next
  <2>2. CASE ~ Return(s)
    BY <1>1, <1>2, <2>2 DEF Send, SendAgain, socketVars
  <2> QED
    BY <2>1, <2>2
<1>3. ASSUME NEW s \in Sessions,
             \/ SetInitFlag(s) \/ Lock(s) \/ GenPayloadData(s) \/ GenPushData(s)
             \/ Initialize(s) \/ KillSocket(s) \/ RenewSocket(s)
      PROVE Mail!Next \/ MailSame
  BY <1>1, <1>3 DEF SetInitFlag, Lock, GenPayloadData, GenPushData, Initialize, KillSocket,
     RenewSocket, MakeSocket, ConnectFails, socketVars
<1>4. ASSUME NEW s \in Sessions, NEW m \in Messages, PushNotification(s, m)
      PROVE Mail!Next \/ MailSame
  BY <1>4, MailGive DEF Mail!Next
<1>5. ASSUME NEW k \in Sockets, SocketsChange(k), UNCHANGED sessionVars
      PROVE Mail!Next \/ MailSame
  BY <1>5, MailSocket
<1>6. CASE UNCHANGED vars
  BY <1>1, <1>6 DEF vars, sessionVars, socketVars
<1> QED
  BY <1>2, <1>3, <1>4, <1>5, <1>6 DEF Next, Push, Run, SocketChanges, SocketsChange

\* The C2DM client is a mailbox, whatever its socket does: Send writes a message
\* or lists it, Run writes it from the list, and a kill drops what is listed.
THEOREM ClientIsMailbox == Spec => MailSpec
<1>1. Init => Mail!Init
  <2> SUFFICES ASSUME Init PROVE Mail!Init
    OBVIOUS
  <2>1. Held = {}
    BY DEF Init, Held, Pushing
  <2>2. Listing = {}
    <3>1. \A k \in Sockets : Len(fMsgList[k]) = 0
      BY DEF Init
    <3> QED
      BY <3>1 DEF Listing, Contents
  <2> QED
    BY <2>1, <2>2 DEF Init, Mail!Init, Held, Listing
<1>2. IInv /\ TrailInv /\ [Next]_vars => [Mail!Next]_Mail!vars
  BY MailStep DEF MailSame, Mail!vars, Held, Listing
<1> QED
  BY <1>1, <1>2, TrailAlways, PTL DEF Spec, MailSpec, Mail!Spec

-----------------------------------------------------------------------------
(* What a mailbox promises.                                                *)

\* The places a message may be in exclude each other, and whatever was given is in
\* one of them or written once.
Sorted(m) ==
  /\ m \in Held \cup Listing \cup lost \cup refused \/ written[m] # 0 => m \in pushed
  /\ ~ (m \in Held /\ m \in Listing)
  /\ m \in lost \cup refused => m \notin Held /\ m \notin Listing
  /\ Mail!Once(m)
  /\ Mail!AccountedFor(m)

SortedInv == written \in [Messages -> Nat] /\ \A m \in Messages : Sorted(m)

LEMMA SortedStep == SortedInv /\ [Mail!Next]_Mail!vars => SortedInv'
<1> SUFFICES ASSUME SortedInv, [Mail!Next]_Mail!vars PROVE SortedInv'
  OBVIOUS
<1> DEFINE dropped == lost \cup refused
<1>1. \/ UNCHANGED <<pushed, Held, Listing, written, dropped>>
      \/ \E n \in Messages : Mail!Give(n) \/ Mail!Release(n) \/ Mail!WriteKept(n)
      \/ \E M \in SUBSET Listing : Mail!DropKept(M)
  BY DEF Mail!Next, Mail!vars, Held, Listing
<1>2. written \in [Messages -> Nat] /\ \A m \in Messages : Sorted(m)
  BY DEF SortedInv
<1>3. \A m : Sorted(m) <=>
        /\ m \in Held \/ m \in Listing \/ m \in dropped \/ written[m] # 0 => m \in pushed
        /\ ~ (m \in Held /\ m \in Listing)
        /\ m \in dropped => m \notin Held /\ m \notin Listing
        /\ written[m] <= 1
        /\ written[m] = 1 => m \notin Held /\ m \notin Listing /\ m \notin dropped
        /\ m \in pushed => m \in Held \/ m \in Listing \/ m \in dropped \/ written[m] = 1
  BY DEF Sorted, Mail!Once, Mail!AccountedFor, Held, Listing
<1>4. \A m : Sorted(m)' <=>
        /\ m \in Held' \/ m \in Listing' \/ m \in dropped' \/ written'[m] # 0 => m \in pushed'
        /\ ~ (m \in Held' /\ m \in Listing')
        /\ m \in dropped' => m \notin Held' /\ m \notin Listing'
        /\ written'[m] <= 1
        /\ written'[m] = 1 => m \notin Held' /\ m \notin Listing' /\ m \notin dropped'
        /\ m \in pushed' => m \in Held' \/ m \in Listing' \/ m \in dropped' \/ written'[m] = 1
  BY DEF Sorted, Mail!Once, Mail!AccountedFor, Held, Listing
<1> HIDE DEF dropped
<1>5. CASE UNCHANGED <<pushed, Held, Listing, written, dropped>>
  BY <1>2, <1>3, <1>4, <1>5 DEF SortedInv
<1>6. ASSUME NEW n \in Messages, Mail!Give(n) PROVE SortedInv'
  <2>1. /\ n \notin pushed /\ pushed' = pushed \cup {n} /\ Held' = Held \cup {n}
        /\ UNCHANGED <<Listing, written, dropped>>
    BY <1>6 DEF Mail!Give, Held, Listing, dropped
  <2> QED
    BY <1>2, <1>3, <1>4, <2>1 DEF SortedInv
<1>7. ASSUME NEW n \in Messages, Mail!Release(n) \/ Mail!WriteKept(n) PROVE SortedInv'
  <2>1. /\ pushed' = pushed /\ n \in Held \cup Listing
        /\ \/ /\ written' = [written EXCEPT ![n] = @ + 1]
              /\ Held' = Held \ {n} /\ Listing' = Listing \ {n} /\ dropped' = dropped
           \/ /\ written' = written /\ dropped' = dropped /\ n \in Held
              /\ Held' = Held \ {n} /\ Listing' = Listing \cup {n}
           \/ /\ written' = written /\ Listing' = Listing /\ n \in Held
              /\ Held' = Held \ {n} /\ dropped' = dropped \cup {n}
    <3>1. CASE Mail!Release(n)
      <4>1. n \notin Listing
        BY <1>2, <1>3, <3>1 DEF Mail!Release, Held
      <4> QED
        BY <3>1, <4>1 DEF Mail!Release, Mail!Writes, Held, Listing, dropped
    <3>2. CASE Mail!WriteKept(n)
      <4>1. n \notin Held
        BY <1>2, <1>3, <3>2 DEF Mail!WriteKept, Listing
      <4> QED
        BY <3>2, <4>1 DEF Mail!WriteKept, Mail!Writes, Held, Listing, dropped
    <3> QED
      BY <1>7, <3>1, <3>2
  <2>2. written[n] = 0 /\ n \in pushed
    BY <1>2, <1>3, <2>1
  <2>3. written' \in [Messages -> Nat]
    BY <1>2, <2>1
  <2>4. ASSUME NEW m \in Messages PROVE Sorted(m)'
    <3>1. Sorted(m) /\ Sorted(n)
      BY <1>2
    <3>2. CASE m = n
      BY <1>2, <1>3, <1>4, <2>1, <2>2, <3>1, <3>2
    <3>3. CASE m # n
      BY <1>2, <1>3, <1>4, <2>1, <3>1, <3>3
    <3> QED
      BY <3>2, <3>3
  <2> QED
    BY <2>3, <2>4 DEF SortedInv
<1>8. ASSUME NEW M \in SUBSET Listing, Mail!DropKept(M) PROVE SortedInv'
  <2>1. /\ Listing' = Listing \ M /\ dropped' = dropped \cup M
        /\ UNCHANGED <<pushed, Held, written>>
    BY <1>8 DEF Mail!DropKept, Held, Listing, dropped
  <2> QED
    BY <1>2, <1>3, <1>4, <2>1 DEF SortedInv
<1> QED
  BY <1>1, <1>5, <1>6, <1>7, <1>8

\* What the mailbox promises: a message is written at most once, and is then not
\* kept or dropped as well; and every message that was given is accounted for.
\* By ClientIsMailbox this is so in the client.
THEOREM MailboxKeepsPromise ==
  MailSpec => [](\A m \in Messages : Mail!Once(m) /\ Mail!AccountedFor(m))
<1>1. Mail!Init => SortedInv
  BY DEF Mail!Init, SortedInv, Sorted, Mail!Once, Mail!AccountedFor, Held, Listing
<1>2. SortedInv => \A m \in Messages : Mail!Once(m) /\ Mail!AccountedFor(m)
  BY DEF SortedInv, Sorted
<1> QED
  BY <1>1, <1>2, SortedStep, PTL DEF MailSpec, Mail!Spec
=============================================================================
