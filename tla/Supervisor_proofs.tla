-------------------------- MODULE Supervisor_proofs --------------------------
(***************************************************************************)
(* Theorems about the process pair, for any supply of process ids.         *)
(***************************************************************************)
EXTENDS Supervisor, TLAPS

\* A child, dead or alive, belongs to the last fork, and the parent has not yet
\* learnt of its death.
ChildIsAwaited ==
  \A p \in Pids :
    proc[p] # "free" => p = processID /\ parent \in {"forked", "wait"}

\* While the parent is busy with a child, that child has not been reaped.
ParentHasChild ==
  parent \in {"forked", "wait"} => processID \in Pids /\ proc[processID] # "free"

IInv ==
  /\ TypeOK
  /\ ChildIsAwaited
  /\ ParentHasChild
  /\ parent = "wait" => sChildPID[Parent] = processID

USE SupervisorAssumption DEF Processes

LEMMA ExitCodes == \A code \in {0, -1} : Exited(code) \in [signalled : BOOLEAN, code : 0 .. 255]
<1>1. \A c \in Int : c % 256 \in 0 .. 255
  OBVIOUS
<1>2. 0 \in Int /\ -1 \in Int
  OBVIOUS
<1> QED
  BY <1>1, <1>2, Zenon DEF Exited

LEMMA InvInit == Init => IInv
<1> SUFFICES ASSUME Init PROVE IInv
  OBVIOUS
<1>1. TypeOK
  BY ExitCodes DEF Init, TypeOK
<1>2. ChildIsAwaited /\ ParentHasChild
  BY DEF Init, ChildIsAwaited, ParentHasChild
<1> QED
  BY <1>1, <1>2 DEF IInv, Init

\* What every way to die has in common.
LEMMA DiesStep ==
  ASSUME IInv, NEW p \in Pids, Alive(p),
         NEW s \in [signalled : BOOLEAN, code : 0 .. 255], Dies(p, s)
  PROVE IInv'
  BY DEF IInv, TypeOK, Alive, Dies, ChildIsAwaited, ParentHasChild

LEMMA InvStep == IInv /\ [Next]_vars => IInv'
<1> SUFFICES ASSUME IInv, [Next]_vars PROVE IInv'
  OBVIOUS
<1> USE DEF IInv, TypeOK, ChildIsAwaited, ParentHasChild
<1>1. ASSUME NEW p \in Pids, Fork(p) PROVE IInv'
  BY <1>1 DEF Fork
<1>2. ASSUME NEW p \in Pids, WaitReturns(p) PROVE IInv'
  BY <1>2 DEF WaitReturns, AfterExit
<1>3. CASE RecordChild
  BY <1>3 DEF RecordChild, ForkResult
<1>4. CASE WaitInterrupted
  BY <1>4 DEF WaitInterrupted, AfterInterrupt
<1>5. CASE RestartServer
  BY <1>5 DEF RestartServer
<1>6. ASSUME NEW p \in Pids, Boot(p) \/ StartServer(p) PROVE IInv'
  BY <1>6 DEF Boot, StartServer
<1>7. ASSUME NEW p \in Pids, StartFails(p) PROVE IInv'
  BY <1>7, DiesStep, ExitCodes DEF StartFails, Alive
<1>8. ASSUME NEW p \in Pids, C2dmFails(p) PROVE IInv'
  BY <1>8, DiesStep, ExitCodes DEF C2dmFails, Alive
<1>9. ASSUME NEW p \in Pids, Crash(p) PROVE IInv'
  <2>1. Signalled \in [signalled : BOOLEAN, code : 0 .. 255]
    BY DEF Signalled
  <2> QED
    BY <1>9, <2>1, DiesStep DEF Crash
<1>10. ASSUME NEW p \in Processes, SendSignal(p) PROVE IInv'
  BY <1>10 DEF SendSignal
<1>11. ASSUME NEW p \in Processes, SigCatcher(p) PROVE IInv'
  <2>1. SendToChild(p) \subseteq Processes
    BY DEF SendToChild, Living
  <2>2. signals' \in SUBSET Processes
    BY <1>11, <2>1 DEF SigCatcher
  <2>3. woken' \in BOOLEAN
    BY <1>11 DEF SigCatcher
  <2> QED
    BY <1>11, <2>2, <2>3 DEF SigCatcher
<1>12. CASE ForkFails
  BY <1>12 DEF ForkFails
<1>13. CASE UNCHANGED vars
  BY <1>13 DEF vars
<1> QED
  BY <1>1, <1>2, <1>3, <1>4, <1>5, <1>6, <1>7, <1>8, <1>9, <1>10, <1>11, <1>12,
     <1>13
  DEF Next, ParentStep, ChildStarts

LEMMA Invariance == Spec => []IInv
  BY InvInit, InvStep, PTL DEF Spec

\* The processes stay within their types.
THEOREM TypeCorrect == Spec => []TypeOK
  BY Invariance, PTL DEF IInv

\* Whatever signals and deaths happen, no two servers are alive at once and no
\* server outlives its parent's interest in it.
THEOREM AtMostOneServer == Spec => []OneServer
<1>1. IInv => OneServer
  BY DEF IInv, ChildIsAwaited, OneServer, Alive
<1> QED
  BY <1>1, Invariance, PTL

\* The waiting parent forwards signals to the child it waits for.
THEOREM SignalsReachChild == Spec => []ForwardsToPresentChild
<1>1. IInv => ForwardsToPresentChild
  BY DEF IInv, ParentHasChild, ForwardsToPresentChild
<1> QED
  BY <1>1, Invariance, PTL
=============================================================================
