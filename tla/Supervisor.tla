----------------------------- MODULE Supervisor -----------------------------
(***************************************************************************)
(* The process pair of the server (ApsMain.cpp): the parent forks a child  *)
(* that is the server, waits for it, and forks another one when it has     *)
(* died; signals caught by the parent are forwarded to the child.          *)
(*                                                                         *)
(* The kernel's part (fork, wait, kill and delivery of signals) is         *)
(* external. Nobody sets the flags SigIntSet and SigTermSet that RunServer *)
(* polls, so a server ends only by exit() or by an uncaught signal.        *)
(***************************************************************************)
EXTENDS Integers

CONSTANTS
  Pids,     \* process ids the kernel gives to children, reused when reaped
  Parent,   \* the parent process
  None      \* sChildPID = 0

ASSUME SupervisorAssumption ==
  /\ Parent \notin Pids
  /\ None \notin Pids \cup {Parent}

VARIABLES
  parent,     \* where the parent is in its loop
  processID,  \* what fork returned to the parent last
  sChildPID,  \* the variable of this name, one copy in each process
  proc,       \* state of each process id
  status,     \* the wait status a child has left
  signals,    \* processes with a caught signal pending
  woken       \* the parent's wait is interrupted

vars == <<parent, processID, sChildPID, proc, status, signals, woken>>

Processes == Pids \cup {Parent}

\* Wait statuses: an uncaught signal, or the lowest eight bits of the exit code.
Signalled == [signalled |-> TRUE, code |-> 0]

Exited(code) == [signalled |-> FALSE, code |-> code % 256]

TypeOK ==
  /\ parent \in {"fork", "forked", "wait", "sleep", "quit"}
  /\ processID \in Pids \cup {None}
  /\ sChildPID \in [Processes -> Pids \cup {None}]
  /\ proc \in [Pids -> {"free", "boot", "start", "run", "zombie"}]
  /\ status \in [Pids -> [signalled : BOOLEAN, code : 0 .. 255]]
  /\ signals \in SUBSET Processes
  /\ woken \in BOOLEAN

Init ==
  /\ parent = "fork"
  /\ processID = None
  /\ sChildPID = [p \in Processes |-> None]
  /\ proc = [p \in Pids |-> "free"]
  /\ status = [p \in Pids |-> Exited(0)]
  /\ signals = {}
  /\ woken = FALSE

Alive(p) == proc[p] \in {"boot", "start", "run"}

-----------------------------------------------------------------------------
(* The parent.                                                             *)

\* The child begins with a copy of the parent's variables, sChildPID included.
Fork(p) ==
  /\ parent = "fork"
  /\ proc[p] = "free"
  /\ proc' = [proc EXCEPT ![p] = "boot"]
  /\ processID' = p
  /\ sChildPID' = [sChildPID EXCEPT ![p] = sChildPID[Parent]]
  /\ parent' = "forked"
  /\ UNCHANGED <<status, signals, woken>>

\* fork returns -1: the parent ends. None stands for the -1, nobody's id either.
ForkFails ==
  /\ parent = "fork"
  /\ processID' = None
  /\ parent' = "quit"
  /\ UNCHANGED <<sChildPID, proc, status, signals, woken>>

\* Mutant of ForkResult: the result of the fork is not stored.
ForgottenResult == sChildPID[Parent]

ForkResult == processID

RecordChild ==
  /\ parent = "forked"
  /\ sChildPID' = [sChildPID EXCEPT ![Parent] = ForkResult]
  /\ parent' = "wait"
  /\ UNCHANGED <<processID, proc, status, signals, woken>>

\* Mutant of AfterExit: a signalled child is not treated as dead.
IgnoreSignalled(s) == IF s.signalled THEN "wait"
                      ELSE IF s.code = 0 THEN "quit" ELSE "sleep"

\* What the parent does about the status of a child: an exit code 0 ends the
\* parent as well. WEXITSTATUS is never -1, so any other code and every
\* uncaught signal lead to a restart.
AfterExit(s) ==
  IF ~ s.signalled /\ (s.code = 0 \/ s.code = -1) THEN "quit" ELSE "sleep"

WaitReturns(p) ==
  /\ parent = "wait"
  /\ proc[p] = "zombie"
  /\ proc' = [proc EXCEPT ![p] = "free"]
  /\ parent' = AfterExit(status[p])
  /\ woken' = FALSE
  /\ UNCHANGED <<processID, sChildPID, status, signals>>

\* Mutant of AfterInterrupt: an interrupted wait is taken for a dead child.
TakenForDead == "sleep"

AfterInterrupt == "wait"

\* wait() blocks, and can be interrupted, only while no child is dead.
WaitInterrupted ==
  /\ parent = "wait"
  /\ woken
  /\ \A p \in Pids : proc[p] # "zombie"
  /\ woken' = FALSE
  /\ parent' = AfterInterrupt
  /\ UNCHANGED <<processID, sChildPID, proc, status, signals>>

\* After a second the parent reads auto_restart from the file once more.
RestartServer ==
  /\ parent = "sleep"
  /\ parent' \in {"fork", "quit"}
  /\ UNCHANGED <<processID, sChildPID, proc, status, signals, woken>>

-----------------------------------------------------------------------------
(* The child.                                                              *)

Boot(p) ==
  /\ proc[p] = "boot"
  /\ sChildPID' = [sChildPID EXCEPT ![p] = None]
  /\ proc' = [proc EXCEPT ![p] = "start"]
  /\ UNCHANGED <<parent, processID, status, signals, woken>>

\* StartServer: configuration, both redis clients, listeners, tasks, LCS.
StartServer(p) ==
  /\ proc[p] = "start"
  /\ proc' = [proc EXCEPT ![p] = "run"]
  /\ UNCHANGED <<parent, processID, sChildPID, status, signals, woken>>

Dies(p, s) ==
  /\ proc' = [proc EXCEPT ![p] = "zombie"]
  /\ status' = [status EXCEPT ![p] = s]
  /\ signals' = signals \ {p}
  /\ UNCHANGED <<parent, processID, sChildPID, woken>>

\* 0: the configuration is a directory or read-only, or no listener could be
\* created. -1: the configuration is missing or wrong, or redis is unreachable.
StartFails(p) ==
  /\ proc[p] = "start"
  /\ \E code \in {0, -1} : Dies(p, Exited(code))

\* A running server exits when its C2DM socket cannot be connected.
C2dmFails(p) ==
  /\ proc[p] = "run"
  /\ Dies(p, Exited(-1))

Crash(p) ==
  /\ Alive(p)
  /\ Dies(p, Signalled)

-----------------------------------------------------------------------------
(* Signals.                                                                *)

Living == {p \in Pids : Alive(p)} \cup (IF parent = "quit" THEN {} ELSE {Parent})

\* A user sends SIGHUP, SIGINT, SIGTERM or SIGQUIT to one of the processes.
SendSignal(p) ==
  /\ p \in Living
  /\ signals' = signals \cup {p}
  /\ UNCHANGED <<parent, processID, sChildPID, proc, status, woken>>

\* sendtochild: kill() has no effect on a process that is gone.
SendToChild(p) ==
  IF sChildPID[p] \notin {None, p} THEN {sChildPID[p]} \cap Living ELSE {}

\* sigcatcher. Whatever the signal: it is forwarded, or nothing is done. A
\* process that is gone handles nothing.
SigCatcher(p) ==
  /\ p \in signals \cap Living
  /\ signals' = (signals \ {p}) \cup SendToChild(p)
  /\ woken' = (woken \/ (p = Parent /\ parent = "wait"))
  /\ UNCHANGED <<parent, processID, sChildPID, proc, status>>

-----------------------------------------------------------------------------
ParentStep ==
  \/ \E p \in Pids : Fork(p) \/ WaitReturns(p)
  \/ ForkFails
  \/ RecordChild
  \/ WaitInterrupted
  \/ RestartServer

ChildStarts(p) == Boot(p) \/ StartServer(p) \/ StartFails(p)

Next ==
  \/ ParentStep
  \/ \E p \in Pids : ChildStarts(p) \/ C2dmFails(p) \/ Crash(p)
  \/ \E p \in Processes : SendSignal(p) \/ SigCatcher(p)

Spec == Init /\ [][Next]_vars

\* Every process is scheduled and signals are delivered.
Fairness ==
  /\ WF_vars(ParentStep)
  /\ \A p \in Pids : WF_vars(ChildStarts(p))
  /\ \A p \in Processes : WF_vars(SigCatcher(p))

FairSpec == Spec /\ Fairness

-----------------------------------------------------------------------------
(* Properties.                                                             *)

\* Two servers never run at once, so that a new one finds the ports free, and
\* the parent neither quits nor forks while a server is alive: every living
\* child is the one the last fork returned, and the parent is about to wait for
\* it (the loop of main; signals that interrupt wait included).
OneServer ==
  \A p \in Pids : Alive(p) => p = processID /\ parent \in {"forked", "wait"}

\* A signal that the waiting parent forwards goes to its present child, never
\* to the process id of a former one (sChildPID in main and sendtochild).
ForwardsToPresentChild ==
  parent = "wait" =>
    /\ sChildPID[Parent] = processID
    /\ proc[processID] # "free"

\* As long as the parent has not quit there is a living server again and again:
\* a crash, a failed start or signals at any moment never leave the parent
\* waiting for nobody.
ServerComesBack == []<>(parent = "quit" \/ \E p \in Pids : Alive(p))
=============================================================================
