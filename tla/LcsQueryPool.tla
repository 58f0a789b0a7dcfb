---------------------------- MODULE LcsQueryPool ----------------------------
(***************************************************************************)
(* The LCS, the task that executes the database queries of all sessions.   *)
(* Sessions append their queries to m_QueryPool, a std::list that no lock  *)
(* protects, and signal the task; the task takes the front of the list,    *)
(* executes it, removes it and goes on until the list is empty.            *)
(*                                                                         *)
(* Because unsynchronised list operations overlap, the list is modelled by *)
(* its pointers: a circular doubly linked list with End as the sentinel,   *)
(* every pointer write a step (the list itself is external, and freed      *)
(* memory keeps its contents).                                             *)
(***************************************************************************)
EXTENDS SequencesExt

CONSTANTS
  Queries,   \* the queries, each requested once by a thread of its own
  End,       \* the sentinel of the list
  MayStop    \* may StopLcs be called? No code of the repository calls it

ASSUME LcsAssumption ==
  /\ End \notin Queries
  /\ MayStop \in BOOLEAN

Nodes == Queries \cup {End}

VARIABLES
  next,      \* _M_next of every node
  prev,      \* _M_prev of every node
  pc,        \* how far each request is
  run,       \* what the task is doing: its step, query and saved pointers
  events,    \* events pending for the task
  started,   \* m_bStarted
  executed,  \* how often each query was executed
  deleted,   \* queries whose object has been deleted
  order,     \* auxiliary: queries linked and not executed, oldest first
  raced      \* auxiliary: two list operations have overlapped

vars == <<next, prev, pc, run, events, started, executed, deleted, order, raced>>

RunSteps == {"idle", "loop", "execute", "remove", "unhook1", "unhook2",
             "delete", "gone"}

Idle == [step |-> "idle", q |-> End, p |-> End, n |-> End]

TypeOK ==
  /\ next \in [Nodes -> Nodes]
  /\ prev \in [Nodes -> Nodes]
  /\ pc \in [Queries -> {"new", "read", "linked", "hooked", "requested"}]
  /\ run \in [step : RunSteps, q : Nodes, p : Nodes, n : Nodes]
  /\ events \in SUBSET {"start", "update", "kill"}
  /\ started \in BOOLEAN
  /\ executed \in [Queries -> 0 .. 2]
  /\ deleted \in SUBSET Queries
  /\ order \in Seq(Queries)
  /\ raced \in BOOLEAN

Init ==
  /\ next = [x \in Nodes |-> End]
  /\ prev = [x \in Nodes |-> End]
  /\ pc = [q \in Queries |-> "new"]
  /\ run = Idle
  /\ events = {}
  /\ started = FALSE
  /\ executed = [q \in Queries |-> 0]
  /\ deleted = {}
  /\ order = <<>>
  /\ raced = FALSE

-----------------------------------------------------------------------------
(* Overlapping list operations.                                            *)

Hooking == {q \in Queries : pc[q] \in {"read", "linked"}}

Unhooking == run.step \in {"unhook1", "unhook2"}

\* More than one thread is between the reads and the last write of its change.
Overlap ==
  \/ \E q, r \in Hooking : q # r
  \/ Hooking # {} /\ Unhooking

NoteOverlap == raced' = (raced \/ Overlap')

-----------------------------------------------------------------------------
(* RequestQuery: push_back, then Signal.                                   *)

Move(q, to) == pc' = [pc EXCEPT ![q] = to]

\* Mutant of LastNode: an empty list is recognised by its first node.
LastNodeFromFront == IF next[End] = End THEN End ELSE prev[End]

LastNode == prev[End]

\* The new node reads the tail of the list and points to both neighbours.
PushRead(q) ==
  /\ pc[q] = "new"
  /\ next' = [next EXCEPT ![q] = End]
  /\ prev' = [prev EXCEPT ![q] = LastNode]
  /\ Move(q, "read")
  /\ UNCHANGED <<run, events, started, executed, deleted, order>>
  /\ NoteOverlap

\* The old tail gets the new node as its successor.
PushLink(q) ==
  /\ pc[q] = "read"
  /\ next' = [next EXCEPT ![prev[q]] = q]
  /\ order' = Append(order, q)
  /\ Move(q, "linked")
  /\ UNCHANGED <<prev, run, events, started, executed, deleted>>
  /\ NoteOverlap

\* Mutant of NewTail: the tail pointer is not moved.
KeepTail(q) == prev

NewTail(q) == [prev EXCEPT ![End] = q]

\* The sentinel gets the new node as its predecessor.
PushTail(q) ==
  /\ pc[q] = "linked"
  /\ prev' = NewTail(q)
  /\ Move(q, "hooked")
  /\ UNCHANGED <<next, run, events, started, executed, deleted, order>>
  /\ NoteOverlap

SignalUpdate(q) ==
  /\ pc[q] = "hooked"
  /\ events' = events \cup {"update"}
  /\ Move(q, "requested")
  /\ UNCHANGED <<next, prev, run, started, executed, deleted, order, raced>>

RequestQuery(q) == PushRead(q) \/ PushLink(q) \/ PushTail(q) \/ SignalUpdate(q)

-----------------------------------------------------------------------------
(* The life cycle of the task.                                             *)

StartLcs ==
  /\ ~ started
  /\ "start" \notin events
  /\ "kill" \notin events
  /\ run.step # "gone"
  /\ started' = TRUE
  /\ events' = events \cup {"start"}
  /\ UNCHANGED <<next, prev, pc, run, executed, deleted, order, raced>>

StopLcs ==
  /\ MayStop
  /\ started
  /\ started' = FALSE
  /\ events' = events \cup {"kill"}
  /\ UNCHANGED <<next, prev, pc, run, executed, deleted, order, raced>>

Step(s) == run' = [run EXCEPT !.step = s]

\* Run fetches and clears its events: kill ends the task, and an update that
\* arrives before StartLcs is used up without a look at the list.
RunBegin ==
  /\ run.step = "idle"
  /\ events # {}
  /\ events' = {}
  /\ Step(IF "kill" \in events THEN "gone"
          ELSE IF started /\ "update" \in events THEN "loop" ELSE "idle")
  /\ UNCHANGED <<next, prev, pc, started, executed, deleted, order, raced>>

\* Mutant of FirstNode: the task serves the newest query first.
Newest == prev[End]

FirstNode == next[End]

\* empty() compares the first node with the sentinel.
RunTake ==
  /\ run.step = "loop"
  /\ run' = IF next[End] = End THEN Idle
            ELSE [step |-> "execute", q |-> FirstNode, p |-> End, n |-> End]
  /\ UNCHANGED <<next, prev, pc, events, started, executed, deleted, order, raced>>

Position(q) == CHOOSE i \in DOMAIN order : order[i] = q

\* ProcessExcute or ProcessQuery: one call to the database, which may take
\* long while sessions go on pushing.
RunExecute ==
  /\ run.step = "execute"
  /\ executed' = [executed EXCEPT ![run.q] = @ + 1]
  /\ order' = RemoveAt(order, Position(run.q))
  /\ Step("remove")
  /\ UNCHANGED <<next, prev, pc, events, started, deleted, raced>>

\* S holds whatever a traversal from the first node to the sentinel meets.
Closed(S) ==
  /\ next[End] \in S \cup {End}
  /\ \A x \in S : next[x] \in S \cup {End}

\* Exactly the nodes such a traversal meets.
Chain == {q \in Queries : \A S \in SUBSET Queries : Closed(S) => q \in S}

\* Mutant of Found: the traversal begins behind the first node.
FoundBehindFirst == run.q \in Chain \ {next[End]}

Found == run.q \in Chain

\* m_QueryPool.remove(pQuery): find the node and read its neighbours.
RunRemove ==
  /\ run.step = "remove"
  /\ run' = IF Found
            THEN [run EXCEPT !.step = "unhook1", !.p = prev[run.q], !.n = next[run.q]]
            ELSE [run EXCEPT !.step = "delete"]
  /\ UNCHANGED <<next, prev, pc, events, started, executed, deleted, order>>
  /\ NoteOverlap

RunUnhookNext ==
  /\ run.step = "unhook1"
  /\ next' = [next EXCEPT ![run.p] = run.n]
  /\ Step("unhook2")
  /\ UNCHANGED <<prev, pc, events, started, executed, deleted, order>>
  /\ NoteOverlap

RunUnhookPrev ==
  /\ run.step = "unhook2"
  /\ prev' = [prev EXCEPT ![run.n] = run.p]
  /\ Step("delete")
  /\ UNCHANGED <<next, pc, events, started, executed, deleted, order>>
  /\ NoteOverlap

\* Mutant of AfterDelete: one query for every event.
StopAfterDelete == "idle"

AfterDelete == "loop"

RunDelete ==
  /\ run.step = "delete"
  /\ deleted' = deleted \cup {run.q}
  /\ run' = [Idle EXCEPT !.step = AfterDelete]
  /\ UNCHANGED <<next, prev, pc, events, started, executed, order, raced>>

Run ==
  \/ RunBegin
  \/ RunTake
  \/ RunExecute
  \/ RunRemove
  \/ RunUnhookNext
  \/ RunUnhookPrev
  \/ RunDelete

Next ==
  \/ \E q \in Queries : RequestQuery(q)
  \/ StartLcs
  \/ StopLcs
  \/ Run

Spec == Init /\ [][Next]_vars

\* The task is scheduled while it has events or work, a request in progress
\* goes on, and the server starts the LCS.
Fairness ==
  /\ WF_vars(Run)
  /\ WF_vars(StartLcs)
  /\ \A q \in Queries : WF_vars(PushLink(q) \/ PushTail(q) \/ SignalUpdate(q))

FairSpec == Spec /\ Fairness

-----------------------------------------------------------------------------
(* Properties.                                                             *)

\* However list operations overlap, no query is executed twice: a query that
\* could not be removed is out of the traversal all the same (Run, remove).
ExecutedAtMostOnce == \A q \in Queries : executed[q] <= 1

\* Run never takes a query from the list that it has deleted (pQuery).
NeverTakesDeleted ==
  run.step \in {"execute", "remove", "unhook1", "unhook2"} => run.q \notin deleted

\* As long as no two list operations have overlapped, a query that was pushed
\* and not yet executed can be reached from the front of the list.
NothingLostWithoutRace ==
  ~ raced =>
    \A q \in Queries :
      pc[q] \in {"hooked", "requested"} /\ executed[q] = 0 => q \in Chain

\* The list looks empty to Run, its tail pointer leads to a query all the
\* same, and no change is going on that writes the sentinel's successor.
Severed ==
  /\ next[End] = End
  /\ prev[End] # End
  /\ ~ Unhooking
  /\ \A q \in Queries : pc[q] = "read" => prev[q] # End

\* One unlucky overlap of push_back and remove disables the LCS for good: a
\* severed list stays severed, so that no query of any later session is ever
\* executed (RequestQuery, Run).
SeveredStays == [][Severed => Severed']_vars

\* The queries that have been linked.
Known == {q \in Queries : pc[q] \notin {"new", "read"}}

Queue == INSTANCE QueryQueue
           WITH Query <- Queries, waiting <- order, known <- Known, broken <- raced

\* The LCS is a queue: queries are executed in the order in which they were
\* linked, each once, as long as no two list operations have overlapped; after
\* that in any order, but still each at most once and only what was linked
\* (RequestQuery, Run).
QueueSpec == Queue!Spec

\* A request that signals after StartLcs gets itself and every earlier request
\* executed, those included whose signal came too early (RequestQuery, Run),
\* unless list operations overlapped or the LCS is stopped.
RequestsAreExecuted ==
  \A q, r \in Queries :
    (pc[q] \in {"hooked", "requested"} /\ pc[r] = "hooked" /\ started)
      ~> (executed[q] > 0 \/ raced \/ ~ started)
=============================================================================
