------------------------------ MODULE QueryQueue ------------------------------
(***************************************************************************)
(* What the LCS promises to the sessions: a first-in first-out queue that  *)
(* executes each query at most once. Once the queue is broken the order is *)
(* lost, and queries may wait for ever, but none is executed twice.        *)
(***************************************************************************)
EXTENDS SequencesExt

CONSTANT Query

VARIABLES
  waiting,  \* the queries accepted and not yet executed, oldest first
  known,    \* the queries ever accepted
  broken    \* has the queue lost its order?

Init == waiting = <<>> /\ known = {} /\ broken = FALSE

Accept ==
  /\ \E q \in Query \ known : /\ waiting' = Append(waiting, q)
                             /\ known' = known \cup {q}
  /\ UNCHANGED broken

Execute ==
  /\ waiting # <<>>
  /\ waiting' = Tail(waiting)
  /\ UNCHANGED <<known, broken>>

Break ==
  /\ broken' = TRUE
  /\ UNCHANGED <<waiting, known>>

ExecuteAny ==
  /\ broken
  /\ \E i \in DOMAIN waiting : waiting' = RemoveAt(waiting, i)
  /\ UNCHANGED <<known, broken>>

Next == Accept \/ Execute \/ Break \/ ExecuteAny

Spec == Init /\ [][Next]_<<waiting, known, broken>>
=============================================================================
