----------------------------- MODULE PushChannel -----------------------------
(***************************************************************************)
(* What the APNs client pool promises to the sessions that push: a first-in *)
(* first-out channel without duplication. A message leaves the channel     *)
(* from the head, once, and only while the link is connected.              *)
(***************************************************************************)
EXTENDS Sequences

CONSTANT Message

VARIABLES
  queue,   \* the messages accepted and not yet taken
  link     \* is the channel connected?

Init == queue = <<>> /\ link = FALSE

Accept ==
  /\ \E m \in Message : queue' = Append(queue, m)
  /\ UNCHANGED link

Take ==
  /\ link
  /\ queue # <<>>
  /\ queue' = Tail(queue)
  /\ UNCHANGED link

LinkChanges ==
  /\ link' = ~ link
  /\ UNCHANGED queue

Next == Accept \/ Take \/ LinkChanges

Spec == Init /\ [][Next]_<<queue, link>>
=============================================================================
