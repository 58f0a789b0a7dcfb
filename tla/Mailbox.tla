------------------------------- MODULE Mailbox -------------------------------
(***************************************************************************)
(* What the C2DM client promises to the sessions that push: a message that *)
(* was given to it is written once, kept for later, or dropped, and is     *)
(* never in two of these places. In which order is not promised.           *)
(***************************************************************************)
EXTENDS Naturals

CONSTANT Messages

VARIABLES
  given,    \* the messages that were given to the mailbox
  held,     \* those that their sessions are still sending
  kept,     \* those that wait to be written
  written,  \* how often each message has been written
  dropped   \* those that will never be written

vars == <<given, held, kept, written, dropped>>

Init ==
  /\ given = {}
  /\ held = {}
  /\ kept = {}
  /\ written = [m \in Messages |-> 0]
  /\ dropped = {}

Give(m) ==
  /\ m \notin given
  /\ given' = given \cup {m}
  /\ held' = held \cup {m}
  /\ UNCHANGED <<kept, written, dropped>>

Writes(m) == written' = [written EXCEPT ![m] = @ + 1]

\* The session lets go of m: it is written, kept or dropped.
Release(m) ==
  /\ m \in held
  /\ held' = held \ {m}
  /\ \/ Writes(m) /\ UNCHANGED <<kept, dropped>>
     \/ kept' = kept \cup {m} /\ UNCHANGED <<written, dropped>>
     \/ dropped' = dropped \cup {m} /\ UNCHANGED <<written, kept>>
  /\ UNCHANGED given

WriteKept(m) ==
  /\ m \in kept
  /\ kept' = kept \ {m}
  /\ Writes(m)
  /\ UNCHANGED <<given, held, dropped>>

DropKept(M) ==
  /\ kept' = kept \ M
  /\ dropped' = dropped \cup M
  /\ UNCHANGED <<given, held, written>>

Next ==
  \/ \E m \in Messages : Give(m) \/ Release(m) \/ WriteKept(m)
  \/ \E M \in SUBSET kept : DropKept(M)

Spec == Init /\ [][Next]_vars

-----------------------------------------------------------------------------
(* What follows from the promise.                                          *)

Once(m) == written[m] <= 1 /\ (written[m] = 1 => m \notin held \cup kept \cup dropped)

AccountedFor(m) == m \in given => m \in held \cup kept \cup dropped \/ written[m] = 1
=============================================================================
