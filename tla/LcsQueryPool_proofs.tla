------------------------- MODULE LcsQueryPool_proofs -------------------------
(***************************************************************************)
(* Theorems about the LCS, for any set of queries: whatever list           *)
(* operations overlap, no query is executed twice and no deleted query is  *)
(* taken from the list; a severed list stays severed. As long as none      *)
(* overlap, nothing is lost and queries are executed in order: the LCS     *)
(* implements a first-in first-out queue that may break.                   *)
(***************************************************************************)
EXTENDS LcsQueryPool, SequenceTheorems, TLAPS

Current == {"execute", "remove", "unhook1", "unhook2", "delete"}

\* The node the task has just taken out of the list.
Leaving == run.step \in {"unhook2", "delete"}

\* A query that is not linked yet is unknown to the list and to the task.
NewIsUnknown ==
  \A q \in Queries : pc[q] \in {"new", "read"} =>
    /\ \A x \in Nodes : next[x] # q
    /\ q \notin deleted
    /\ run.q # q
    /\ run.n # q

\* Only the predecessor a query has recorded, or a node that has left the
\* list, points to the query. Until the second write of remove is done the
\* sentinel is the exception.
OnePredecessor ==
  \A x \in Nodes, y \in Queries : next[x] = y =>
    \/ prev[y] = x
    \/ x \in deleted
    \/ Leaving /\ x = run.q
    \/ run.step = "unhook2" /\ x = End /\ y = run.n

\* A query the task has taken was the first of the list.
TakenWasFirst ==
  \A y \in Queries :
    y \in deleted \/ (run.step \in Current /\ y = run.q) => prev[y] = End

\* The pointers remove has saved.
Saved ==
  run.step \in {"unhook1", "unhook2"} =>
    /\ run.p = End
    /\ run.n # run.q
    /\ run.n # End => prev[run.n] = run.q
    /\ run.n \notin deleted

\* What has been taken is not the first of the list any more.
FirstIsFresh ==
  /\ next[End] \notin deleted
  /\ Leaving => next[End] # run.q

\* Executed queries are deleted, or the task is about to delete them.
ExecutedIsTaken ==
  /\ run.step \in Current => run.q \in Queries /\ run.q \notin deleted
  /\ \A q \in Queries : executed[q] =
       IF q \in deleted \/ (run.q = q /\ run.step \in Current \ {"execute"})
       THEN 1 ELSE 0

\* The auxiliary order holds each query that is linked and not executed once.
OrderInv ==
  /\ \A i, j \in 1 .. Len(order) : order[i] = order[j] => i = j
  /\ \A q \in Queries :
       (\E i \in 1 .. Len(order) : order[i] = q)
         <=> pc[q] \notin {"new", "read"} /\ executed[q] = 0

IInv ==
  /\ TypeOK
  /\ NewIsUnknown
  /\ OnePredecessor
  /\ TakenWasFirst
  /\ Saved
  /\ FirstIsFresh
  /\ ExecutedIsTaken
  /\ OrderInv

USE DEF Nodes

-----------------------------------------------------------------------------
(* Sequences that grow at the end and lose an element.                     *)

LEMMA AppendElements ==
  ASSUME NEW S, NEW s \in Seq(S), NEW e \in S
  PROVE /\ Append(s, e) \in Seq(S)
        /\ Len(s) \in Nat
        /\ Len(Append(s, e)) = Len(s) + 1
        /\ \A i \in 1 .. Len(s) : Append(s, e)[i] = s[i]
        /\ Append(s, e)[Len(s) + 1] = e
  OBVIOUS

\* Where the element at i of a sequence without its element at k is in it.
Behind(k, i) == IF i < k THEN i ELSE i + 1

LEMMA RemoveAtElements ==
  ASSUME NEW S, NEW s \in Seq(S), NEW k \in 1 .. Len(s)
  PROVE /\ RemoveAt(s, k) \in Seq(S)
        /\ Len(s) \in Nat
        /\ Len(RemoveAt(s, k)) = Len(s) - 1
        /\ \A i \in 1 .. Len(s) - 1 : RemoveAt(s, k)[i] = s[Behind(k, i)]
<1> DEFINE n == Len(s)
           l == SubSeq(s, 1, k - 1)
           r == SubSeq(s, k + 1, n)
<1>1. n \in Nat /\ k \in 1 .. n /\ \A i \in 1 .. n : s[i] \in S
  OBVIOUS
<1>2. l \in Seq(S) /\ Len(l) = k - 1 /\ \A i \in 1 .. k - 1 : l[i] = s[i]
  <2>1. /\ SubSeq(s, 1, k - 1) \in Seq(S)
        /\ Len(SubSeq(s, 1, k - 1)) = IF 1 <= k - 1 THEN k - 1 - 1 + 1 ELSE 0
        /\ \A i \in 1 .. k - 1 - 1 + 1 : SubSeq(s, 1, k - 1)[i] = s[1 + i - 1]
    <3>1. 1 \in Int /\ k - 1 \in Int /\ \A i \in 1 .. k - 1 : s[i] \in S
      BY <1>1
    <3> HIDE DEF n, l, r
    <3> QED
      BY ONLY <3>1, SubSeqProperties
  <2> QED
    BY <1>1, <2>1
<1>3. r \in Seq(S) /\ Len(r) = n - k /\ \A i \in 1 .. n - k : r[i] = s[k + i]
  <2>1. /\ SubSeq(s, k + 1, n) \in Seq(S)
        /\ Len(SubSeq(s, k + 1, n)) = IF k + 1 <= n THEN n - (k + 1) + 1 ELSE 0
        /\ \A i \in 1 .. n - (k + 1) + 1 : SubSeq(s, k + 1, n)[i] = s[k + 1 + i - 1]
    <3>1. k + 1 \in Int /\ n \in Int /\ \A i \in k + 1 .. n : s[i] \in S
      BY <1>1
    <3> HIDE DEF n, l, r
    <3> QED
      BY ONLY <3>1, SubSeqProperties
  <2> QED
    BY <1>1, <2>1
<1>4. RemoveAt(s, k) = l \o r
  BY DEF RemoveAt
<1> HIDE DEF l, r, n
<1>5. /\ l \o r \in Seq(S) /\ Len(l \o r) = Len(l) + Len(r)
      /\ \A i \in 1 .. Len(l) + Len(r) :
           (l \o r)[i] = IF i <= Len(l) THEN l[i] ELSE r[i - Len(l)]
  BY <1>2, <1>3, ConcatProperties
<1>6. Len(l) + Len(r) = n - 1
  BY <1>1, <1>2, <1>3
<1>7. ASSUME NEW i \in 1 .. n - 1 PROVE (l \o r)[i] = s[Behind(k, i)]
  <2>1. CASE i < k
    BY <1>1, <1>2, <1>5, <1>6, <2>1 DEF Behind
  <2>2. CASE ~ (i < k)
    <3>1. (l \o r)[i] = r[i - (k - 1)] /\ i - (k - 1) \in 1 .. n - k
      BY <1>1, <1>2, <1>5, <1>6, <2>2
    <3>2. r[i - (k - 1)] = s[k + (i - (k - 1))] /\ k + (i - (k - 1)) = i + 1
      BY <1>1, <1>3, <3>1
    <3> QED
      BY <2>2, <3>1, <3>2 DEF Behind
  <2> QED
    BY <2>1, <2>2
<1> QED
  BY <1>1, <1>4, <1>5, <1>6, <1>7 DEF n

LEMMA RemoveFirstIsTail ==
  ASSUME NEW S, NEW s \in Seq(S), s # <<>>
  PROVE RemoveAt(s, 1) = Tail(s)
<1>1. SubSeq(s, 2, Len(s)) = Tail(s) /\ Tail(s) \in Seq(S)
  BY TailIsSubSeq, HeadTailProperties
<1>2. SubSeq(s, 1, 1 - 1) = <<>>
  BY SubSeqEmpty
<1>3. <<>> \o Tail(s) = Tail(s)
  BY <1>1, ConcatEmptySeq
<1> QED
  BY <1>1, <1>2, <1>3 DEF RemoveAt

-----------------------------------------------------------------------------
(* The pointers, whatever overlaps.                                        *)

LEMMA InvInit == Init => IInv
<1> SUFFICES ASSUME Init PROVE IInv
  OBVIOUS
<1>1. TypeOK
  <2>1. run \in [step : RunSteps, q : Nodes, p : Nodes, n : Nodes]
    BY DEF Init, Idle, RunSteps
  <2>2. next \in [Nodes -> Nodes] /\ prev \in [Nodes -> Nodes]
    BY DEF Init
  <2>3. executed \in [Queries -> 0 .. 2]
    BY DEF Init
  <2>6. started \in BOOLEAN /\ raced \in BOOLEAN
    BY Zenon DEF Init
  <2>4. events \in SUBSET {"start", "update", "kill"} /\ deleted \in SUBSET Queries
    BY DEF Init
  <2>5. pc \in [Queries -> {"new", "read", "linked", "hooked", "requested"}]
    BY DEF Init
  <2>7. order \in Seq(Queries)
    BY DEF Init
  <2> QED
    BY <2>1, <2>2, <2>3, <2>4, <2>5, <2>6, <2>7 DEF TypeOK
<1>2. NewIsUnknown /\ OnePredecessor /\ TakenWasFirst
  BY LcsAssumption
  DEF Init, NewIsUnknown, OnePredecessor, TakenWasFirst, Idle, Current
<1>3. Saved /\ FirstIsFresh /\ ExecutedIsTaken
  BY DEF Init, Saved, FirstIsFresh, ExecutedIsTaken, Idle, Current, Leaving
<1>4. OrderInv
  BY DEF Init, OrderInv
<1> QED
  BY <1>1, <1>2, <1>3, <1>4 DEF IInv

\* Where the query that is executed is in the order.
LEMMA Executing ==
  ASSUME IInv, RunExecute
  PROVE /\ run.q \in Queries /\ executed[run.q] = 0
        /\ Position(run.q) \in 1 .. Len(order) /\ order[Position(run.q)] = run.q
<1>1. run.q \in Queries /\ executed[run.q] = 0
  BY DEF IInv, RunExecute, ExecutedIsTaken, Current
<1>2. pc[run.q] \notin {"new", "read"}
  BY <1>1 DEF IInv, NewIsUnknown
<1>3. PICK i \in 1 .. Len(order) : order[i] = run.q
  BY <1>1, <1>2 DEF IInv, OrderInv
<1>4. DOMAIN order = 1 .. Len(order)
  BY DEF IInv, TypeOK
<1> QED
  BY <1>1, <1>3, <1>4 DEF Position

LEMMA OrderStep == IInv /\ [Next]_vars => order' \in Seq(Queries) /\ OrderInv'
<1> SUFFICES ASSUME IInv, [Next]_vars PROVE order' \in Seq(Queries) /\ OrderInv'
  OBVIOUS
<1>0. order \in Seq(Queries) /\ OrderInv
  BY DEF IInv, TypeOK
<1>1. ASSUME UNCHANGED <<order, executed>>,
             \A q \in Queries : pc'[q] \in {"new", "read"} <=> pc[q] \in {"new", "read"}
      PROVE order' \in Seq(Queries) /\ OrderInv'
  BY <1>0, <1>1 DEF OrderInv
<1>2. ASSUME NEW q \in Queries, PushLink(q) PROVE order' \in Seq(Queries) /\ OrderInv'
  <2>1. order' = Append(order, q) /\ executed' = executed /\ pc[q] = "read"
    BY <1>2 DEF PushLink
  <2>2. /\ order' \in Seq(Queries) /\ Len(order) \in Nat /\ Len(order') = Len(order) + 1
        /\ \A i \in 1 .. Len(order) : order'[i] = order[i]
        /\ order'[Len(order) + 1] = q
    BY <1>0, <2>1, AppendElements
  <2>3. \A i \in 1 .. Len(order') : i \in 1 .. Len(order) \/ i = Len(order) + 1
    BY <2>2
  <2>4. \A i \in 1 .. Len(order) : i \in 1 .. Len(order')
    BY <2>2
  <2>5. Len(order) + 1 \in 1 .. Len(order')
    BY <2>2
  <2>6. \A i \in 1 .. Len(order) : order[i] # q
    BY <1>0, <2>1 DEF OrderInv
  <2>7. executed[q] = 0
    BY <2>1 DEF IInv, NewIsUnknown, ExecutedIsTaken
  <2>8. \A r \in Queries : pc'[r] \notin {"new", "read"} <=> pc[r] \notin {"new", "read"} \/ r = q
    BY <1>2 DEF PushLink, Move, IInv, TypeOK
  <2>9. \A i, j \in 1 .. Len(order') : order'[i] = order'[j] => i = j
    BY <1>0, <2>2, <2>3, <2>6 DEF OrderInv
  <2>10. ASSUME NEW r \in Queries
         PROVE (\E i \in 1 .. Len(order') : order'[i] = r)
                 <=> (\E i \in 1 .. Len(order) : order[i] = r) \/ r = q
    BY <2>2, <2>3, <2>4, <2>5
  <2> QED
    BY <1>0, <2>1, <2>2, <2>7, <2>8, <2>9, <2>10 DEF OrderInv
<1>3. ASSUME RunExecute PROVE order' \in Seq(Queries) /\ OrderInv'
  <2> DEFINE k == Position(run.q)
             n == Len(order)
  <2>1. run.q \in Queries /\ k \in 1 .. n /\ order[k] = run.q /\ executed[run.q] = 0
    BY <1>3, Executing
  <2>2. order' = RemoveAt(order, k) /\ pc' = pc /\ executed' = [executed EXCEPT ![run.q] = @ + 1]
    BY <1>3 DEF RunExecute
  <2> HIDE DEF k
  <2>3. /\ order' \in Seq(Queries) /\ n \in Nat /\ Len(order') = n - 1
        /\ \A i \in 1 .. n - 1 : order'[i] = order[Behind(k, i)]
    <3>1. order \in Seq(Queries) /\ k \in 1 .. Len(order)
      BY <1>0, <2>1
    <3>2. /\ RemoveAt(order, k) \in Seq(Queries)
          /\ Len(RemoveAt(order, k)) = Len(order) - 1
          /\ \A i \in 1 .. Len(order) - 1 : RemoveAt(order, k)[i] = order[Behind(k, i)]
      BY <3>1, RemoveAtElements
    <3>3. n \in Nat
      BY <3>1
    <3> QED
      BY <2>2, <3>2, <3>3
  <2> HIDE DEF n
  <2>4. \A i \in 1 .. n - 1 : Behind(k, i) \in 1 .. n /\ Behind(k, i) # k
    BY <2>1, <2>3 DEF Behind
  <2>5. \A i, j \in 1 .. n - 1 : Behind(k, i) = Behind(k, j) => i = j
    BY <2>1, <2>3 DEF Behind
  <2>6. \A h \in 1 .. n : h # k => \E i \in 1 .. n - 1 : Behind(k, i) = h
    <3> SUFFICES ASSUME NEW h \in 1 .. n, h # k
                 PROVE \E i \in 1 .. n - 1 : Behind(k, i) = h
      OBVIOUS
    <3>1. CASE h < k
      <4>1. h \in 1 .. n - 1 /\ Behind(k, h) = h
        BY <2>1, <2>3, <3>1 DEF Behind
      <4> QED
        BY <4>1
    <3>2. CASE ~ (h < k)
      <4>1. h - 1 \in 1 .. n - 1 /\ Behind(k, h - 1) = h
        BY <2>1, <2>3, <3>2 DEF Behind
      <4> QED
        BY <4>1
    <3> QED
      BY <3>1, <3>2
  <2>7. \A i, j \in 1 .. n : order[i] = order[j] => i = j
    BY <1>0 DEF OrderInv, n
  <2>8. \A i, j \in 1 .. Len(order') : order'[i] = order'[j] => i = j
    BY <2>3, <2>4, <2>5, <2>7
  <2>9. ASSUME NEW r \in Queries
        PROVE (\E i \in 1 .. Len(order') : order'[i] = r)
                <=> (\E i \in 1 .. n : order[i] = r) /\ r # run.q
    <3>1. ASSUME NEW i \in 1 .. Len(order'), order'[i] = r
          PROVE (\E j \in 1 .. n : order[j] = r) /\ r # run.q
      BY <2>1, <2>3, <2>4, <2>7, <3>1
    <3>2. ASSUME NEW h \in 1 .. n, order[h] = r, r # run.q
          PROVE \E i \in 1 .. Len(order') : order'[i] = r
      BY <2>1, <2>3, <2>6, <3>2
    <3> QED
      BY <3>1, <3>2
  <2>10. \A r \in Queries : executed'[r] = 0 <=> executed[r] = 0 /\ r # run.q
    BY <2>1, <2>2 DEF IInv, TypeOK
  <2>11. \A r \in Queries : (\E i \in 1 .. n : order[i] = r)
                               <=> pc[r] \notin {"new", "read"} /\ executed[r] = 0
    BY <1>0 DEF OrderInv, n
  <2> QED
    BY <2>2, <2>3, <2>8, <2>9, <2>10, <2>11 DEF OrderInv
<1>4. ASSUME NEW q \in Queries, PushRead(q) \/ PushTail(q) \/ SignalUpdate(q)
      PROVE order' \in Seq(Queries) /\ OrderInv'
  <2>1. UNCHANGED <<order, executed>>
    BY <1>4 DEF PushRead, PushTail, SignalUpdate
  <2>2. \A r \in Queries : pc'[r] \in {"new", "read"} <=> pc[r] \in {"new", "read"}
    BY <1>4 DEF PushRead, PushTail, SignalUpdate, Move, IInv, TypeOK
  <2> QED
    BY <1>1, <2>1, <2>2
<1>5. ASSUME StartLcs \/ StopLcs \/ RunBegin \/ RunTake \/ RunRemove \/ RunUnhookNext
               \/ RunUnhookPrev \/ RunDelete \/ UNCHANGED vars
      PROVE order' \in Seq(Queries) /\ OrderInv'
  <2>1. UNCHANGED <<order, executed, pc>>
    BY <1>5 DEF StartLcs, StopLcs, RunBegin, RunTake, RunRemove, RunUnhookNext,
       RunUnhookPrev, RunDelete, vars
  <2> QED
    BY <1>1, <2>1
<1> QED
  BY <1>2, <1>3, <1>4, <1>5 DEF Next, Run, RequestQuery

LEMMA TypeStep == IInv /\ [Next]_vars => TypeOK'
<1> SUFFICES ASSUME IInv, [Next]_vars PROVE TypeOK'
  OBVIOUS
<1> USE DEF IInv, TypeOK
<1>1. ASSUME NEW q \in Queries, RequestQuery(q) PROVE TypeOK'
  <2>1. CASE PushRead(q)
    BY <2>1 DEF PushRead, LastNode, Move, NoteOverlap
  <2>2. CASE PushLink(q)
    BY <2>2 DEF PushLink, Move, NoteOverlap
  <2>3. CASE PushTail(q)
    BY <2>3 DEF PushTail, NewTail, Move, NoteOverlap
  <2>4. CASE SignalUpdate(q)
    BY <2>4 DEF SignalUpdate, Move
  <2> QED
    BY <1>1, <2>1, <2>2, <2>3, <2>4 DEF RequestQuery
<1>2. CASE StartLcs \/ StopLcs
  <2>1. events' \in SUBSET {"start", "update", "kill"} /\ started' \in BOOLEAN
    <3>1. CASE StartLcs
      BY <3>1 DEF StartLcs
    <3>2. CASE StopLcs
      BY <3>2 DEF StopLcs
    <3> QED
      BY <1>2, <3>1, <3>2
  <2>2. UNCHANGED <<next, prev, pc, run, executed, deleted, order, raced>>
    BY <1>2 DEF StartLcs, StopLcs
  <2> QED
    BY <2>1, <2>2
<1>3. CASE Run
  <2>1. CASE RunBegin
    BY <2>1 DEF RunBegin, Step, RunSteps
  <2>2. CASE RunTake
    BY <2>2 DEF RunTake, FirstNode, Idle, RunSteps
  <2>3. CASE RunExecute
    <3>1. run.q \in Queries /\ executed[run.q] = 0
      BY <2>3 DEF RunExecute, ExecutedIsTaken, Current
    <3>2. order' \in Seq(Queries)
      BY OrderStep
    <3>3. /\ executed' \in [Queries -> 0 .. 2]
          /\ run' \in [step : RunSteps, q : Nodes, p : Nodes, n : Nodes]
          /\ UNCHANGED <<next, prev, pc, events, started, deleted, raced>>
      BY <2>3, <3>1 DEF RunExecute, Step, RunSteps
    <3> QED
      BY <3>2, <3>3
  <2>4. CASE RunRemove
    BY <2>4 DEF RunRemove, RunSteps, NoteOverlap
  <2>5. CASE RunUnhookNext
    BY <2>5 DEF RunUnhookNext, Step, RunSteps, NoteOverlap
  <2>6. CASE RunUnhookPrev
    BY <2>6 DEF RunUnhookPrev, Step, RunSteps, NoteOverlap
  <2>7. CASE RunDelete
    <3>1. run.q \in Queries
      BY <2>7 DEF RunDelete, ExecutedIsTaken, Current
    <3> QED
      BY <2>7, <3>1 DEF RunDelete, AfterDelete, Idle, RunSteps
  <2> QED
    BY <1>3, <2>1, <2>2, <2>3, <2>4, <2>5, <2>6, <2>7 DEF Run
<1>4. CASE UNCHANGED vars
  BY <1>4 DEF vars
<1> QED
  BY <1>1, <1>2, <1>3, <1>4 DEF Next

\* The parts of IInv besides TypeOK and OrderInv.
Parts ==
  /\ NewIsUnknown
  /\ OnePredecessor
  /\ TakenWasFirst
  /\ Saved
  /\ FirstIsFresh
  /\ ExecutedIsTaken

LEMMA PushStep ==
  ASSUME IInv, NEW q \in Queries, RequestQuery(q) PROVE Parts'
<1> USE LcsAssumption DEF IInv, TypeOK
<1>1. CASE PushRead(q)
  <2> USE <1>1 DEF PushRead, LastNode, Move
  <2>1. NewIsUnknown'
    BY DEF NewIsUnknown
  <2>2. OnePredecessor'
    BY DEF OnePredecessor, NewIsUnknown, Leaving
  <2>3. TakenWasFirst'
    BY DEF TakenWasFirst, NewIsUnknown
  <2>4. Saved'
    BY DEF Saved, NewIsUnknown
  <2>5. FirstIsFresh'
    BY DEF FirstIsFresh, Leaving
  <2>6. ExecutedIsTaken'
    BY DEF ExecutedIsTaken
  <2> QED
    BY <2>1, <2>2, <2>3, <2>4, <2>5, <2>6 DEF Parts
<1>2. CASE PushLink(q)
  <2> USE <1>2 DEF PushLink, Move
  <2>1. NewIsUnknown'
    BY DEF NewIsUnknown
  <2>2. OnePredecessor'
    BY DEF OnePredecessor, Leaving
  <2>3. TakenWasFirst'
    BY DEF TakenWasFirst
  <2>4. Saved'
    BY DEF Saved
  <2>5. FirstIsFresh'
    BY DEF FirstIsFresh, Leaving, NewIsUnknown
  <2>6. ExecutedIsTaken'
    BY DEF ExecutedIsTaken
  <2> QED
    BY <2>1, <2>2, <2>3, <2>4, <2>5, <2>6 DEF Parts
<1>3. CASE PushTail(q)
  <2> USE <1>3 DEF PushTail, NewTail, Move
  <2>1. NewIsUnknown'
    BY DEF NewIsUnknown
  <2>2. OnePredecessor'
    BY DEF OnePredecessor, Leaving
  <2>3. TakenWasFirst'
    BY DEF TakenWasFirst
  <2>4. Saved'
    BY DEF Saved
  <2>5. FirstIsFresh' /\ ExecutedIsTaken'
    BY DEF FirstIsFresh, ExecutedIsTaken, Leaving
  <2> QED
    BY <2>1, <2>2, <2>3, <2>4, <2>5 DEF Parts
<1>4. CASE SignalUpdate(q)
  <2> USE <1>4 DEF SignalUpdate, Move
  <2>1. NewIsUnknown'
    BY DEF NewIsUnknown
  <2>2. OnePredecessor' /\ TakenWasFirst' /\ Saved' /\ FirstIsFresh' /\ ExecutedIsTaken'
    BY DEF OnePredecessor, TakenWasFirst, Saved, FirstIsFresh, ExecutedIsTaken,
       Leaving
  <2> QED
    BY <2>1, <2>2 DEF Parts
<1> QED
  BY <1>1, <1>2, <1>3, <1>4 DEF RequestQuery

LEMMA RunStep == ASSUME IInv, Run PROVE Parts'
<1> USE LcsAssumption DEF IInv, TypeOK
<1>1. CASE RunBegin
  <2> USE <1>1 DEF RunBegin, Step
  <2>1. run' = [run EXCEPT !.step = run'.step] /\ run'.step \in {"gone", "loop", "idle"}
    OBVIOUS
  <2>2. NewIsUnknown' /\ OnePredecessor' /\ TakenWasFirst'
    BY <2>1 DEF NewIsUnknown, OnePredecessor, TakenWasFirst, Leaving, Current
  <2>3. Saved' /\ FirstIsFresh' /\ ExecutedIsTaken'
    BY <2>1 DEF Saved, FirstIsFresh, ExecutedIsTaken, Leaving, Current
  <2> QED
    BY <2>2, <2>3 DEF Parts
<1>2. CASE RunTake
  <2> USE <1>2 DEF RunTake
  <2>1. CASE next[End] = End
    BY <2>1 DEF Parts, NewIsUnknown, OnePredecessor, TakenWasFirst, Saved,
       FirstIsFresh, ExecutedIsTaken, Leaving, Current, Idle
  <2>2. CASE next[End] # End
    <3>1. run' = [step |-> "execute", q |-> next[End], p |-> End, n |-> End]
      BY <2>2 DEF FirstNode
    <3>2. next[End] \in Queries /\ prev[next[End]] = End /\ next[End] \notin deleted
      BY <2>2 DEF OnePredecessor, FirstIsFresh, Leaving
    <3>3. NewIsUnknown'
      BY <3>1 DEF NewIsUnknown
    <3>4. OnePredecessor'
      BY <3>1 DEF OnePredecessor, Leaving
    <3>5. TakenWasFirst' /\ Saved'
      BY <3>1, <3>2 DEF TakenWasFirst, Saved, Current
    <3>6. FirstIsFresh' /\ ExecutedIsTaken'
      BY <3>1, <3>2 DEF FirstIsFresh, ExecutedIsTaken, Leaving, Current
    <3> QED
      BY <3>3, <3>4, <3>5, <3>6 DEF Parts
  <2> QED
    BY <2>1, <2>2
<1>3. CASE RunExecute
  <2> USE <1>3 DEF RunExecute, Step
  <2>1. NewIsUnknown' /\ OnePredecessor'
    BY DEF NewIsUnknown, OnePredecessor, Leaving
  <2>2. TakenWasFirst' /\ Saved' /\ FirstIsFresh'
    BY DEF TakenWasFirst, Saved, FirstIsFresh, Leaving, Current
  <2>3. ExecutedIsTaken'
    BY DEF ExecutedIsTaken, Current
  <2> QED
    BY <2>1, <2>2, <2>3 DEF Parts
<1>4. CASE RunRemove
  <2> USE <1>4 DEF RunRemove
  <2>1. run.q \in Queries /\ run.q \notin deleted /\ prev[run.q] = End
    BY DEF ExecutedIsTaken, TakenWasFirst, Current
  <2>2. CASE Found
    <3>1. run' = [run EXCEPT !.step = "unhook1", !.p = End, !.n = next[run.q]]
      BY <2>1, <2>2
    <3>2. next[run.q] # End => prev[next[run.q]] = run.q
      BY <2>1 DEF OnePredecessor, Leaving
    <3>3. next[run.q] \notin deleted /\ next[run.q] # run.q
      BY <2>1, <3>2 DEF TakenWasFirst
    <3>4. NewIsUnknown'
      BY <2>1, <3>1 DEF NewIsUnknown
    <3>5. OnePredecessor' /\ TakenWasFirst'
      BY <3>1 DEF OnePredecessor, TakenWasFirst, Leaving, Current
    <3>6. Saved'
      BY <3>1, <3>2, <3>3 DEF Saved
    <3>7. FirstIsFresh' /\ ExecutedIsTaken'
      BY <3>1 DEF FirstIsFresh, ExecutedIsTaken, Leaving, Current
    <3> QED
      BY <3>4, <3>5, <3>6, <3>7 DEF Parts
  <2>3. CASE ~ Found
    <3>1. run' = [run EXCEPT !.step = "delete"]
      BY <2>3
    <3>2. next[End] # run.q
      BY <2>1, <2>3 DEF Found, Chain, Closed
    <3>3. NewIsUnknown' /\ OnePredecessor'
      BY <3>1 DEF NewIsUnknown, OnePredecessor, Leaving
    <3>4. TakenWasFirst' /\ Saved'
      BY <3>1 DEF TakenWasFirst, Saved, Current
    <3>5. FirstIsFresh' /\ ExecutedIsTaken'
      BY <3>1, <3>2 DEF FirstIsFresh, ExecutedIsTaken, Leaving, Current
    <3> QED
      BY <3>3, <3>4, <3>5 DEF Parts
  <2> QED
    BY <2>2, <2>3
<1>5. CASE RunUnhookNext
  <2> USE <1>5 DEF RunUnhookNext, Step
  <2>1. /\ run.p = End
        /\ run.n # run.q
        /\ run.n # End => prev[run.n] = run.q
        /\ run.n \notin deleted
    BY DEF Saved
  <2>2. NewIsUnknown'
    BY <2>1 DEF NewIsUnknown
  <2>3. OnePredecessor'
    BY <2>1 DEF OnePredecessor, Leaving
  <2>4. TakenWasFirst' /\ Saved'
    BY <2>1 DEF TakenWasFirst, Saved, Current
  <2>5. FirstIsFresh' /\ ExecutedIsTaken'
    BY <2>1 DEF FirstIsFresh, ExecutedIsTaken, Leaving, Current
  <2> QED
    BY <2>2, <2>3, <2>4, <2>5 DEF Parts
<1>6. CASE RunUnhookPrev
  <2> USE <1>6 DEF RunUnhookPrev, Step
  <2>1. run.p = End /\ run.n # run.q /\ (run.n # End => prev[run.n] = run.q)
    BY DEF Saved
  <2>2. NewIsUnknown'
    BY DEF NewIsUnknown
  <2>3. OnePredecessor'
    BY <2>1 DEF OnePredecessor, Leaving
  <2>4. TakenWasFirst' /\ Saved'
    BY <2>1 DEF TakenWasFirst, Saved, Current
  <2>5. FirstIsFresh' /\ ExecutedIsTaken'
    BY DEF FirstIsFresh, ExecutedIsTaken, Leaving, Current
  <2> QED
    BY <2>2, <2>3, <2>4, <2>5 DEF Parts
<1>7. CASE RunDelete
  <2> USE <1>7 DEF RunDelete, AfterDelete, Idle
  <2>1. run.q \in Queries
    BY DEF ExecutedIsTaken, Current
  <2>2. NewIsUnknown'
    BY DEF NewIsUnknown
  <2>3. OnePredecessor'
    BY DEF OnePredecessor, Leaving
  <2>4. TakenWasFirst' /\ Saved'
    BY DEF TakenWasFirst, Saved, Current
  <2>5. FirstIsFresh' /\ ExecutedIsTaken'
    BY <2>1 DEF FirstIsFresh, ExecutedIsTaken, Leaving, Current
  <2> QED
    BY <2>2, <2>3, <2>4, <2>5 DEF Parts
<1> QED
  BY <1>1, <1>2, <1>3, <1>4, <1>5, <1>6, <1>7 DEF Run

LEMMA InvStep == IInv /\ [Next]_vars => IInv'
<1> SUFFICES ASSUME IInv, [Next]_vars PROVE Parts'
  BY TypeStep, OrderStep DEF IInv, Parts
<1>1. CASE \E q \in Queries : RequestQuery(q)
  BY <1>1, PushStep
<1>2. CASE StartLcs \/ StopLcs
  BY <1>2 DEF StartLcs, StopLcs, IInv, Parts, NewIsUnknown, OnePredecessor,
     TakenWasFirst, Saved, FirstIsFresh, ExecutedIsTaken, Leaving
<1>3. CASE Run
  BY <1>3, RunStep
<1>4. CASE UNCHANGED vars
  BY <1>4 DEF vars, IInv, Parts, NewIsUnknown, OnePredecessor,
     TakenWasFirst, Saved, FirstIsFresh, ExecutedIsTaken, Leaving
<1> QED
  BY <1>1, <1>2, <1>3, <1>4 DEF Next

LEMMA Invariance == Spec => []IInv
  BY InvInit, InvStep, PTL DEF Spec

\* The state of the LCS stays within its types.
THEOREM TypeCorrect == Spec => []TypeOK
  BY Invariance, PTL DEF IInv

\* No query is executed twice, whatever list operations overlap.
THEOREM AtMostOnce == Spec => []ExecutedAtMostOnce
<1>1. IInv => ExecutedAtMostOnce
  BY DEF IInv, ExecutedIsTaken, ExecutedAtMostOnce
<1> QED
  BY <1>1, Invariance, PTL

\* Run never works on a query that it has deleted.
THEOREM NoUseAfterDelete == Spec => []NeverTakesDeleted
<1>1. IInv => NeverTakesDeleted
  BY DEF IInv, ExecutedIsTaken, NeverTakesDeleted, Current
<1> QED
  BY <1>1, Invariance, PTL

\* While a list looks empty, remove finds nothing in it.
LEMMA EmptyChain == next[End] = End => Chain = {}
<1> SUFFICES ASSUME next[End] = End, NEW q \in Chain PROVE FALSE
  OBVIOUS
<1>1. Closed({})
  BY DEF Closed
<1> QED
  BY <1>1 DEF Chain

\* A severed list never recovers: Run sees it empty for ever.
THEOREM SeveredForGood == Spec => SeveredStays
<1>1. IInv /\ [Next]_vars => (Severed => Severed')
  <2> SUFFICES ASSUME IInv, [Next]_vars, Severed PROVE Severed'
    OBVIOUS
  <2> USE LcsAssumption DEF IInv, TypeOK, Severed
  <2>1. ASSUME NEW q \in Queries, RequestQuery(q) PROVE Severed'
    <3>1. CASE PushRead(q)
      BY <3>1 DEF PushRead, LastNode, Move, Unhooking
    <3>2. CASE PushLink(q)
      BY <3>2 DEF PushLink, Move, Unhooking
    <3>3. CASE PushTail(q)
      BY <3>3 DEF PushTail, NewTail, Move, Unhooking
    <3>4. CASE SignalUpdate(q)
      BY <3>4 DEF SignalUpdate, Move, Unhooking
    <3> QED
      BY <2>1, <3>1, <3>2, <3>3, <3>4 DEF RequestQuery
  <2>2. CASE StartLcs \/ StopLcs
    BY <2>2 DEF StartLcs, StopLcs, Unhooking
  <2>3. CASE Run
    <3>1. CASE RunBegin
      BY <3>1 DEF RunBegin, Step, Unhooking
    <3>2. CASE RunTake
      BY <3>2 DEF RunTake, Idle, Unhooking
    <3>3. CASE RunExecute
      BY <3>3 DEF RunExecute, Step, Unhooking
    <3>4. CASE RunRemove
      <4>1. ~ Found
        BY EmptyChain DEF Found
      <4> QED
        BY <3>4, <4>1 DEF RunRemove, Unhooking
    <3>5. CASE RunUnhookNext \/ RunUnhookPrev
      BY <3>5 DEF RunUnhookNext, RunUnhookPrev, Unhooking
    <3>6. CASE RunDelete
      BY <3>6 DEF RunDelete, AfterDelete, Idle, Unhooking
    <3> QED
      BY <2>3, <3>1, <3>2, <3>3, <3>4, <3>5, <3>6 DEF Run
  <2>4. CASE UNCHANGED vars
    BY <2>4 DEF vars, Unhooking
  <2> QED
    BY <2>1, <2>2, <2>3, <2>4 DEF Next
<1> QED
  BY <1>1, Invariance, PTL DEF Spec, SeveredStays

-----------------------------------------------------------------------------
(* The list as long as no two list operations have overlapped.             *)

RaceInv == Overlap => raced

\* The task has executed the query at the front, and not yet unhooked it.
Attached == run.step \in {"remove", "unhook1"}

First == IF order = <<>> THEN End ELSE order[1]

Latest == IF order # <<>> THEN order[Len(order)] ELSE IF Attached THEN run.q ELSE End

\* The list begins with the oldest query that waits, or with the one just executed.
FrontShape ==
  /\ IF Attached THEN next[End] = run.q /\ next[run.q] = First ELSE next[End] = First
  /\ run.step = "execute" => order # <<>> /\ run.q = order[1]
  /\ Unhooking => run.n = First

\* It goes on in the order of the queries, and ends with the latest.
LinkShape ==
  /\ \A i \in 1 .. Len(order) - 1 : next[order[i]] = order[i + 1]
  /\ next[Latest] = End
  /\ \A q \in Queries : pc[q] \in {"new", "read"} => next[q] = End

\* The tail pointer leads to the latest query, unless one is being hooked in or out.
TailShape ==
  /\ (\A q \in Queries : pc[q] # "linked") =>
       prev[End] = IF run.step = "unhook2" /\ order = <<>> THEN run.q ELSE Latest
  /\ \A q \in Queries : pc[q] = "linked" => q = Latest
  /\ \A q \in Queries : pc[q] = "read" => prev[q] = Latest

Shape == FrontShape /\ LinkShape /\ TailShape

ShapeInv == RaceInv /\ (~ raced => Shape)

LEMMA ShapeFacts ==
  ASSUME IInv
  PROVE /\ order \in Seq(Queries) /\ Len(order) \in Nat
        /\ order = <<>> <=> Len(order) = 0
        /\ order # <<>> => 1 \in 1 .. Len(order) /\ Len(order) \in 1 .. Len(order)
        /\ \A i \in 1 .. Len(order) :
             /\ order[i] \in Queries /\ order[i] # End
             /\ pc[order[i]] \notin {"new", "read"}
        /\ Attached => /\ run.q \in Queries /\ run.q # End
                       /\ pc[run.q] \notin {"new", "read"}
                       /\ \A i \in 1 .. Len(order) : order[i] # run.q
        /\ First \in Nodes /\ Latest \in Nodes
        /\ \A q \in Queries : pc[q] \in {"new", "read"} => q # Latest
<1>1. order \in Seq(Queries) /\ Len(order) \in Nat /\ (order = <<>> <=> Len(order) = 0)
  BY DEF IInv, TypeOK
<1>2. order # <<>> => 1 \in 1 .. Len(order) /\ Len(order) \in 1 .. Len(order)
  BY <1>1
<1>3. \A i \in 1 .. Len(order) : /\ order[i] \in Queries /\ order[i] # End
                                 /\ pc[order[i]] \notin {"new", "read"}
                                 /\ executed[order[i]] = 0
  BY <1>1, LcsAssumption DEF IInv, OrderInv
<1>4. Attached => /\ run.q \in Queries /\ run.q # End
                  /\ pc[run.q] \notin {"new", "read"} /\ executed[run.q] = 1
  BY LcsAssumption DEF IInv, ExecutedIsTaken, NewIsUnknown, Attached, Current
<1>5. Attached => \A i \in 1 .. Len(order) : order[i] # run.q
  BY <1>3, <1>4
<1>6. First \in Nodes /\ Latest \in Nodes
  BY <1>2, <1>3, <1>4 DEF First, Latest
<1>7. \A q \in Queries : pc[q] \in {"new", "read"} => q # Latest
  BY <1>2, <1>3, <1>4, LcsAssumption DEF Latest
<1> QED
  BY <1>1, <1>2, <1>3, <1>4, <1>5, <1>6, <1>7

LEMMA RacedStays == [Next]_vars => (raced => raced')
  BY DEF Next, Run, RequestQuery, PushRead, PushLink, PushTail, SignalUpdate, StartLcs, StopLcs,
     RunBegin, RunTake, RunExecute, RunRemove, RunUnhookNext, RunUnhookPrev, RunDelete,
     NoteOverlap, vars

LEMMA RaceStep == IInv /\ RaceInv /\ [Next]_vars => RaceInv'
<1> SUFFICES ASSUME IInv, RaceInv, [Next]_vars PROVE RaceInv'
  OBVIOUS
<1>1. CASE NoteOverlap
  BY <1>1 DEF NoteOverlap, RaceInv
<1>2. ASSUME raced' = raced, Hooking' = Hooking, Unhooking' => Unhooking PROVE RaceInv'
  BY <1>2 DEF RaceInv, Overlap
<1>3. ASSUME NEW q \in Queries, SignalUpdate(q) PROVE RaceInv'
  <2>1. Hooking' = Hooking
    BY <1>3 DEF SignalUpdate, Move, Hooking, IInv, TypeOK
  <2> QED
    BY <1>2, <1>3, <2>1 DEF SignalUpdate, Unhooking
<1>4. CASE StartLcs \/ StopLcs \/ RunBegin \/ RunTake \/ RunExecute \/ RunDelete \/ UNCHANGED vars
  <2>1. Hooking' = Hooking /\ raced' = raced
    BY <1>4 DEF StartLcs, StopLcs, RunBegin, RunTake, RunExecute, RunDelete, vars, Hooking
  <2>2. Unhooking' => Unhooking
    BY <1>4 DEF StartLcs, StopLcs, RunBegin, RunTake, RunExecute, RunDelete, vars, Unhooking,
       Step, Idle, AfterDelete, IInv, TypeOK
  <2> QED
    BY <1>2, <2>1, <2>2
<1> QED
  BY <1>1, <1>3, <1>4
  DEF Next, Run, RequestQuery, PushRead, PushLink, PushTail, RunRemove, RunUnhookNext,
      RunUnhookPrev

\* A push without overlap.
LEMMA PushShape ==
  ASSUME IInv, Shape, ~ Overlap, ~ Overlap', NEW q \in Queries, RequestQuery(q)
  PROVE Shape'
<1> USE LcsAssumption
<1>0. /\ next \in [Nodes -> Nodes] /\ prev \in [Nodes -> Nodes]
      /\ pc \in [Queries -> {"new", "read", "linked", "hooked", "requested"}]
  BY DEF IInv, TypeOK
<1>1. ASSUME PushRead(q) PROVE Shape'
  <2>1. /\ UNCHANGED <<run, order>> /\ pc[q] = "new" /\ pc' = [pc EXCEPT ![q] = "read"]
        /\ next' = [next EXCEPT ![q] = End] /\ prev' = [prev EXCEPT ![q] = prev[End]]
    BY <1>1 DEF PushRead, Move, LastNode
  <2>2. next' = next
    BY <1>0, <2>1 DEF Shape, LinkShape
  <2>3. First' = First /\ Latest' = Latest /\ Attached' = Attached
    BY <2>1 DEF First, Latest, Attached
  <2>4. ~ Unhooking /\ \A r \in Queries : pc[r] \notin {"read", "linked"}
    BY <1>0, <2>1 DEF Overlap, Hooking, Unhooking
  <2>5. FrontShape'
    BY <2>1, <2>2, <2>3, <2>4 DEF Shape, FrontShape, Attached, Unhooking
  <2>6. LinkShape'
    BY <1>0, <2>1, <2>2, <2>3 DEF Shape, LinkShape
  <2>7. prev[End] = Latest
    BY <2>4 DEF Shape, TailShape, Unhooking
  <2>8. TailShape'
    BY <1>0, <2>1, <2>3, <2>4, <2>7 DEF TailShape, Unhooking
  <2> QED
    BY <2>5, <2>6, <2>8 DEF Shape
<1>2. ASSUME PushLink(q) PROVE Shape'
  <2>1. /\ UNCHANGED <<run, prev>> /\ pc[q] = "read" /\ pc' = [pc EXCEPT ![q] = "linked"]
        /\ next' = [next EXCEPT ![Latest] = q] /\ order' = Append(order, q)
    BY <1>2 DEF PushLink, Move, Shape, TailShape
  <2>2. ~ Unhooking /\ \A r \in Queries : r # q => pc[r] \notin {"read", "linked"}
    BY <1>0, <2>1 DEF Overlap, Hooking, Unhooking
  <2> DEFINE n == Len(order)
  <2>3. /\ n \in Nat /\ Len(order') = n + 1 /\ order'[n + 1] = q /\ order' # <<>>
        /\ \A i \in 1 .. n : order'[i] = order[i]
    BY <2>1, ShapeFacts, AppendElements
  <2>4. /\ order = <<>> <=> n = 0
        /\ order # <<>> => 1 \in 1 .. n /\ n \in 1 .. n
        /\ \A i \in 1 .. n : order[i] \in Queries /\ order[i] # End
        /\ Attached => /\ run.q \in Queries /\ run.q # End
                       /\ \A i \in 1 .. n : order[i] # run.q
        /\ Latest \in Nodes /\ q # Latest
        /\ \A r \in Queries : pc[r] \in {"new", "read"} => r # Latest
    BY <2>1, ShapeFacts
  <2> HIDE DEF n
  <2>5. Latest' = q /\ First' = (IF order = <<>> THEN q ELSE First) /\ Attached' = Attached
    BY <2>1, <2>3, <2>4 DEF Latest, First, Attached
  <2>6. FrontShape'
    <3>1. CASE Attached
      <4>1. next'[End] = run.q
        BY <1>0, <2>1, <2>4, <3>1 DEF Shape, FrontShape, Latest, n
      <4>2. next'[run.q] = First'
        BY <1>0, <2>1, <2>4, <2>5, <3>1 DEF Shape, FrontShape, Latest, n
      <4> QED
        BY <2>1, <2>2, <2>5, <3>1, <4>1, <4>2 DEF FrontShape, Attached, Unhooking
    <3>2. CASE ~ Attached
      <4>1. next'[End] = First'
        BY <1>0, <2>1, <2>4, <2>5, <3>2 DEF Shape, FrontShape, Latest, n
      <4>2. run.step = "execute" => order' # <<>> /\ run.q = order'[1]
        BY <2>3, <2>4 DEF Shape, FrontShape
      <4> QED
        BY <2>1, <2>2, <2>5, <3>2, <4>1, <4>2 DEF FrontShape, Attached, Unhooking
    <3> QED
      BY <3>1, <3>2
  <2>7. LinkShape'
    <3>1. ASSUME NEW i \in 1 .. n PROVE next'[order'[i]] = order'[i + 1]
      <4>1. CASE i = n
        <5>1. order # <<>> /\ Latest = order[n]
          BY <2>3, <2>4, <4>1 DEF Latest, n
        <5> QED
          BY <1>0, <2>1, <2>3, <2>4, <4>1, <5>1
      <4>2. CASE i # n
        <5>1. i \in 1 .. n - 1 /\ i + 1 \in 1 .. n /\ n \in 1 .. n
          BY <2>3, <4>2
        <5>2. order[i] # order[n] /\ Latest = order[n]
          BY <2>4, <4>2, <5>1 DEF IInv, OrderInv, Latest, n
        <5>3. next'[order[i]] = next[order[i]]
          BY <1>0, <2>1, <2>4, <5>2
        <5>4. next[order[i]] = order[i + 1]
          BY <5>1 DEF Shape, LinkShape, n
        <5> QED
          BY <2>3, <5>1, <5>3, <5>4
      <4> QED
        BY <4>1, <4>2
    <3>2. next'[q] = End
      BY <1>0, <2>1, <2>4 DEF Shape, LinkShape
    <3>3. \A r \in Queries : pc'[r] \in {"new", "read"} => next'[r] = End
      BY <1>0, <2>1, <2>4 DEF Shape, LinkShape
    <3>4. \A i \in 1 .. Len(order') - 1 : i \in 1 .. n
      BY <2>3
    <3> QED
      BY <2>5, <3>1, <3>2, <3>3, <3>4 DEF LinkShape
  <2>8. TailShape'
    <3>1. \A r \in Queries : pc'[r] = "linked" <=> r = q
      BY <1>0, <2>1, <2>2
    <3>2. \A r \in Queries : pc'[r] # "read"
      BY <1>0, <2>1, <2>2
    <3> QED
      BY <2>5, <3>1, <3>2 DEF TailShape
  <2> QED
    BY <2>6, <2>7, <2>8 DEF Shape
<1>3. ASSUME PushTail(q) PROVE Shape'
  <2>1. /\ UNCHANGED <<run, next, order>> /\ pc[q] = "linked"
        /\ pc' = [pc EXCEPT ![q] = "hooked"] /\ prev' = [prev EXCEPT ![End] = q]
    BY <1>3 DEF PushTail, Move, NewTail
  <2>2. ~ Unhooking /\ \A r \in Queries : r # q => pc[r] \notin {"read", "linked"}
    BY <1>0, <2>1 DEF Overlap, Hooking, Unhooking
  <2>3. First' = First /\ Latest' = Latest /\ Attached' = Attached /\ q = Latest
    BY <2>1 DEF First, Latest, Attached, Shape, TailShape
  <2>4. FrontShape' /\ LinkShape'
    BY <1>0, <2>1, <2>2, <2>3 DEF Shape, FrontShape, LinkShape, Unhooking
  <2>5. TailShape'
    BY <1>0, <2>1, <2>2, <2>3 DEF TailShape, Unhooking
  <2> QED
    BY <2>4, <2>5 DEF Shape
<1>4. ASSUME SignalUpdate(q) PROVE Shape'
  <2>1. UNCHANGED <<next, prev, run, order>> /\ pc[q] = "hooked" /\ pc' = [pc EXCEPT ![q] = "requested"]
    BY <1>4 DEF SignalUpdate, Move
  <2>2. First' = First /\ Latest' = Latest /\ Attached' = Attached /\ Unhooking' = Unhooking
    BY <2>1 DEF First, Latest, Attached, Unhooking
  <2>3. \A r \in Queries : /\ pc'[r] = "linked" <=> pc[r] = "linked"
                           /\ pc'[r] = "read" <=> pc[r] = "read"
                           /\ pc'[r] = "new" <=> pc[r] = "new"
    BY <1>0, <2>1
  <2> QED
    BY <2>1, <2>2, <2>3 DEF Shape, FrontShape, LinkShape, TailShape
<1> QED
  BY <1>1, <1>2, <1>3, <1>4 DEF RequestQuery

\* As long as nothing overlaps, what is executed is the oldest query.
LEMMA ExecutesOldest ==
  ASSUME IInv, Shape, RunExecute
  PROVE order # <<>> /\ run.q = order[1] /\ order' = Tail(order)
<1>1. order # <<>> /\ run.q = order[1]
  BY DEF Shape, FrontShape, RunExecute
<1>2. order \in Seq(Queries) /\ 1 \in 1 .. Len(order)
  BY <1>1, ShapeFacts
<1>3. Position(run.q) = 1
  BY <1>1, <1>2, Executing DEF IInv, OrderInv
<1> QED
  BY <1>1, <1>2, <1>3, RemoveFirstIsTail DEF RunExecute

\* A step of the task without overlap.
LEMMA RunShape ==
  ASSUME IInv, Shape, ~ Overlap, ~ Overlap', Run
  PROVE Shape'
<1> USE LcsAssumption
<1> DEFINE n == Len(order)
<1>0. /\ next \in [Nodes -> Nodes] /\ prev \in [Nodes -> Nodes]
      /\ run \in [step : RunSteps, q : Nodes, p : Nodes, n : Nodes]
      /\ order \in Seq(Queries) /\ n \in Nat
      /\ order = <<>> <=> n = 0
      /\ order # <<>> => 1 \in 1 .. n /\ n \in 1 .. n
      /\ \A i \in 1 .. n : order[i] \in Queries /\ order[i] # End
      /\ Attached => /\ run.q \in Queries /\ run.q # End
                     /\ \A i \in 1 .. n : order[i] # run.q
      /\ Latest \in Nodes
  BY ShapeFacts DEF IInv, TypeOK
<1> HIDE DEF n
<1>1. ASSUME UNCHANGED <<next, prev, pc, order>>, ~ Attached, ~ Attached',
             ~ Unhooking', run.step # "unhook2",
             run'.step = "execute" => order # <<>> /\ run'.q = order[1]
      PROVE Shape'
  <2>1. First' = First /\ Latest' = Latest
    BY <1>1 DEF First, Latest
  <2>2. FrontShape'
    BY <1>1, <2>1 DEF Shape, FrontShape
  <2>3. LinkShape'
    BY <1>1, <2>1 DEF Shape, LinkShape
  <2>4. TailShape'
    BY <1>1, <2>1 DEF Shape, TailShape, Unhooking
  <2> QED
    BY <2>2, <2>3, <2>4 DEF Shape
<1>2. CASE RunBegin
  <2>1. /\ UNCHANGED <<next, prev, pc, order>> /\ run.step = "idle"
        /\ run'.step \in {"gone", "loop", "idle"}
    BY <1>0, <1>2 DEF RunBegin, Step
  <2> QED
    BY <1>1, <2>1 DEF Attached, Unhooking
<1>3. CASE RunTake
  <2>1. /\ UNCHANGED <<next, prev, pc, order>> /\ run.step = "loop"
        /\ next[End] = First
    BY <1>3 DEF RunTake, Shape, FrontShape, Attached
  <2>2. CASE next[End] = End
    <3>1. run'.step = "idle"
      BY <1>3, <2>2 DEF RunTake, Idle
    <3> QED
      BY <1>1, <2>1, <3>1 DEF Attached, Unhooking
  <2>3. CASE next[End] # End
    <3>1. run'.step = "execute" /\ run'.q = First /\ order # <<>> /\ First = order[1]
      BY <1>3, <2>1, <2>3 DEF RunTake, FirstNode, First
    <3> QED
      BY <1>1, <2>1, <3>1 DEF Attached, Unhooking
  <2> QED
    BY <2>2, <2>3
<1>4. CASE RunExecute
  <2>1. /\ order # <<>> /\ run.q = order[1] /\ order' = Tail(order)
        /\ UNCHANGED <<next, prev, pc>> /\ run.step = "execute"
        /\ run' = [run EXCEPT !.step = "remove"]
    BY <1>4, ExecutesOldest DEF RunExecute, Step
  <2>2. /\ 1 \in 1 .. n /\ n \in 1 .. n /\ order' \in Seq(Queries) /\ Len(order') = n - 1
        /\ \A i \in 1 .. n - 1 : order'[i] = order[i + 1]
        /\ order' = <<>> <=> n = 1
    <3>1. 1 \in 1 .. n /\ n \in 1 .. n
      BY <1>0, <2>1
    <3>2. /\ order' \in Seq(Queries) /\ Len(order') = n - 1
          /\ \A i \in 1 .. Len(order') : order'[i] = order[i + 1]
      BY <1>0, <2>1, HeadTailProperties DEF n
    <3>3. order' = <<>> <=> Len(order') = 0
      BY <3>2, EmptySeq
    <3> QED
      BY <1>0, <3>1, <3>2, <3>3
  <2>3. Attached' /\ ~ Attached /\ run'.q = order[1] /\ ~ Unhooking' /\ run'.step = "remove"
    BY <1>0, <2>1 DEF Attached, Unhooking
  <2>4. Latest' = Latest
    <3>1. Latest = order[n]
      BY <2>1 DEF Latest, n
    <3>2. CASE n = 1
      BY <2>2, <2>3, <3>1, <3>2 DEF Latest
    <3>3. CASE n # 1
      <4>1. order' # <<>> /\ n - 1 \in 1 .. n - 1
        BY <1>0, <2>2, <3>3
      <4>2. order'[n - 1] = order[n]
        BY <1>0, <2>2, <4>1
      <4> QED
        BY <2>2, <3>1, <4>1, <4>2 DEF Latest
    <3> QED
      BY <3>2, <3>3
  <2>5. next[End] = order[1]
    BY <2>1, <2>3 DEF Shape, FrontShape, First
  <2>6. next[order[1]] = First'
    <3>1. CASE n = 1
      BY <2>1, <2>2, <3>1 DEF Shape, LinkShape, Latest, First, n
    <3>2. CASE n # 1
      <4>1. 1 \in 1 .. n - 1 /\ order' # <<>>
        BY <1>0, <2>2, <3>2
      <4>2. next[order[1]] = order[2] /\ order'[1] = order[2]
        BY <2>2, <4>1 DEF Shape, LinkShape, n
      <4> QED
        BY <4>1, <4>2 DEF First
    <3> QED
      BY <3>1, <3>2
  <2>7. FrontShape'
    BY <2>1, <2>3, <2>5, <2>6 DEF FrontShape
  <2>8. LinkShape'
    <3>1. ASSUME NEW i \in 1 .. Len(order') - 1 PROVE next[order'[i]] = order'[i + 1]
      <4>1. i \in 1 .. n - 1 /\ i + 1 \in 1 .. n - 1
        BY <1>0, <2>2
      <4>2. order'[i] = order[i + 1] /\ order'[i + 1] = order[i + 1 + 1]
        BY <2>2, <4>1
      <4>3. next[order[i + 1]] = order[i + 1 + 1]
        BY <4>1 DEF Shape, LinkShape, n
      <4> QED
        BY <4>2, <4>3
    <3> QED
      BY <2>1, <2>4, <3>1 DEF Shape, LinkShape
  <2>9. TailShape'
    BY <2>1, <2>3, <2>4 DEF Shape, TailShape
  <2> QED
    BY <2>7, <2>8, <2>9 DEF Shape
<1>5. CASE RunRemove
  <2>1. /\ UNCHANGED <<next, prev, pc, order>> /\ run.step = "remove" /\ Attached
        /\ next[End] = run.q /\ next[run.q] = First /\ run.q \in Queries
    BY <1>0, <1>5 DEF RunRemove, Attached, Shape, FrontShape
  <2>2. Found
    BY <2>1 DEF Found, Chain, Closed
  <2>3. run' = [run EXCEPT !.step = "unhook1", !.p = prev[run.q], !.n = next[run.q]]
    BY <1>5, <2>2 DEF RunRemove
  <2>4. run'.step = "unhook1" /\ run'.q = run.q /\ run'.n = First
    BY <1>0, <2>1, <2>3
  <2>5. First' = First /\ Latest' = Latest /\ Attached'
    BY <2>1, <2>4 DEF First, Latest, Attached
  <2>6. FrontShape'
    BY <2>1, <2>4, <2>5 DEF FrontShape
  <2>7. LinkShape' /\ TailShape'
    BY <2>1, <2>4, <2>5 DEF Shape, LinkShape, TailShape
  <2> QED
    BY <2>6, <2>7 DEF Shape
<1>6. CASE RunUnhookNext
  <2>1. /\ UNCHANGED <<prev, pc, order>> /\ run.step = "unhook1" /\ Attached
        /\ run.p = End /\ run.n = First /\ next' = [next EXCEPT ![End] = First]
        /\ run' = [run EXCEPT !.step = "unhook2"]
    BY <1>6 DEF RunUnhookNext, Step, Attached, Shape, FrontShape, Unhooking, IInv, Saved
  <2>2. run'.step = "unhook2" /\ run'.q = run.q /\ run'.n = First /\ ~ Attached'
    BY <1>0, <2>1 DEF Attached
  <2>3. First' = First /\ Latest' = (IF order = <<>> THEN End ELSE Latest)
    BY <2>1, <2>2 DEF First, Latest
  <2>4. \A r \in Queries : pc[r] \notin {"read", "linked"}
    BY <2>1 DEF Overlap, Hooking, Unhooking
  <2>5. next'[End] = First /\ \A x \in Nodes : x # End => next'[x] = next[x]
    BY <1>0, <2>1
  <2>6. FrontShape'
    BY <2>2, <2>3, <2>5 DEF FrontShape
  <2>7. LinkShape'
    <3>1. \A i \in 1 .. Len(order) - 1 : next'[order[i]] = order[i + 1]
      <4> SUFFICES ASSUME NEW i \in 1 .. Len(order) - 1 PROVE next'[order[i]] = order[i + 1]
        OBVIOUS
      <4>1. i \in 1 .. n
        BY <1>0 DEF n
      <4> QED
        BY <1>0, <2>5, <4>1 DEF Shape, LinkShape
    <3>2. next'[Latest'] = End
      <4>1. CASE order = <<>>
        BY <2>3, <2>5, <4>1 DEF First
      <4>2. CASE order # <<>>
        <5>1. Latest = order[n] /\ Latest # End
          BY <1>0, <4>2 DEF Latest, n
        <5> QED
          BY <1>0, <2>3, <2>5, <4>2, <5>1 DEF Shape, LinkShape
      <4> QED
        BY <4>1, <4>2
    <3>3. \A r \in Queries : pc[r] \in {"new", "read"} => next'[r] = End
      BY <2>5 DEF Shape, LinkShape
    <3> QED
      BY <2>1, <3>1, <3>2, <3>3 DEF LinkShape
  <2>8. TailShape'
    <3>1. prev[End] = Latest
      BY <2>1, <2>4 DEF Shape, TailShape
    <3>2. order = <<>> => Latest = run.q
      BY <2>1 DEF Latest
    <3> QED
      BY <2>1, <2>2, <2>3, <2>4, <3>1, <3>2 DEF TailShape
  <2> QED
    BY <2>6, <2>7, <2>8 DEF Shape
<1>7. CASE RunUnhookPrev
  <2>1. /\ UNCHANGED <<next, pc, order>> /\ run.step = "unhook2"
        /\ run.p = End /\ run.n = First /\ prev' = [prev EXCEPT ![First] = End]
        /\ run' = [run EXCEPT !.step = "delete"]
    BY <1>7 DEF RunUnhookPrev, Step, Shape, FrontShape, Unhooking, IInv, Saved
  <2>2. run'.step = "delete" /\ ~ Attached /\ ~ Attached' /\ ~ Unhooking'
    BY <1>0, <2>1 DEF Attached, Unhooking
  <2>3. First' = First /\ Latest' = Latest
    BY <2>1, <2>2 DEF First, Latest
  <2>4. \A r \in Queries : pc[r] \notin {"read", "linked"}
    BY <2>1 DEF Overlap, Hooking, Unhooking
  <2>5. FrontShape' /\ LinkShape'
    BY <2>1, <2>2, <2>3 DEF Shape, FrontShape, LinkShape
  <2>6. prev'[End] = Latest
    <3>1. CASE order = <<>>
      BY <1>0, <2>1, <2>2, <3>1 DEF First, Latest
    <3>2. CASE order # <<>>
      <4>1. First # End /\ prev[End] = Latest
        BY <1>0, <2>1, <2>4, <3>2 DEF First, Shape, TailShape
      <4> QED
        BY <1>0, <2>1, <4>1
    <3> QED
      BY <3>1, <3>2
  <2>7. TailShape'
    BY <2>1, <2>2, <2>3, <2>4, <2>6 DEF TailShape
  <2> QED
    BY <2>5, <2>7 DEF Shape
<1>8. CASE RunDelete
  <2>1. UNCHANGED <<next, prev, pc, order>> /\ run.step = "delete" /\ run'.step = "loop"
    BY <1>8 DEF RunDelete, Idle, AfterDelete
  <2> QED
    BY <1>1, <2>1 DEF Attached, Unhooking
<1> QED
  BY <1>2, <1>3, <1>4, <1>5, <1>6, <1>7, <1>8 DEF Run

LEMMA ShapeStep == IInv /\ ShapeInv /\ [Next]_vars => ShapeInv'
<1> SUFFICES ASSUME IInv, ShapeInv, [Next]_vars, ~ raced' PROVE Shape'
  BY RaceStep DEF ShapeInv
<1>1. RaceInv' /\ ~ Overlap'
  BY RaceStep DEF ShapeInv, RaceInv
<1>2. raced => raced'
  BY RacedStays
<1>3. Shape /\ ~ Overlap
  BY <1>2 DEF ShapeInv, RaceInv
<1>4. CASE \E q \in Queries : RequestQuery(q)
  BY <1>1, <1>3, <1>4, PushShape
<1>5. CASE Run
  BY <1>1, <1>3, <1>5, RunShape
<1>6. CASE StartLcs \/ StopLcs \/ UNCHANGED vars
  <2>1. UNCHANGED <<next, prev, pc, run, order>>
    BY <1>6 DEF StartLcs, StopLcs, vars
  <2> QED
    BY <1>3, <2>1 DEF Shape, FrontShape, LinkShape, TailShape, First, Latest, Attached, Unhooking
<1> QED
  BY <1>4, <1>5, <1>6 DEF Next

LEMMA ShapeInit == Init => ShapeInv
<1> SUFFICES ASSUME Init PROVE ShapeInv
  OBVIOUS
<1>1. RaceInv
  BY DEF Init, RaceInv, Overlap, Hooking, Unhooking, Idle
<1>2. First = End /\ Latest = End /\ ~ Attached /\ ~ Unhooking /\ run.step = "idle" /\ Len(order) = 0
  BY DEF Init, First, Latest, Attached, Unhooking, Idle
<1>3. FrontShape /\ LinkShape /\ TailShape
  BY <1>2 DEF Init, FrontShape, LinkShape, TailShape
<1> QED
  BY <1>1, <1>3 DEF ShapeInv, Shape

LEMMA ShapeAlways == Spec => []ShapeInv
  BY ShapeInit, ShapeStep, Invariance, PTL DEF Spec

-----------------------------------------------------------------------------
(* Nothing is lost.                                                        *)

\* A traversal meets each query that waits.
ChainInv == ~ raced => \A i \in 1 .. Len(order) : order[i] \in Chain

\* Chain is the least closed set.
LEMMA InChain ==
  ASSUME NEW q \in Chain, NEW S \in SUBSET Queries, Closed(S) PROVE q \in S
  BY DEF Chain

\* Hooking a query in behind the end of the chain adds it to the chain.
LEMMA ChainGrows ==
  ASSUME NEW l \in Chain \cup {End}, NEW q \in Queries, q # l,
         next \in [Nodes -> Nodes], next[l] = End, next' = [next EXCEPT ![l] = q]
  PROVE Chain \cup {q} \subseteq Chain'
<1> SUFFICES ASSUME NEW S \in SUBSET Queries, Closed(S)'
             PROVE Chain \subseteq S /\ q \in S
  BY DEF Chain
<1>1. l \in Nodes /\ End \in Nodes
  BY DEF Chain
<1>2. \A x \in Nodes : next'[x] = IF x = l THEN q ELSE next[x]
  BY <1>1
<1>3. Closed(S)
  BY <1>1, <1>2 DEF Closed
<1>4. Chain \subseteq S
  BY <1>3, InChain
<1>5. l \in S \cup {End}
  BY <1>4
<1>6. next'[l] \in S \cup {End} /\ next'[l] = q
  BY <1>1, <1>2, <1>5 DEF Closed
<1> QED
  BY <1>4, <1>6, LcsAssumption

\* Unhooking the first query keeps the others in the chain.
LEMMA ChainShrinks ==
  ASSUME NEW q \in Queries, next \in [Nodes -> Nodes], next[End] = q,
         next' = [next EXCEPT ![End] = next[q]]
  PROVE Chain \ {q} \subseteq Chain'
<1> SUFFICES ASSUME NEW S \in SUBSET Queries, Closed(S)' PROVE Chain \subseteq S \cup {q}
  BY DEF Chain
<1>1. \A x \in Nodes : next'[x] = IF x = End THEN next[q] ELSE next[x]
  BY DEF Nodes
<1>2. Closed(S \cup {q})
  BY <1>1, LcsAssumption DEF Closed
<1> QED
  BY <1>2, InChain

LEMMA ChainStep == IInv /\ ShapeInv /\ ChainInv /\ [Next]_vars => ChainInv'
<1> SUFFICES ASSUME IInv, ShapeInv, ChainInv, [Next]_vars, ~ raced'
             PROVE \A i \in 1 .. Len(order') : order'[i] \in Chain'
  BY DEF ChainInv
<1> USE LcsAssumption
<1> DEFINE n == Len(order)
<1>1. raced => raced'
  BY RacedStays
<1>2. Shape /\ \A i \in 1 .. n : order[i] \in Chain
  BY <1>1 DEF ShapeInv, ChainInv
<1>3. /\ next \in [Nodes -> Nodes] /\ order \in Seq(Queries) /\ n \in Nat
      /\ order # <<>> => n \in 1 .. n
      /\ \A i \in 1 .. n : order[i] \in Queries
      /\ Attached => run.q \in Queries /\ \A i \in 1 .. n : order[i] # run.q
      /\ \A q \in Queries : pc[q] \in {"new", "read"} => q # Latest
  BY ShapeFacts DEF IInv, TypeOK
<1>4. ASSUME next' = next PROVE Chain' = Chain
  BY <1>4 DEF Chain, Closed
<1> HIDE DEF n
<1>5. ASSUME NEW q \in Queries, PushLink(q)
      PROVE \A i \in 1 .. Len(order') : order'[i] \in Chain'
  <2>1. next' = [next EXCEPT ![Latest] = q] /\ order' = Append(order, q) /\ pc[q] = "read"
    BY <1>2, <1>5 DEF PushLink, Shape, TailShape
  <2>2. Latest \in Chain \cup {End}
    <3>1. CASE order # <<>>
      BY <1>2, <1>3, <3>1 DEF Latest, n
    <3>2. CASE order = <<>> /\ Attached
      <4>1. next[End] = run.q /\ run.q \in Queries /\ Latest = run.q
        BY <1>2, <1>3, <3>2 DEF Shape, FrontShape, Latest
      <4>2. run.q \in Chain
        BY <4>1 DEF Chain, Closed
      <4> QED
        BY <4>1, <4>2
    <3>3. CASE order = <<>> /\ ~ Attached
      BY <3>3 DEF Latest
    <3> QED
      BY <3>1, <3>2, <3>3
  <2>3. next[Latest] = End /\ q # Latest
    BY <1>2, <1>3, <2>1 DEF Shape, LinkShape
  <2>4. Chain \cup {q} \subseteq Chain'
    BY <1>3, <2>1, <2>2, <2>3, ChainGrows
  <2>5. /\ Len(order') = n + 1 /\ order'[n + 1] = q
        /\ \A i \in 1 .. n : order'[i] = order[i]
    BY <1>3, <2>1, AppendElements DEF n
  <2>6. \A i \in 1 .. Len(order') : i \in 1 .. n \/ i = n + 1
    BY <1>3, <2>5
  <2> QED
    BY <1>2, <2>4, <2>5, <2>6
<1>6. ASSUME RunExecute PROVE \A i \in 1 .. Len(order') : order'[i] \in Chain'
  <2>1. order # <<>> /\ order' = Tail(order) /\ next' = next
    BY <1>2, <1>6, ExecutesOldest DEF RunExecute
  <2>2. /\ Len(order') = n - 1
        /\ \A i \in 1 .. Len(order') : order'[i] = order[i + 1]
    BY <1>3, <2>1, HeadTailProperties DEF n
  <2>3. \A i \in 1 .. Len(order') : i + 1 \in 1 .. n
    BY <1>3, <2>2
  <2> QED
    BY <1>2, <1>4, <2>1, <2>2, <2>3
<1>7. ASSUME RunUnhookNext PROVE \A i \in 1 .. Len(order') : order'[i] \in Chain'
  <2>1. /\ Attached /\ run.p = End /\ run.n = First /\ order' = order
        /\ next' = [next EXCEPT ![run.p] = run.n]
    BY <1>2, <1>7 DEF RunUnhookNext, Attached, Shape, FrontShape, Unhooking, IInv, Saved
  <2>2. next[End] = run.q /\ next[run.q] = First /\ run.q \in Queries
    BY <1>2, <1>3, <2>1 DEF Shape, FrontShape
  <2>3. Chain \ {run.q} \subseteq Chain'
    BY <1>3, <2>1, <2>2, ChainShrinks
  <2> QED
    BY <1>2, <1>3, <2>1, <2>3 DEF n
<1>8. ASSUME NEW q \in Queries, PushRead(q)
      PROVE \A i \in 1 .. Len(order') : order'[i] \in Chain'
  <2>1. next' = [next EXCEPT ![q] = End] /\ order' = order /\ next[q] = End
    BY <1>2, <1>8 DEF PushRead, Shape, LinkShape
  <2>2. next' = next
    BY <1>3, <2>1
  <2> QED
    BY <1>2, <1>4, <2>1, <2>2 DEF n
<1>9. ASSUME UNCHANGED <<next, order>> PROVE \A i \in 1 .. Len(order') : order'[i] \in Chain'
  BY <1>2, <1>4, <1>9 DEF n
<1> QED
  BY <1>5, <1>6, <1>7, <1>8, <1>9
  DEF Next, Run, RequestQuery, PushTail, SignalUpdate, StartLcs, StopLcs, RunBegin, RunTake,
      RunRemove, RunUnhookPrev, RunDelete, vars

\* As long as no two list operations have overlapped, every query that was pushed
\* and not yet executed is in the list that Run traverses (RequestQuery, Run).
THEOREM NothingLost == Spec => []NothingLostWithoutRace
<1>1. Init => ChainInv
  BY DEF Init, ChainInv
<1>2. IInv /\ ChainInv => NothingLostWithoutRace
  <2> SUFFICES ASSUME IInv, ChainInv, ~ raced, NEW q \in Queries,
                      pc[q] \in {"hooked", "requested"}, executed[q] = 0
               PROVE q \in Chain
    BY DEF NothingLostWithoutRace
  <2>1. \E i \in 1 .. Len(order) : order[i] = q
    BY DEF IInv, OrderInv
  <2> QED
    BY <2>1 DEF ChainInv
<1> QED
  BY <1>1, <1>2, ChainStep, ShapeAlways, Invariance, PTL DEF Spec

-----------------------------------------------------------------------------
(* The LCS implements the queue.                                           *)

\* The LCS is a first-in first-out queue until two list operations overlap; even
\* then it executes only what was linked, and nothing twice (RequestQuery, Run).
THEOREM LcsIsQueue == Spec => QueueSpec
<1>1. Init => Queue!Init
  BY DEF Init, Queue!Init, Known
<1>2. ASSUME IInv, ShapeInv, [Next]_vars PROVE [Queue!Next]_<<order, Known, raced>>
  <2> USE DEF Known
  <2>0. /\ order \in Seq(Queries)
        /\ pc \in [Queries -> {"new", "read", "linked", "hooked", "requested"}]
        /\ raced \in BOOLEAN /\ raced' \in BOOLEAN
    BY <1>2, TypeStep DEF IInv, TypeOK
  <2>1. ASSUME NEW q \in Queries, PushLink(q) PROVE Queue!Accept
    <3>1. pc[q] = "read" /\ order' = Append(order, q) /\ pc' = [pc EXCEPT ![q] = "linked"]
      BY <2>1 DEF PushLink, Move
    <3>2. q \in Queries \ Known /\ Known' = Known \cup {q}
      <4>1. \A r \in Queries : pc'[r] = IF r = q THEN "linked" ELSE pc[r]
        BY <2>0, <3>1
      <4> QED
        BY <3>1, <4>1
    <3>3. raced' = raced
      <4>1. Hooking' = Hooking
        BY <2>0, <3>1 DEF Hooking
      <4>2. Unhooking' = Unhooking
        BY <2>1 DEF PushLink, Unhooking
      <4>3. Overlap' => raced
        BY <1>2, <4>1, <4>2 DEF Overlap, ShapeInv, RaceInv
      <4>4. raced' = (raced \/ Overlap')
        BY <2>1 DEF PushLink, NoteOverlap
      <4> QED
        BY ONLY <2>0, <4>3, <4>4
    <3> QED
      BY <3>1, <3>2, <3>3 DEF Queue!Accept
  <2>2. ASSUME RunExecute PROVE Queue!Execute \/ Queue!ExecuteAny
    <3>1. Known' = Known /\ raced' = raced
      BY <2>2 DEF RunExecute
    <3>2. CASE raced
      <4>1. Position(run.q) \in DOMAIN order
        BY <1>2, <2>0, <2>2, Executing
      <4>2. order' = RemoveAt(order, Position(run.q))
        BY <2>2 DEF RunExecute
      <4>3. order' = Queue!RemoveAt(order, Position(run.q))
        BY ONLY <4>2 DEF RemoveAt, Queue!RemoveAt
      <4> HIDE DEF Known
      <4> QED
        BY <3>1, <3>2, <4>1, <4>3 DEF Queue!ExecuteAny
    <3>3. CASE ~ raced
      <4>1. order # <<>> /\ order' = Tail(order)
        BY <1>2, <2>2, <3>3, ExecutesOldest DEF ShapeInv
      <4> HIDE DEF Known
      <4> QED
        BY <3>1, <4>1 DEF Queue!Execute
    <3> QED
      BY <3>2, <3>3
  <2>3. ASSUME order' = order, Known' = Known, raced => raced'
        PROVE [Queue!Next]_<<order, Known, raced>>
    <3>1. raced' = raced \/ raced' = TRUE
      BY ONLY <2>0, <2>3
    <3> HIDE DEF Known
    <3> QED
      BY <2>3, <3>1 DEF Queue!Next, Queue!Break
  <2>4. ASSUME NEW q \in Queries, PushRead(q) \/ PushTail(q) \/ SignalUpdate(q)
        PROVE order' = order /\ Known' = Known /\ (raced => raced')
    <3>1. order' = order /\ (raced => raced')
      BY <1>2, <2>4, RacedStays DEF PushRead, PushTail, SignalUpdate
    <3>2. \A r \in Queries : pc'[r] \in {"new", "read"} <=> pc[r] \in {"new", "read"}
      BY <2>0, <2>4 DEF PushRead, PushTail, SignalUpdate, Move
    <3> QED
      BY <3>1, <3>2
  <2>5. ASSUME StartLcs \/ StopLcs \/ RunBegin \/ RunTake \/ RunRemove \/ RunUnhookNext
                 \/ RunUnhookPrev \/ RunDelete \/ UNCHANGED vars
        PROVE order' = order /\ Known' = Known /\ (raced => raced')
    BY <1>2, <2>5, RacedStays DEF StartLcs, StopLcs, RunBegin, RunTake, RunRemove,
       RunUnhookNext, RunUnhookPrev, RunDelete, vars
  <2> HIDE DEF Known
  <2>6. ASSUME Queue!Accept \/ Queue!Execute \/ Queue!ExecuteAny
        PROVE [Queue!Next]_<<order, Known, raced>>
    BY <2>6 DEF Queue!Next
  <2> QED
    BY <1>2, <2>1, <2>2, <2>3, <2>4, <2>5, <2>6 DEF Next, Run, RequestQuery
<1> QED
  BY <1>1, <1>2, ShapeAlways, Invariance, PTL DEF Spec, QueueSpec, Queue!Spec, Known
=============================================================================
