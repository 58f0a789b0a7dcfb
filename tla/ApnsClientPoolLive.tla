------------------------- MODULE ApnsClientPoolLive -------------------------
(***************************************************************************)
(* Progress of the APNs client pool: while sessions go on publishing and   *)
(* the network has calmed down, the send list keeps moving.                *)
(***************************************************************************)
EXTENDS ApnsClientPool

\* The send list of the code has no limit. Once it has reached MaxList the
\* instance leaves a further message out and keeps only its wake-up, so that
\* a list that does not move cannot silence the sessions.
PushBeyondBound(s) ==
  /\ pc[s] = "idle"
  /\ Len(fMsgList) >= MaxList
  /\ ~ ListIsLocked
  /\ writeEv' = TRUE
  /\ UNCHANGED <<fMsgList, status, sock, timer, task, disarmed>>
  /\ UNCHANGED sessionVars
  /\ UNCHANGED poolVars

LiveNext == Next \/ \E s \in Sessions : PushBeyondBound(s)

\* The base class believes in a connection that its socket no longer has.
Stale == status["advance"] = "online" /\ sock["advance"] \in {"bare", "ready"}

\* A task with pending events is scheduled, a handler, a blocking connect and a
\* publish come to an end. The inactivity timer of a connection on which nothing
\* is sent expires, and its event stays pending until the task has time for it,
\* however often other events keep it busy: hence SF. Nothing is assumed of
\* peers, the feedback timer or the LCS.
Fairness ==
  /\ \A s \in Sessions : WF_vars(Publish(s) \/ PushBeyondBound(s))
  /\ WF_vars(AdvanceTask)
  /\ WF_vars(ClientTask("advance"))
  /\ WF_vars(RunLcs \/ RunConnect \/ RunTimeout)
  /\ \A c \in Queued : WF_vars(ConnectQueueStep(c))
  /\ WF_vars(FeedbackConnects \/ FeedbackFails)
  /\ SF_vars(Stale /\ OnTimeout("advance"))

FairSpec == Init /\ [][LiveNext]_vars /\ Fairness

PoolMeddles == pool.at = "advance" \/ status["advance"] = "online"

\* What a calm network no longer does to the advance client: its peer closes, a
\* connection attempt or a write over a live connection fails, an error answer
\* arrives, a timer fires for a connection that lives, or the pool's task connects
\* the client between the two halves of its OnTimeout, which takes it offline
\* before it replaces the socket.
Disturbance ==
  \/ PeerCloses("advance")
  \/ ConnectFails("advance")
  \/ sock["advance"] \in Connected /\ TrySendFails
  \/ OnResponse
  \/ ~ Stale /\ OnTimeout("advance")
  \/ PoolMeddles /\ ReplaceSocket("advance")

Calm == <>[][~ Disturbance]_vars

HeadLeaves == fMsgList # <<>> /\ fMsgList' = Tail(fMsgList)

\* While sessions publish and disturbances have ceased, messages leave the
\* send list again and again: a connect request swallowed by an LCS event, a
\* failed attempt without a retry and a status that is wrongly online are all
\* made up for by the next push or by the inactivity timer. The one exception is
\* a client whose timer was switched off after it had been put online (Offline
\* beside Online), which may wait for ever.
SendListMoves == Calm => []<><<HeadLeaves>>_vars \/ <>[]disarmed
=============================================================================
