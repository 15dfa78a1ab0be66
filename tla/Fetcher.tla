------------------------------ MODULE Fetcher ------------------------------
(***************************************************************************)
(* The fetcher: an AmqpService that downloads the listing page as soon as  *)
(* a channel is ready and then on every tick of its timer, and publishes   *)
(* what it got.                                                            *)
(*                                                                         *)
(* A tick is one callback: nothing else runs while libcurl downloads.  A   *)
(* page that was published waits on the connection until the broker reads  *)
(* it, and is lost with the connection: there are no publisher confirms.   *)
(* The immediate tick is a one-off event of the loop and may fire when the *)
(* channel it was meant for is gone, or replaced.                          *)
(*                                                                         *)
(* Definitions named F_without... are broken variants of F.                *)
(***************************************************************************)
EXTENDS AmqpService

CONSTANTS
  MaxFailures,      \* bound: downloads that fail
  MaxOutbox         \* bound: pages waiting on the connection

ASSUME FetcherAssumption ==
  /\ Timer = "immediate"
  /\ MaxFailures \in Nat
  /\ MaxOutbox \in Nat

VARIABLES
  outbox,           \* pages published and not read by the broker
  overdue,          \* a page was lost or not got, and none has arrived since
  unfetched,        \* a channel became ready and no tick has come since
  aborted,          \* an exception left OnTick, through libevent's C frames
  failures          \* downloads that failed

fetcherVars == <<vars, outbox, overdue, unfetched, aborted, failures>>

FetcherTypeOK ==
  /\ TypeOK
  /\ outbox \in 0..MaxOutbox
  /\ overdue \in BOOLEAN /\ unfetched \in BOOLEAN /\ aborted \in BOOLEAN
  /\ failures \in 0..MaxFailures

FetcherInit ==
  /\ Init
  /\ outbox = 0 /\ overdue = FALSE /\ unfetched = FALSE /\ aborted = FALSE
  /\ failures = 0

-----------------------------------------------------------------------------
\* AMQP-CPP takes no frame for a connection that has failed or is closing.
Takes == link = "up"

PublishTo_withoutCheck == IF Takes THEN outbox + 1 ELSE outbox

\* The pages on the connection after a call of Publish.
PublishTo == IF svc.channel_ready /\ Takes THEN outbox + 1 ELSE outbox

\* HttpClient::Get answers ok with a body, or with an error: a failed
\* transfer, the timeout, or a status other than 2xx.
Responses == {"text", "other bytes", "error"}

\* dump() throws on a body that is not UTF-8.
OnTick ==
  /\ outbox < MaxOutbox
  /\ unfetched' = FALSE
  /\ \E response \in Responses :
       /\ aborted' = (response = "other bytes")
       /\ outbox' = IF response = "text" THEN PublishTo ELSE outbox
       /\ overdue' = (overdue \/ outbox' = outbox)
       /\ IF response = "error"
            THEN failures < MaxFailures /\ failures' = failures + 1
            ELSE UNCHANGED failures

FirstTick ==
  /\ ~aborted
  /\ ImmediateTick
  /\ OnTick

\* The armed timer is persistent: it fires again after every interval.
TimerTick ==
  /\ ~aborted
  /\ Dispatching
  /\ svc.timer_armed
  /\ OnTick
  /\ UNCHANGED vars

\* OnChannelReady declares the queue and starts the timer.
BeginFetching ==
  /\ ~aborted
  /\ ChannelOpens
  /\ unfetched' = TRUE
  /\ UNCHANGED <<outbox, overdue, aborted, failures>>

\* The other callbacks are AmqpService's own.  A connection that is closed
\* still sends what waits on it; one that fails does not.
Callback ==
  /\ ~aborted
  /\ \/ Run
     \/ FailureNotice
     \/ Detached
     \/ Signal
     \/ ReconnectFires
     \/ ForcedExit
     \/ LoopReturns
  /\ IF link' \in {"up", "closing"}
       THEN UNCHANGED <<outbox, overdue>>
       ELSE outbox' = 0 /\ overdue' = (overdue \/ outbox > 0)
  /\ UNCHANGED <<unfetched, aborted, failures>>

\* A page reaches the queue raw_articles.
BrokerReads ==
  /\ link \in {"up", "closing"}
  /\ outbox > 0
  /\ outbox' = outbox - 1
  /\ overdue' = FALSE
  /\ UNCHANGED <<vars, unfetched, aborted, failures>>

FetcherNext ==
  \/ FirstTick
  \/ TimerTick
  \/ BeginFetching
  \/ Callback
  \/ BrokerReads

FetcherSpec == FetcherInit /\ [][FetcherNext]_fetcherVars

\* AmqpService's fairness; the timer fires while it is armed, and what waits
\* on a live connection is read.
SetupEnds ==
  /\ link = "up"
  /\ handshake
  /\ BeginFetching \/ (Callback /\ FailureNotice)

FetcherFairness ==
  /\ WF_fetcherVars(Callback /\ Run)
  /\ WF_fetcherVars(Callback /\ ReconnectFires)
  /\ WF_fetcherVars(Callback /\ ForcedExit)
  /\ WF_fetcherVars(Callback /\ LoopReturns)
  /\ WF_fetcherVars(SetupEnds)
  /\ WF_fetcherVars(FirstTick)
  /\ WF_fetcherVars(TimerTick)
  /\ WF_fetcherVars(BrokerReads)

FetcherFairSpec == FetcherSpec /\ FetcherFairness

-----------------------------------------------------------------------------
(* Properties                                                              *)

\* A page is only ever handed to a channel that has declared its queue and has
\* not failed, also by a tick that was queued for an earlier channel: before
\* the declaration the default exchange may have no queue to route it to.
PagesAreRouted ==
  outbox > 0 => link \in {"up", "closing"} /\ ~handshake

\* However short a channel lives, even shorter than the interval, a download
\* follows its coming up (amqp_service.cpp:379-382), unless the process ends.
EveryChannelFetches ==
  unfetched ~> ~unfetched \/ svc.loop = "exited" \/ aborted

\* A failed download, a rejected page or one that went down with its
\* connection is made good by a later tick, once a link lasts and the site
\* answers.
LossIsRepaired ==
  <>[](link = "up") => (overdue ~> ~overdue \/ aborted)
=============================================================================
