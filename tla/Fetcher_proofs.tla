--------------------------- MODULE Fetcher_proofs ---------------------------
(***************************************************************************)
(* Proofs about the fetcher for every limit and bound: it is an            *)
(* AmqpService, so that whatever is proved of the event loop holds of it,  *)
(* and it never publishes ahead of its queue's declaration.                *)
(***************************************************************************)
EXTENDS Fetcher, AmqpService_proofs

LEMMA ServiceStep == [FetcherNext]_fetcherVars => [Next]_vars
BY DEF FetcherNext, FirstTick, TimerTick, BeginFetching, Callback, BrokerReads,
       fetcherVars, Next, vars

\* Downloads and pages never interfere with the event loop: the fetcher takes
\* only steps of AmqpService, and all its theorems hold of the fetcher.
THEOREM FetcherIsAService == FetcherSpec => Spec
<1>1. FetcherInit => Init
  BY DEF FetcherInit
<1>2. QED
  BY <1>1, ServiceStep, PTL DEF FetcherSpec, Spec

\* OnTick keeps the fetcher's own variables in their types.
LEMMA TickType ==
  ASSUME FetcherTypeOK, OnTick
  PROVE  /\ outbox' \in 0..MaxOutbox
         /\ overdue' \in BOOLEAN /\ unfetched' \in BOOLEAN /\ aborted' \in BOOLEAN
         /\ failures' \in 0..MaxFailures
<1>1. /\ \E response \in Responses : aborted' = (response = "other bytes")
      /\ overdue' = (overdue \/ outbox' = outbox)
      /\ unfetched' = FALSE
  BY DEF OnTick
<1>2. /\ outbox < MaxOutbox
      /\ outbox' = outbox \/ outbox' = outbox + 1
      /\ \/ failures < MaxFailures /\ failures' = failures + 1
         \/ failures' = failures
  BY DEF OnTick, PublishTo
<1>3. outbox \in 0..MaxOutbox /\ failures \in 0..MaxFailures
  BY DEF FetcherTypeOK
<1>4. outbox' \in 0..MaxOutbox /\ failures' \in 0..MaxFailures
  BY <1>2, <1>3, FetcherAssumption
<1>5. QED
  BY <1>1, <1>4

\* Every variable of the fetcher keeps its type.
THEOREM FetcherTypeCorrect == FetcherSpec => []FetcherTypeOK
<1>1. FetcherInit /\ TypeOK => FetcherTypeOK
  <2>1. 0 \in 0..MaxOutbox /\ 0 \in 0..MaxFailures
    BY FetcherAssumption
  <2>2. QED
    BY <2>1 DEF FetcherInit, FetcherTypeOK
<1>2. FetcherTypeOK /\ TypeOK' /\ [FetcherNext]_fetcherVars => FetcherTypeOK'
  <2> SUFFICES ASSUME FetcherTypeOK, TypeOK', [FetcherNext]_fetcherVars
               PROVE  FetcherTypeOK'
    OBVIOUS
  <2>1. outbox \in 0..MaxOutbox /\ 0 \in 0..MaxOutbox
    BY FetcherAssumption DEF FetcherTypeOK
  <2>2. CASE FirstTick \/ TimerTick
    BY <2>2, TickType DEF FirstTick, TimerTick, FetcherTypeOK
  <2>3. CASE BeginFetching
    BY <2>3 DEF BeginFetching, FetcherTypeOK
  <2>4. CASE Callback
    BY <2>1, <2>4 DEF Callback, FetcherTypeOK
  <2>5. CASE BrokerReads
    <3>1. outbox > 0 /\ outbox' = outbox - 1
      BY <2>5 DEF BrokerReads
    <3>2. outbox' \in 0..MaxOutbox
      BY <2>1, <3>1, FetcherAssumption
    <3>3. QED
      BY <2>5, <3>2 DEF BrokerReads, FetcherTypeOK
  <2>6. CASE UNCHANGED fetcherVars
    BY <2>6 DEF fetcherVars, FetcherTypeOK
  <2>7. QED
    BY <2>2, <2>3, <2>4, <2>5, <2>6 DEF FetcherNext
<1>3. FetcherSpec => []TypeOK
  BY FetcherIsAService, TypeCorrect, PTL
<1>4. QED
  BY <1>1, <1>2, <1>3, PTL DEF FetcherSpec

\* A usable channel on a live link has declared its queue.
LEMMA ReadyIsDeclared ==
  ASSUME IInv, Dispatching, svc.channel_ready, link = "up"
  PROVE  ~handshake
BY DEF IInv, Dispatching, Connecting, Serving, Waiting

\* A connection is only replaced when nothing can wait on it.
LEMMA NewLinkIsEmpty ==
  ASSUME FetcherTypeOK, IInv, PagesAreRouted, outbox # 0,
         Run \/ ReconnectFires
  PROVE  UNCHANGED <<link, handshake>>
<1>1. link \in {"up", "closing"}
  BY DEF FetcherTypeOK, PagesAreRouted
<1>2. ~Run
  BY <1>1 DEF Run, IInv, Fresh
<1>3. svc \in Services
  BY DEF FetcherTypeOK, TypeOK
<1>4. CASE ReconnectFires
  <2>1. svc.reconnect_scheduled
    BY <1>4, <1>3 DEF ReconnectFires, IInv, OneReconnectPending
  <2>2. svc.shutting_down
    BY <1>1, <1>4, <2>1 DEF IInv, Connecting, Serving, Waiting, ReconnectFires,
                            Dispatching
  <2>3. QED
    BY <1>3, <1>4, <2>2 DEF ReconnectFires, DoReconnect, Services
<1>5. QED
  BY <1>2, <1>4

\* PagesAreRouted is inductive relative to the invariant of the event loop.
LEMMA RoutedStep ==
  FetcherTypeOK /\ IInv /\ PagesAreRouted /\ [FetcherNext]_fetcherVars
    => PagesAreRouted'
<1> SUFFICES ASSUME FetcherTypeOK, IInv, PagesAreRouted,
                    [FetcherNext]_fetcherVars
             PROVE  PagesAreRouted'
  OBVIOUS
<1>1. CASE FirstTick \/ TimerTick
  <2>1. OnTick /\ Dispatching /\ UNCHANGED <<link, handshake>>
    BY <1>1 DEF FirstTick, TimerTick, ImmediateTick, vars
  <2>2. CASE svc.channel_ready /\ link = "up"
    BY <2>1, <2>2, ReadyIsDeclared DEF PagesAreRouted
  <2>3. CASE ~(svc.channel_ready /\ link = "up")
    BY <2>1, <2>3 DEF OnTick, PublishTo, Takes, PagesAreRouted
  <2>4. QED
    BY <2>2, <2>3
<1>2. CASE BeginFetching
  BY <1>2 DEF BeginFetching, ChannelOpens, PagesAreRouted
<1>3. CASE Callback
  <2>1. CASE FailureNotice \/ Detached
    BY <1>3, <2>1 DEF Callback, FailureNotice, Detached, PagesAreRouted
  <2>2. CASE Signal
    BY <1>3, <2>2 DEF Callback, Signal, Stop, PagesAreRouted
  <2>3. CASE ForcedExit \/ LoopReturns
    BY <1>3, <2>3 DEF Callback, ForcedExit, LoopReturns, PagesAreRouted
  <2>4. CASE Run \/ ReconnectFires
    <3>1. CASE outbox = 0
      BY <1>3, <3>1 DEF Callback, PagesAreRouted
    <3>2. CASE outbox # 0
      BY <1>3, <2>4, <3>2, NewLinkIsEmpty DEF Callback, PagesAreRouted
    <3>3. QED
      BY <3>1, <3>2
  <2>5. QED
    BY <1>3, <2>1, <2>2, <2>3, <2>4 DEF Callback
<1>4. CASE BrokerReads
  BY <1>4 DEF BrokerReads, vars, PagesAreRouted, FetcherTypeOK
<1>5. CASE UNCHANGED fetcherVars
  BY <1>5 DEF fetcherVars, vars, PagesAreRouted
<1>6. QED
  BY <1>1, <1>2, <1>3, <1>4, <1>5 DEF FetcherNext

\* No tick, however late it fires, publishes on a channel that has not
\* declared its queue or has failed.
THEOREM PagesRouted == FetcherSpec => []PagesAreRouted
<1>1. FetcherInit => PagesAreRouted
  BY DEF FetcherInit, PagesAreRouted
<1>2. FetcherSpec => []IInv
  BY FetcherIsAService, IInvAlways, PTL
<1>3. QED
  BY <1>1, <1>2, FetcherTypeCorrect, RoutedStep, PTL DEF FetcherSpec
=============================================================================
