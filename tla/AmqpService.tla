---------------------------- MODULE AmqpService ----------------------------
(***************************************************************************)
(* The skeleton of every service (shared/cpp/messaging): one libevent loop *)
(* that drives the AMQP connection, the signal handlers and an optional    *)
(* timer.  A step is one callback of that loop, run to completion; a C++   *)
(* function is an operator from the service's state to its next state, so  *)
(* that nested calls compose as they do in the code.  Definitions named    *)
(* F_without... or F_with... are broken variants of F: each shows that a   *)
(* property of this module can fail.                                       *)
(*                                                                         *)
(* The broker, the network and AMQP-CPP decide only when and in which      *)
(* order callbacks come: an opened link may become ready or fail, one      *)
(* failure may be reported any number of times (connection error, channel  *)
(* error, connection lost), and a broker may never answer a close.         *)
(***************************************************************************)
EXTENDS Naturals

CONSTANTS
  MaxReconnectAttempts,   \* RABBITMQ_MAX_RECONNECT_ATTEMPTS
  UintMax,                \* largest uint32_t: reconnect_attempts wraps after it
  Timer,                  \* the timer the subclass arms in OnChannelReady
  MaxPendingTicks         \* bound: one-off ticks queued at once

ASSUME ConfigAssumption ==
  /\ UintMax \in Nat \ {0}
  /\ MaxReconnectAttempts \in 0..UintMax
  /\ Timer \in {"none", "deferred", "immediate"}
  /\ MaxPendingTicks \in Nat

VARIABLES
  svc,          \* the members of AmqpService and what libevent holds for it
  link,         \* state of *connection_; "none" is a null pointer
  handshake,    \* the channel of the link may still report onReady
  lost_links    \* history: links that failed since one was last usable

vars == <<svc, link, handshake, lost_links>>

Services == [
  channel_ready : BOOLEAN,
  shutting_down : BOOLEAN,
  reconnect_scheduled : BOOLEAN,
  reconnect_attempts : 0..UintMax,
  timer_armed : BOOLEAN,
  exit_code : {0, 1},
  reconnects : Nat,       \* OnReconnectTrampoline events pending
  ticks : Nat,            \* immediate OnTimerTrampoline events pending
  forced_exits : Nat,     \* OnForcedExitTrampoline events pending
  loop : {"idle", "running", "exiting", "exited"} ]

\* "faulted": some failure has been reported; the socket may be open or not.
Links == {"none", "up", "closing", "faulted", "detached"}

TypeOK ==
  /\ svc \in Services
  /\ link \in Links
  /\ handshake \in BOOLEAN
  /\ lost_links \in 0..(MaxReconnectAttempts + 1)

Dispatching == svc.loop \in {"running", "exiting"}

-----------------------------------------------------------------------------
(* The functions of amqp_service.cpp                                       *)

Increment_withoutWrap(n) == n + 1

Increment(n) == (n + 1) % (UintMax + 1)

\* event_base_loopexit: the loop still runs what is due, then returns.
Loopexit(s) == [s EXCEPT !.loop = "exiting"]

StartTimer_withoutEvent(s) ==
  [s EXCEPT !.ticks = IF Timer = "immediate" THEN @ + 1 ELSE @]

StartTimer_withoutTick(s) == [s EXCEPT !.timer_armed = TRUE]

StartTimer(s) ==
  [s EXCEPT !.timer_armed = TRUE,
            !.ticks = IF Timer = "immediate" THEN @ + 1 ELSE @]

StopTimer(s) == [s EXCEPT !.timer_armed = FALSE]

OnChannelReady(s) == IF Timer = "none" THEN s ELSE StartTimer(s)

HandleConnectionReady_withoutReset(s) ==
  OnChannelReady([s EXCEPT !.channel_ready = TRUE])

HandleConnectionReady(s) ==
  OnChannelReady([s EXCEPT !.channel_ready = TRUE, !.reconnect_attempts = 0])

Exhausted_withOffByOne(attempts) == attempts >= MaxReconnectAttempts

Exhausted(attempts) == attempts > MaxReconnectAttempts

ScheduleReconnect_withoutFlagCheck(s) ==
  LET attempts == Increment(s.reconnect_attempts)
  IN  IF Exhausted(attempts)
        THEN Loopexit(StopTimer([s EXCEPT !.exit_code = 1,
                                          !.shutting_down = TRUE]))
        ELSE [s EXCEPT !.reconnect_attempts = attempts,
                       !.reconnect_scheduled = TRUE,
                       !.reconnects = @ + 1]

ScheduleReconnect(s) ==
  LET attempts == Increment(s.reconnect_attempts)
      counted  == [s EXCEPT !.reconnect_attempts = attempts]
  IN  IF s.reconnect_scheduled
        THEN s
      ELSE IF Exhausted(attempts)
        THEN Loopexit(StopTimer([counted EXCEPT !.exit_code = 1,
                                                !.shutting_down = TRUE]))
        ELSE [counted EXCEPT !.reconnect_scheduled = TRUE,
                             !.reconnects = @ + 1]

HandleConnectionFailure_withoutShutdownCheck(s) ==
  ScheduleReconnect(StopTimer([s EXCEPT !.channel_ready = FALSE]))

HandleConnectionFailure_withEarlyReturn(s) ==
  IF s.shutting_down \/ ~s.channel_ready
    THEN s
    ELSE ScheduleReconnect(StopTimer([s EXCEPT !.channel_ready = FALSE]))

HandleConnectionFailure(s) ==
  LET down == [s EXCEPT !.channel_ready = FALSE]
  IN  IF s.shutting_down
        THEN s
        ELSE ScheduleReconnect(IF s.channel_ready THEN StopTimer(down) ELSE down)

HandleDetached(s) == IF s.shutting_down THEN Loopexit(s) ELSE s

BeginStop_withoutStopTimer(s) ==
  [s EXCEPT !.shutting_down = TRUE, !.exit_code = 0, !.channel_ready = FALSE]

\* Stop up to the branch on connection_.
BeginStop(s) ==
  StopTimer([s EXCEPT !.shutting_down = TRUE,
                      !.exit_code = 0,
                      !.channel_ready = FALSE])

QueueForcedExit_withoutEvent(s) == s

QueueForcedExit(s) == [s EXCEPT !.forced_exits = @ + 1]

CountLostLink ==
  lost_links' = IF lost_links > MaxReconnectAttempts THEN lost_links
                                                     ELSE lost_links + 1

\* The TcpConnection constructor may throw; then both pointers stay null.
Connect(s) ==
  LET opening == [s EXCEPT !.channel_ready = FALSE]
  IN  \/ /\ svc' = opening
         /\ link' = "up"
         /\ handshake' = TRUE
         /\ UNCHANGED lost_links
      \/ /\ svc' = HandleConnectionFailure(opening)
         /\ link' = "none"
         /\ handshake' = FALSE
         /\ CountLostLink

DoReconnect_withoutFlagReset(s) == Connect(s)

DoReconnect(s) ==
  LET due == [s EXCEPT !.reconnect_scheduled = FALSE]
  IN  \/ /\ s.shutting_down
         /\ svc' = due
         /\ UNCHANGED <<link, handshake, lost_links>>
      \/ /\ ~s.shutting_down
         /\ Connect(due)

\* close() starts the closing handshake of a live connection; on one that has
\* failed it may do nothing.  The forced exit is queued in every case.
Stop ==
  /\ ~svc.shutting_down
  /\ \/ /\ link = "none"
        /\ svc' = Loopexit(BeginStop(svc))
        /\ UNCHANGED link
     \/ /\ link # "none"
        /\ svc' = QueueForcedExit(BeginStop(svc))
        /\ \/ link \in {"up", "faulted"} /\ link' = "closing"
           \/ link \in {"faulted", "detached"} /\ UNCHANGED link

-----------------------------------------------------------------------------
(* The callbacks of the event loop                                         *)

Init ==
  /\ svc = [channel_ready |-> FALSE, shutting_down |-> FALSE,
            reconnect_scheduled |-> FALSE, reconnect_attempts |-> 0,
            timer_armed |-> FALSE, exit_code |-> 0,
            reconnects |-> 0, ticks |-> 0, forced_exits |-> 0,
            loop |-> "idle"]
  /\ link = "none"
  /\ handshake = FALSE
  /\ lost_links = 0

Run ==
  /\ svc.loop = "idle"
  /\ Connect([svc EXCEPT !.loop = "running"])

\* channel_->onReady.  It may still come for a connection that is closing:
\* close() queues behind a handshake that is under way.
ChannelOpens ==
  /\ Dispatching
  /\ handshake
  /\ svc.ticks < MaxPendingTicks
  /\ svc' = HandleConnectionReady(svc)
  /\ handshake' = FALSE
  /\ lost_links' = IF svc.shutting_down THEN lost_links ELSE 0
  /\ UNCHANGED link

\* Handler::onError, Handler::onLost or channel_->onError.
FailureNotice ==
  /\ Dispatching
  /\ link \in {"up", "closing", "faulted"}
  /\ svc' = HandleConnectionFailure(svc)
  /\ link' = "faulted"
  /\ handshake' = FALSE
  /\ IF link = "up" THEN CountLostLink ELSE UNCHANGED lost_links

\* Handler::onClosed or Handler::onDetached.
Detached ==
  /\ Dispatching
  /\ link \in {"closing", "faulted"}
  /\ svc' = HandleDetached(svc)
  /\ link' = "detached"
  /\ handshake' = FALSE
  /\ UNCHANGED lost_links

Signal ==
  /\ Dispatching
  /\ Stop
  /\ UNCHANGED <<handshake, lost_links>>

ReconnectFires ==
  /\ Dispatching
  /\ svc.reconnects > 0
  /\ DoReconnect([svc EXCEPT !.reconnects = @ - 1])

\* What the subclass does on a tick is its own module's business.
ImmediateTick ==
  /\ Dispatching
  /\ svc.ticks > 0
  /\ svc' = [svc EXCEPT !.ticks = @ - 1]
  /\ UNCHANGED <<link, handshake, lost_links>>

ForcedExit ==
  /\ Dispatching
  /\ svc.forced_exits > 0
  /\ svc' = Loopexit([svc EXCEPT !.forced_exits = @ - 1])
  /\ UNCHANGED <<link, handshake, lost_links>>

\* event_base_dispatch returns and Run returns exit_code_.
LoopReturns ==
  /\ svc.loop = "exiting"
  /\ svc' = [svc EXCEPT !.loop = "exited"]
  /\ UNCHANGED <<link, handshake, lost_links>>

Next ==
  \/ Run
  \/ ChannelOpens
  \/ FailureNotice
  \/ Detached
  \/ Signal
  \/ ReconnectFires
  \/ ImmediateTick
  \/ ForcedExit
  \/ LoopReturns

Spec == Init /\ [][Next]_vars

\* The loop runs every event that stays due.  Of the broker only this much is
\* assumed: a handshake it has begun succeeds or fails.  It need not answer a
\* close, and no link has to come up.
HandshakeEnds == link = "up" /\ handshake /\ (ChannelOpens \/ FailureNotice)

Fairness ==
  /\ WF_vars(Run)
  /\ WF_vars(ReconnectFires)
  /\ WF_vars(ImmediateTick)
  /\ WF_vars(ForcedExit)
  /\ WF_vars(LoopReturns)
  /\ WF_vars(HandshakeEnds)

FairSpec == Spec /\ Fairness

-----------------------------------------------------------------------------
(* Properties                                                              *)

\* However often one failure is reported, exactly one reconnect event is
\* queued while the flag is up, and none otherwise (amqp_service.hpp:132-134).
OneReconnectPending ==
  svc.reconnects = IF svc.reconnect_scheduled THEN 1 ELSE 0

\* A running service without a channel always has something that will move it
\* on: a live link whose handshake is under way, or a queued reconnect.
NeverStranded ==
  svc.loop # "idle" /\ ~svc.shutting_down /\ ~svc.channel_ready
    => (link = "up" /\ handshake) \/ svc.reconnects > 0

\* The periodic timer runs exactly while the channel is usable: no tick between
\* a lost link and the next OnChannelReady, and none is forgotten after it.
TimerFollowsChannel ==
  svc.timer_armed <=> svc.channel_ready /\ Timer # "none"

\* A lost link costs one attempt, whether one or three callbacks report it and
\* whether the constructor or the network loses it.
OneAttemptPerLostLink ==
  ~svc.shutting_down => svc.reconnect_attempts = lost_links

\* With the largest limit the counter cannot pass it: it wraps to 0 and the
\* process keeps trying for ever.
NeverGivesUp == svc.exit_code = 0

\* The first verdict stands: neither a signal after giving up nor a failure
\* after a signal changes the exit code, and no callback revives the service.
VerdictIsFinal ==
  [][svc.shutting_down => /\ svc'.shutting_down
                          /\ svc'.exit_code = svc.exit_code]_vars

\* Once shutting down the process exits, even if the broker never confirms
\* the close.
ShutdownCompletes == svc.shutting_down ~> svc.loop = "exited"

\* No outage is left unresolved: the channel comes back or the process exits
\* for the orchestrator to restart it (amqp_service.hpp:21-25).
OutageResolves == ~svc.channel_ready ~> svc.channel_ready \/ svc.loop = "exited"

-----------------------------------------------------------------------------
(* The abstract life cycle this implements                                 *)

Phase ==
  IF svc.loop = "exited" THEN "exited"
  ELSE IF svc.shutting_down THEN "stopping"
  ELSE IF svc.channel_ready THEN "serving"
  ELSE IF svc.reconnects > 0 THEN "waiting"
  ELSE "connecting"

Lifecycle ==
  INSTANCE Lifecycle WITH Budget <- MaxReconnectAttempts,
                          phase <- Phase, lost <- lost_links,
                          code <- svc.exit_code

\* Seen from outside, the event loop is the five-phase life cycle: it neither
\* retries more often than its budget nor gives up before it is spent.
ImplementsLifecycle == Lifecycle!Spec
=============================================================================
