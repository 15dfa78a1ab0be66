------------------------- MODULE AmqpService_proofs -------------------------
(***************************************************************************)
(* Proofs about the event loop for every limit, every timer and every      *)
(* integer width: type correctness, the invariants of the reconnect logic, *)
(* the finality of the exit verdict and the refinement of Lifecycle.       *)
(***************************************************************************)
EXTENDS AmqpService, TLAPS

-----------------------------------------------------------------------------
(* Type correctness                                                        *)
LEMMA IncrementType ==
  ASSUME NEW n \in 0..UintMax
  PROVE  Increment(n) \in 0..UintMax
BY ConfigAssumption DEF Increment

LEMMA ScheduleType ==
  ASSUME NEW s \in Services
  PROVE  ScheduleReconnect(s) \in Services
<1> DEFINE n == Increment(s.reconnect_attempts)
<1>1. n \in 0..UintMax /\ s.reconnects + 1 \in Nat
  BY IncrementType DEF Services
<1>2. \A a \in 0..UintMax, r \in Nat :
         [s EXCEPT !.reconnect_attempts = a, !.reconnect_scheduled = TRUE,
                   !.reconnects = r] \in Services
  BY DEF Services
<1>3. \A a \in 0..UintMax :
         Loopexit(StopTimer([s EXCEPT !.reconnect_attempts = a,
                                      !.exit_code = 1,
                                      !.shutting_down = TRUE])) \in Services
  BY DEF Services, Loopexit, StopTimer
<1>4. QED
  BY <1>1, <1>2, <1>3 DEF ScheduleReconnect
LEMMA FailureType ==
  ASSUME NEW s \in Services
  PROVE  HandleConnectionFailure(s) \in Services
<1> DEFINE down == [s EXCEPT !.channel_ready = FALSE]
<1>1. down \in Services /\ StopTimer(down) \in Services
  BY DEF Services, StopTimer
<1>2. QED
  BY <1>1, ScheduleType DEF HandleConnectionFailure

LEMMA ReadyType ==
  ASSUME NEW s \in Services
  PROVE  HandleConnectionReady(s) \in Services
<1> DEFINE r == [s EXCEPT !.channel_ready = TRUE, !.reconnect_attempts = 0]
<1>0. 0 \in 0..UintMax
  BY ConfigAssumption
<1>1. r \in Services
  BY <1>0 DEF Services
<1>2. r.ticks \in Nat /\ r.ticks + 1 \in Nat
  BY <1>1 DEF Services
<1>3. \A k \in Nat : [r EXCEPT !.timer_armed = TRUE, !.ticks = k] \in Services
  BY <1>1 DEF Services
<1>4. QED
  BY <1>1, <1>2, <1>3
  DEF HandleConnectionReady, OnChannelReady, StartTimer
LEMMA StopType ==
  ASSUME NEW s \in Services
  PROVE  /\ Loopexit(BeginStop(s)) \in Services
         /\ QueueForcedExit(BeginStop(s)) \in Services
<1>1. BeginStop(s) \in Services
  BY DEF Services, BeginStop, StopTimer
<1>2. BeginStop(s).forced_exits + 1 \in Nat
  BY <1>1 DEF Services
<1>3. QED
  BY <1>1, <1>2 DEF Services, Loopexit, QueueForcedExit
LEMMA PopType ==
  ASSUME NEW s \in Services
  PROVE  /\ s.reconnects > 0 => [s EXCEPT !.reconnects = @ - 1] \in Services
         /\ s.ticks > 0 => [s EXCEPT !.ticks = @ - 1] \in Services
         /\ s.forced_exits > 0 => [s EXCEPT !.forced_exits = @ - 1] \in Services
<1>1. s.reconnects > 0 => [s EXCEPT !.reconnects = @ - 1] \in Services
  BY DEF Services
<1>2. s.ticks > 0 => [s EXCEPT !.ticks = @ - 1] \in Services
  BY DEF Services
<1>3. s.forced_exits > 0 => [s EXCEPT !.forced_exits = @ - 1] \in Services
  BY DEF Services
<1>4. QED
  BY <1>1, <1>2, <1>3


LEMMA CountType ==
  ASSUME TypeOK, CountLostLink
  PROVE  lost_links' \in 0..(MaxReconnectAttempts + 1)
BY ConfigAssumption DEF TypeOK, CountLostLink

LEMMA ConnectType ==
  ASSUME TypeOK, NEW s \in Services, Connect(s)
  PROVE  TypeOK'
<1> DEFINE opening == [s EXCEPT !.channel_ready = FALSE]
<1>1. opening \in Services
  BY DEF Services
<1>2. HandleConnectionFailure(opening) \in Services
  BY <1>1, FailureType
<1>3. svc' \in Services
  BY <1>1, <1>2 DEF Connect
<1>4. lost_links' \in 0..(MaxReconnectAttempts + 1)
  BY CountType DEF Connect, TypeOK
<1>5. QED
  BY <1>3, <1>4 DEF Connect, TypeOK, Links

\* Every callback keeps the types.
LEMMA TypeStep == TypeOK /\ [Next]_vars => TypeOK'
<1> SUFFICES ASSUME TypeOK, [Next]_vars PROVE TypeOK'
  OBVIOUS
<1>s. svc \in Services
  BY DEF TypeOK
<1>1. CASE Run
  <2>1. [svc EXCEPT !.loop = "running"] \in Services
    BY <1>s DEF Services
  <2>2. QED
    BY <1>1, <2>1, ConnectType DEF Run
<1>2. CASE ChannelOpens
  <2>1. HandleConnectionReady(svc) \in Services
    BY <1>s, ReadyType
  <2>2. lost_links' \in 0..(MaxReconnectAttempts + 1)
    BY <1>2, ConfigAssumption DEF ChannelOpens, TypeOK
  <2>3. QED
    BY <1>2, <2>1, <2>2 DEF ChannelOpens, TypeOK
<1>3. CASE FailureNotice
  <2>1. HandleConnectionFailure(svc) \in Services
    BY <1>s, FailureType
  <2>2. lost_links' \in 0..(MaxReconnectAttempts + 1)
    BY <1>3, CountType DEF FailureNotice, TypeOK
  <2>3. QED
    BY <1>3, <2>1, <2>2 DEF FailureNotice, TypeOK, Links
<1>4. CASE Detached
  BY <1>4, <1>s DEF Detached, HandleDetached, Loopexit, TypeOK, Links, Services
<1>5. CASE Signal
  BY <1>5, <1>s, StopType DEF Signal, Stop, TypeOK, Links
<1>6. CASE ReconnectFires
  <2> DEFINE popped == [svc EXCEPT !.reconnects = @ - 1]
             due    == [popped EXCEPT !.reconnect_scheduled = FALSE]
  <2>1. popped \in Services
    BY <1>6, <1>s, PopType DEF ReconnectFires
  <2>2. due \in Services
    BY <2>1 DEF Services
  <2>3. DoReconnect(popped)
    BY <1>6 DEF ReconnectFires
  <2> HIDE DEF popped
  <2>4. \/ svc' = due /\ UNCHANGED <<link, handshake, lost_links>>
        \/ Connect(due)
    BY <2>3 DEF DoReconnect
  <2>5. QED
    BY <2>2, <2>4, ConnectType DEF TypeOK
<1>7. CASE ImmediateTick
  BY <1>7, <1>s, PopType DEF ImmediateTick, TypeOK
<1>8. CASE ForcedExit
  <2> DEFINE popped == [svc EXCEPT !.forced_exits = @ - 1]
  <2>1. popped \in Services
    BY <1>8, <1>s, PopType DEF ForcedExit
  <2>2. svc' = Loopexit(popped)
    BY <1>8 DEF ForcedExit
  <2> HIDE DEF popped
  <2>3. svc' \in Services
    BY <2>1, <2>2 DEF Loopexit, Services
  <2>4. QED
    BY <1>8, <2>3 DEF ForcedExit, TypeOK
<1>9. CASE LoopReturns
  BY <1>9, <1>s DEF LoopReturns, TypeOK, Services
<1>10. CASE UNCHANGED vars
  BY <1>10 DEF vars, TypeOK
<1>11. QED
  BY <1>1, <1>2, <1>3, <1>4, <1>5, <1>6, <1>7, <1>8, <1>9, <1>10 DEF Next

\* Every member keeps its type in every reachable state, with counters of any
\* width that wrap.
THEOREM TypeCorrect == Spec => []TypeOK
<1>1. Init => TypeOK
  <2> SUFFICES ASSUME Init PROVE TypeOK
    OBVIOUS
  <2>1. 0 \in 0..UintMax /\ 0 \in 0..(MaxReconnectAttempts + 1)
    BY ConfigAssumption
  <2>2. svc \in Services
    BY <2>1 DEF Init, Services
  <2>3. QED
    BY <2>1, <2>2 DEF Init, TypeOK, Links
<1>2. QED
  BY <1>1, TypeStep, PTL DEF Spec
-----------------------------------------------------------------------------
(* The inductive invariant                                                 *)

\* A running service is in one of three situations: waiting for the handshake
\* of a live link, serving on it, or with a dead link and a reconnect queued.
Connecting == link = "up" /\ handshake /\ ~svc.channel_ready /\ ~svc.reconnect_scheduled
Serving    == link = "up" /\ ~handshake /\ svc.channel_ready /\ ~svc.reconnect_scheduled
Waiting    == /\ link \in {"none", "faulted", "detached"}
              /\ ~handshake /\ ~svc.channel_ready /\ svc.reconnect_scheduled

Fresh ==
  /\ link = "none" /\ ~handshake
  /\ ~svc.shutting_down /\ ~svc.channel_ready /\ ~svc.reconnect_scheduled
  /\ svc.exit_code = 0 /\ svc.forced_exits = 0

\* None of the properties is inductive without what ties the flags to the link
\* (Connecting, Serving, Waiting) and the loop to shutting_down.
IInv ==
  /\ svc.loop = "idle" => Fresh
  /\ svc.loop \in {"exiting", "exited"} => svc.shutting_down
  /\ svc.forced_exits > 0 => svc.shutting_down
  /\ link = "closing" => svc.shutting_down
  /\ svc.shutting_down => link # "up"
  /\ handshake => link \in {"up", "closing"}
  /\ svc.loop # "idle" /\ ~svc.shutting_down =>
       svc.exit_code = 0 /\ (Connecting \/ Serving \/ Waiting)
  /\ OneReconnectPending
  /\ TimerFollowsChannel

\* What a failure notice does: nothing more to a service that is shutting down
\* or has its reconnect queued, one of two outcomes otherwise.
Ignored(s, r) ==
  /\ r.reconnect_scheduled = s.reconnect_scheduled
  /\ r.reconnects = s.reconnects /\ r.forced_exits = s.forced_exits
  /\ r.reconnect_attempts = s.reconnect_attempts
  /\ r.shutting_down = s.shutting_down
  /\ r.exit_code = s.exit_code
  /\ r.loop = s.loop

GaveUp(s, r) ==
  /\ Exhausted(Increment(s.reconnect_attempts))
  /\ ~r.reconnect_scheduled
  /\ r.reconnects = s.reconnects
  /\ r.shutting_down
  /\ r.exit_code = 1
  /\ r.loop = "exiting"

Queued(s, r) ==
  /\ ~Exhausted(Increment(s.reconnect_attempts))
  /\ r.reconnect_scheduled
  /\ r.reconnects = s.reconnects + 1
  /\ r.forced_exits = s.forced_exits
  /\ r.reconnect_attempts = Increment(s.reconnect_attempts)
  /\ r.shutting_down = s.shutting_down
  /\ r.exit_code = s.exit_code
  /\ r.loop = s.loop

LEMMA ScheduleEffect ==
  ASSUME NEW s \in Services
  PROVE  LET r == ScheduleReconnect(s) IN
         /\ s.reconnect_scheduled => r = s
         /\ ~s.reconnect_scheduled =>
              /\ r.channel_ready = s.channel_ready
              /\ \/ GaveUp(s, r) /\ ~r.timer_armed
                 \/ Queued(s, r) /\ r.timer_armed = s.timer_armed
<1> DEFINE n == Increment(s.reconnect_attempts)
           c == [s EXCEPT !.reconnect_attempts = n]
<1>1. CASE ~s.reconnect_scheduled /\ Exhausted(n)
  <2>1. ScheduleReconnect(s) =
          [c EXCEPT !.exit_code = 1, !.shutting_down = TRUE,
                    !.timer_armed = FALSE, !.loop = "exiting"]
    BY <1>1 DEF ScheduleReconnect, Loopexit, StopTimer, Services
  <2>2. QED
    BY <1>1, <2>1 DEF GaveUp, Services
<1>2. CASE ~s.reconnect_scheduled /\ ~Exhausted(n)
  <2>1. ScheduleReconnect(s) =
          [c EXCEPT !.reconnect_scheduled = TRUE, !.reconnects = @ + 1]
    BY <1>2 DEF ScheduleReconnect
  <2>2. QED
    BY <1>2, <2>1 DEF Queued, Services
<1>3. CASE s.reconnect_scheduled
  BY <1>3 DEF ScheduleReconnect
<1>4. QED
  BY <1>1, <1>2, <1>3

LEMMA FailureEffect ==
  ASSUME NEW s \in Services, s.timer_armed => s.channel_ready
  PROVE  LET r == HandleConnectionFailure(s) IN
         /\ s.shutting_down => r = s
         /\ ~s.shutting_down =>
              /\ ~r.channel_ready
              /\ ~r.timer_armed
              /\ s.reconnect_scheduled => Ignored(s, r)
              /\ ~s.reconnect_scheduled => GaveUp(s, r) \/ Queued(s, r)
<1>1. CASE s.shutting_down
  BY <1>1 DEF HandleConnectionFailure
<1>2. CASE ~s.shutting_down
  <2> DEFINE d == IF s.channel_ready
                    THEN StopTimer([s EXCEPT !.channel_ready = FALSE])
                    ELSE [s EXCEPT !.channel_ready = FALSE]
             r == HandleConnectionFailure(s)
  <2>1. d \in Services
    BY DEF Services, StopTimer
  <2>2. ~d.channel_ready /\ ~d.timer_armed
    BY DEF Services, StopTimer
  <2>3. Ignored(s, d)
    BY DEF Services, StopTimer, Ignored
  <2>4. r = ScheduleReconnect(d)
    BY <1>2 DEF HandleConnectionFailure
  <2> HIDE DEF d, r
  <2>5. ~r.channel_ready /\ ~r.timer_armed
    BY <2>1, <2>2, <2>4, ScheduleEffect
  <2>6. s.reconnect_scheduled => Ignored(s, r)
    BY <2>1, <2>3, <2>4, ScheduleEffect DEF Ignored
  <2>7. ~s.reconnect_scheduled => GaveUp(s, r) \/ Queued(s, r)
    BY <2>1, <2>3, <2>4, ScheduleEffect DEF Ignored, GaveUp, Queued
  <2>8. QED
    BY <1>2, <2>5, <2>6, <2>7 DEF r
<1>3. QED
  BY <1>1, <1>2

LEMMA ReadyEffect ==
  ASSUME NEW s \in Services
  PROVE  LET r == HandleConnectionReady(s) IN
         /\ r.channel_ready
         /\ r.timer_armed <=> s.timer_armed \/ Timer # "none"
         /\ r.reconnect_attempts = 0
         /\ r.reconnect_scheduled = s.reconnect_scheduled
         /\ r.reconnects = s.reconnects
         /\ r.shutting_down = s.shutting_down
         /\ r.exit_code = s.exit_code
         /\ r.loop = s.loop /\ r.forced_exits = s.forced_exits
BY DEF HandleConnectionReady, OnChannelReady, StartTimer, Services

LEMMA StopEffect ==
  ASSUME NEW s \in Services, NEW r,
         r = Loopexit(BeginStop(s)) \/ r = QueueForcedExit(BeginStop(s))
  PROVE  /\ r.shutting_down
         /\ ~r.channel_ready
         /\ ~r.timer_armed
         /\ r.exit_code = 0
         /\ r.reconnect_scheduled = s.reconnect_scheduled
         /\ r.reconnects = s.reconnects
         /\ r.loop \in {s.loop, "exiting"}
<1>1. BeginStop(s) \in Services
  BY DEF Services, BeginStop, StopTimer
<1>2. /\ BeginStop(s).shutting_down
      /\ ~BeginStop(s).channel_ready
      /\ ~BeginStop(s).timer_armed
      /\ BeginStop(s).exit_code = 0
      /\ BeginStop(s).reconnect_scheduled = s.reconnect_scheduled
      /\ BeginStop(s).reconnects = s.reconnects
      /\ BeginStop(s).loop = s.loop
  BY DEF Services, BeginStop, StopTimer
<1>3. QED
  BY <1>1, <1>2 DEF Loopexit, QueueForcedExit, Services

\* A connection attempt made while nothing is queued ends with a handshake
\* under way, a reconnect queued, or the service giving up.
LEMMA ConnectEffect ==
  ASSUME NEW s \in Services, Connect(s),
         s.loop = "running", ~s.shutting_down, s.exit_code = 0,
         ~s.timer_armed, ~s.reconnect_scheduled, s.reconnects = 0,
         ~(s.forced_exits > 0)
  PROVE  /\ svc' \in Services
         /\ ~svc'.channel_ready
         /\ ~svc'.timer_armed
         /\ svc'.reconnects = IF svc'.reconnect_scheduled THEN 1 ELSE 0
         /\ \/ /\ link' = "up" /\ handshake'
               /\ ~svc'.reconnect_scheduled /\ ~svc'.shutting_down
               /\ svc'.exit_code = 0 /\ svc'.loop = "running"
               /\ ~(svc'.forced_exits > 0)
               /\ svc'.reconnect_attempts = s.reconnect_attempts
               /\ UNCHANGED lost_links
            \/ /\ link' = "none" /\ ~handshake'
               /\ CountLostLink
               /\ LET o == [s EXCEPT !.channel_ready = FALSE] IN
                  \/ GaveUp(o, svc')
                  \/ Queued(o, svc') /\ ~svc'.shutting_down
                                     /\ svc'.exit_code = 0
                                     /\ svc'.loop = "running"
                                     /\ ~(svc'.forced_exits > 0)
<1> DEFINE o == [s EXCEPT !.channel_ready = FALSE]
           r == HandleConnectionFailure(o)
<1>1. o \in Services
  BY DEF Services
<1>2. /\ o.loop = "running" /\ ~o.shutting_down /\ o.exit_code = 0
      /\ ~o.timer_armed /\ ~o.reconnect_scheduled /\ o.reconnects = 0
      /\ ~o.channel_ready /\ ~(o.forced_exits > 0)
      /\ o.reconnect_attempts = s.reconnect_attempts
  BY DEF Services
<1>3. /\ r \in Services /\ ~r.channel_ready /\ ~r.timer_armed
      /\ GaveUp(o, r) \/ Queued(o, r)
  BY <1>1, <1>2, FailureEffect, FailureType
<1>4. \/ svc' = o /\ link' = "up" /\ handshake' = TRUE /\ UNCHANGED lost_links
      \/ svc' = r /\ link' = "none" /\ handshake' = FALSE /\ CountLostLink
  BY DEF Connect
<1> HIDE DEF o, r
<1>5. CASE svc' = o /\ link' = "up" /\ handshake' = TRUE /\ UNCHANGED lost_links
  BY <1>1, <1>2, <1>5
<1>6. CASE svc' = r /\ link' = "none" /\ handshake' = FALSE /\ CountLostLink
  BY <1>2, <1>3, <1>6 DEF GaveUp, Queued, o
<1>7. QED
  BY <1>4, <1>5, <1>6

LEMMA IInvStep == TypeOK /\ IInv /\ [Next]_vars => IInv'
<1> SUFFICES ASSUME TypeOK, IInv, [Next]_vars PROVE IInv'
  OBVIOUS
<1>s. svc \in Services
  BY DEF TypeOK
<1>t. svc.timer_armed => svc.channel_ready
  BY DEF IInv, TimerFollowsChannel
<1> USE DEF Connecting, Serving, Waiting, Fresh, OneReconnectPending,
            TimerFollowsChannel
<1>1. CASE Run
  <2> DEFINE s == [svc EXCEPT !.loop = "running"]
  <2>1. /\ s \in Services /\ s.loop = "running" /\ ~s.shutting_down
        /\ s.exit_code = 0 /\ ~s.timer_armed /\ ~s.reconnect_scheduled
        /\ s.reconnects = 0 /\ ~(s.forced_exits > 0)
    BY <1>1, <1>s DEF Run, IInv, Services
  <2>2. Connect(s)
    BY <1>1 DEF Run
  <2> HIDE DEF s
  <2>3. QED
    BY <2>1, <2>2, ConnectEffect DEF IInv, GaveUp, Queued
<1>2. CASE ChannelOpens
  <2>1. svc' = HandleConnectionReady(svc)
    BY <1>2 DEF ChannelOpens
  <2>2. QED
    BY <1>2, <2>1, <1>s, ReadyEffect DEF ChannelOpens, Dispatching, IInv
<1>3. CASE FailureNotice
  <2>1. svc' = HandleConnectionFailure(svc) /\ link' = "faulted" /\ ~handshake'
    BY <1>3 DEF FailureNotice
  <2>2. CASE svc.shutting_down
    BY <1>3, <2>1, <2>2, <1>s, <1>t, FailureEffect DEF FailureNotice, Dispatching, IInv
  <2>3. CASE ~svc.shutting_down
    BY <1>3, <2>1, <2>3, <1>s, <1>t, FailureEffect
    DEF FailureNotice, Dispatching, IInv, Ignored, GaveUp, Queued
  <2>4. QED
    BY <2>2, <2>3
<1>4. CASE Detached
  BY <1>4, <1>s DEF Detached, Dispatching, HandleDetached, Loopexit, IInv, Services
<1>5. CASE Signal
  <2>1. \/ svc' = Loopexit(BeginStop(svc))
        \/ svc' = QueueForcedExit(BeginStop(svc))
    BY <1>5 DEF Signal, Stop
  <2>2. QED
    BY <1>5, <2>1, <1>s, StopEffect DEF Signal, Stop, Dispatching, IInv
<1>6. CASE ReconnectFires
  <2> DEFINE popped == [svc EXCEPT !.reconnects = @ - 1]
             due    == [popped EXCEPT !.reconnect_scheduled = FALSE]
  <2>1. svc.reconnect_scheduled /\ svc.reconnects = 1
    BY <1>6, <1>s DEF ReconnectFires, IInv, Services
  <2>2. popped \in Services
    BY <1>6, <1>s, PopType DEF ReconnectFires
  <2>3. due \in Services
    BY <2>2 DEF Services
  <2>4. /\ due.reconnects = 0 /\ ~due.reconnect_scheduled
        /\ due.loop = svc.loop /\ due.shutting_down = svc.shutting_down
        /\ due.exit_code = svc.exit_code
        /\ due.forced_exits = svc.forced_exits
        /\ due.timer_armed = svc.timer_armed
        /\ due.channel_ready = svc.channel_ready
    BY <1>s, <2>1 DEF Services
  <2>5. \/ popped.shutting_down /\ svc' = due /\ UNCHANGED <<link, handshake>>
        \/ ~popped.shutting_down /\ Connect(due)
    BY <1>6 DEF ReconnectFires, DoReconnect
  <2>6. popped.shutting_down = svc.shutting_down
    BY <1>s DEF Services
  <2> HIDE DEF popped, due
  <2>7. CASE svc.shutting_down
    <3>1. svc' = due /\ UNCHANGED <<link, handshake>>
      BY <2>5, <2>6, <2>7
    <3>2. svc'.loop # "idle" /\ svc'.shutting_down
      BY <1>6, <2>4, <2>7, <3>1 DEF ReconnectFires, Dispatching
    <3>3. OneReconnectPending'
      BY <2>4, <3>1
    <3>4. TimerFollowsChannel'
      BY <2>4, <3>1 DEF IInv
    <3>5. QED
      BY <2>7, <3>1, <3>2, <3>3, <3>4 DEF IInv
  <2>8. CASE ~svc.shutting_down
    <3>1. ~svc.channel_ready /\ svc.exit_code = 0 /\ svc.loop = "running"
      BY <1>6, <2>1, <2>8 DEF ReconnectFires, Dispatching, IInv
    <3>2. ~svc.timer_armed /\ ~(svc.forced_exits > 0)
      BY <2>8, <3>1, <1>t DEF IInv
    <3>3. Connect(due)
      BY <2>5, <2>6, <2>8
    <3>4. QED
      BY <2>3, <2>4, <2>8, <3>1, <3>2, <3>3, ConnectEffect
      DEF IInv, GaveUp, Queued
  <2>9. QED
    BY <2>7, <2>8
<1>7. CASE ImmediateTick
  BY <1>7, <1>s DEF ImmediateTick, IInv, Services
<1>8. CASE ForcedExit
  BY <1>8, <1>s DEF ForcedExit, Loopexit, IInv, Services
<1>9. CASE LoopReturns
  BY <1>9, <1>s DEF LoopReturns, IInv, Services
<1>10. CASE UNCHANGED vars
  BY <1>10 DEF vars, IInv
<1>11. QED
  BY <1>1, <1>2, <1>3, <1>4, <1>5, <1>6, <1>7, <1>8, <1>9, <1>10 DEF Next

-----------------------------------------------------------------------------
(* Theorems                                                                *)

LEMMA IInvInit == Init => IInv
BY DEF Init, IInv, Fresh, OneReconnectPending, TimerFollowsChannel

LEMMA IInvAlways == Spec => []IInv
<1>1. TypeOK /\ IInv /\ [Next]_vars => IInv'
  BY IInvStep
<1>2. QED
  BY <1>1, IInvInit, TypeCorrect, PTL DEF Spec

\* One failure never queues two reconnects, whatever the order and number of
\* its notices.
THEOREM OneReconnect == Spec => []OneReconnectPending
<1>1. IInv => OneReconnectPending
  BY DEF IInv
<1>2. QED
  BY <1>1, IInvAlways, PTL

\* No running service waits for nothing.
THEOREM NoServiceStranded == Spec => []NeverStranded
<1>1. IInv => NeverStranded
  BY DEF IInv, NeverStranded, Connecting, Serving, Waiting, OneReconnectPending
<1>2. QED
  BY <1>1, IInvAlways, PTL

\* The periodic timer is armed exactly while the channel is usable.
THEOREM TimerTracksChannel == Spec => []TimerFollowsChannel
<1>1. IInv => TimerFollowsChannel
  BY DEF IInv
<1>2. QED
  BY <1>1, IInvAlways, PTL

\* The exit code of a service that is shutting down no longer changes.
THEOREM VerdictFinal == Spec => VerdictIsFinal
<1> DEFINE Keeps == svc.shutting_down => /\ svc'.shutting_down
                                         /\ svc'.exit_code = svc.exit_code
<1>1. TypeOK /\ IInv /\ [Next]_vars => [Keeps]_vars
  <2> SUFFICES ASSUME TypeOK, IInv, Next, svc.shutting_down
               PROVE  svc'.shutting_down /\ svc'.exit_code = svc.exit_code
    BY DEF vars
  <2>s. svc \in Services
    BY DEF TypeOK
  <2>t. svc.timer_armed => svc.channel_ready
    BY DEF IInv, TimerFollowsChannel
  <2>1. CASE Run
    BY <2>1 DEF Run, IInv, Fresh
  <2>2. CASE ChannelOpens
    BY <2>2, <2>s, ReadyEffect DEF ChannelOpens
  <2>3. CASE FailureNotice
    BY <2>3, <2>s, <2>t, FailureEffect DEF FailureNotice
  <2>4. CASE Detached
    BY <2>4, <2>s DEF Detached, HandleDetached, Loopexit, Services
  <2>5. CASE Signal
    BY <2>5 DEF Signal, Stop
  <2>6. CASE ReconnectFires
    BY <2>6, <2>s DEF ReconnectFires, DoReconnect, Services
  <2>7. CASE ImmediateTick \/ ForcedExit \/ LoopReturns
    BY <2>7, <2>s DEF ImmediateTick, ForcedExit, LoopReturns, Loopexit, Services
  <2>8. QED
    BY <2>1, <2>2, <2>3, <2>4, <2>5, <2>6, <2>7 DEF Next
<1>2. QED
  BY <1>1, TypeCorrect, IInvAlways, PTL DEF Spec, VerdictIsFinal

\* With the largest limit the attempt counter wraps before it passes the limit.
LEMMA NoLimitNoEnd ==
  ASSUME MaxReconnectAttempts = UintMax, NEW s \in Services, NEW r
  PROVE  ~GaveUp(s, r)
<1>1. Increment(s.reconnect_attempts) \in 0..UintMax
  BY IncrementType DEF Services
<1>2. QED
  BY <1>1, ConfigAssumption DEF GaveUp, Exhausted

\* A service without a limit never exits with an error, whatever it goes
\* through.
THEOREM NoLimitNeverGivesUp ==
  ASSUME MaxReconnectAttempts = UintMax
  PROVE  Spec => []NeverGivesUp
<1>1. Init => NeverGivesUp
  BY DEF Init, NeverGivesUp
<1>2. TypeOK /\ IInv /\ NeverGivesUp /\ [Next]_vars => NeverGivesUp'
  <2> SUFFICES ASSUME TypeOK, IInv, svc.exit_code = 0, [Next]_vars
               PROVE  svc'.exit_code = 0
    BY DEF NeverGivesUp
  <2>s. svc \in Services
    BY DEF TypeOK
  <2>t. svc.timer_armed => svc.channel_ready
    BY DEF IInv, TimerFollowsChannel
  <2>1. ASSUME NEW s \in Services, s.exit_code = 0, ~s.timer_armed, Connect(s)
        PROVE  svc'.exit_code = 0
    <3> DEFINE opening == [s EXCEPT !.channel_ready = FALSE]
    <3>1. /\ opening \in Services /\ opening.exit_code = 0
          /\ ~opening.timer_armed
      BY <2>1 DEF Services
    <3>2. HandleConnectionFailure(opening).exit_code = 0
      BY <3>1, FailureEffect, NoLimitNoEnd DEF Ignored, Queued
    <3>3. QED
      BY <2>1, <3>1, <3>2 DEF Connect
  <2>2. CASE Run
    BY <2>2, <2>1, <2>s DEF Run, IInv, Fresh, TimerFollowsChannel, Services
  <2>3. CASE ChannelOpens
    BY <2>3, <2>s, ReadyEffect DEF ChannelOpens
  <2>4. CASE FailureNotice
    BY <2>4, <2>s, <2>t, FailureEffect, NoLimitNoEnd
    DEF FailureNotice, Ignored, Queued
  <2>5. CASE Detached
    BY <2>5, <2>s DEF Detached, HandleDetached, Loopexit, Services
  <2>6. CASE Signal
    BY <2>6, <2>s, StopEffect DEF Signal, Stop
  <2>7. CASE ReconnectFires
    <3> DEFINE popped == [svc EXCEPT !.reconnects = @ - 1]
               due    == [popped EXCEPT !.reconnect_scheduled = FALSE]
    <3>1. due.exit_code = 0
      BY <2>s DEF Services
    <3>p. popped \in Services
      BY <2>7, <2>s, PopType DEF ReconnectFires
    <3>2. CASE svc.shutting_down
      BY <2>7, <2>s, <3>2 DEF ReconnectFires, DoReconnect, Services
    <3>3. CASE ~svc.shutting_down
      <4>1. svc.reconnect_scheduled /\ svc.loop # "idle"
        BY <2>7, <2>s DEF ReconnectFires, Dispatching, IInv, OneReconnectPending
      <4>2. ~svc.timer_armed
        BY <3>3, <4>1, <2>t DEF IInv, Connecting, Serving, Waiting
      <4>3. due \in Services /\ ~due.timer_armed
        BY <2>s, <3>p, <4>2 DEF Services
      <4>4. Connect(due)
        BY <2>7, <2>s, <3>3 DEF ReconnectFires, DoReconnect, Services
      <4>5. QED
        BY <3>1, <4>3, <4>4, <2>1
    <3>4. QED
      BY <3>2, <3>3
  <2>8. CASE ImmediateTick \/ ForcedExit \/ LoopReturns
    BY <2>8, <2>s DEF ImmediateTick, ForcedExit, LoopReturns, Loopexit, Services
  <2>9. CASE UNCHANGED vars
    BY <2>9 DEF vars
  <2>10. QED
    BY <2>2, <2>3, <2>4, <2>5, <2>6, <2>7, <2>8, <2>9 DEF Next
<1>3. QED
  BY <1>1, <1>2, TypeCorrect, IInvAlways, PTL DEF Spec

-----------------------------------------------------------------------------
(* Counting attempts and the refinement of Lifecycle                       *)

\* While the limit fits below the largest integer, the counter does not wrap
\* and counts lost links; it never passes the limit without giving up.
CountInv ==
  ~svc.shutting_down => /\ svc.reconnect_attempts = lost_links
                        /\ lost_links <= MaxReconnectAttempts

LEMMA NextAttempt ==
  ASSUME MaxReconnectAttempts < UintMax,
         NEW n \in 0..MaxReconnectAttempts
  PROVE  Increment(n) = n + 1
BY ConfigAssumption DEF Increment

\* A counted failure of a service whose count is right leaves the count right.
LEMMA CountStep ==
  ASSUME MaxReconnectAttempts < UintMax, TypeOK, CountInv,
         ~svc.shutting_down, CountLostLink,
         NEW s, s.reconnect_attempts = svc.reconnect_attempts, NEW r
  PROVE  /\ lost_links' = lost_links + 1
         /\ GaveUp(s, r) => lost_links' > MaxReconnectAttempts
         /\ Queued(s, r) => /\ r.reconnect_attempts = lost_links'
                            /\ lost_links' <= MaxReconnectAttempts
<1>1. lost_links \in 0..MaxReconnectAttempts
  BY ConfigAssumption DEF TypeOK, CountInv
<1>2. lost_links' = lost_links + 1
  BY <1>1, ConfigAssumption DEF CountLostLink
<1>3. Increment(s.reconnect_attempts) = lost_links'
  BY <1>1, <1>2, NextAttempt DEF CountInv
<1>4. Exhausted(lost_links') <=> lost_links' > MaxReconnectAttempts
  BY DEF Exhausted
<1>5. lost_links' <= MaxReconnectAttempts \/ lost_links' > MaxReconnectAttempts
  BY <1>1, <1>2, ConfigAssumption
<1>6. QED
  BY <1>2, <1>3, <1>4, <1>5 DEF GaveUp, Queued

\* What one callback does, seen from outside, together with the count.
LEMMA RefinementStep ==
  ASSUME MaxReconnectAttempts < UintMax, TypeOK, IInv, CountInv, [Next]_vars
  PROVE  CountInv' /\ [Lifecycle!Next]_(Lifecycle!vars)
<1> USE DEF Lifecycle!Next, Lifecycle!vars, Lifecycle!Serve, Lifecycle!Lose,
            Lifecycle!CountLoss, Lifecycle!Retry, Lifecycle!Quit,
            Lifecycle!Exit, Phase
<1>s. svc \in Services
  BY DEF TypeOK
<1>t. svc.timer_armed => svc.channel_ready
  BY DEF IInv, TimerFollowsChannel
<1>1. CASE Run
  <2> DEFINE s == [svc EXCEPT !.loop = "running"]
             o == [s EXCEPT !.channel_ready = FALSE]
  <2>1. /\ s \in Services /\ s.loop = "running" /\ ~s.shutting_down
        /\ s.exit_code = 0 /\ ~s.timer_armed /\ ~s.reconnect_scheduled
        /\ s.reconnects = 0 /\ ~(s.forced_exits > 0)
        /\ s.reconnect_attempts = svc.reconnect_attempts
        /\ o.reconnect_attempts = svc.reconnect_attempts
    BY <1>1, <1>s DEF Run, IInv, Fresh, Services, OneReconnectPending,
                      TimerFollowsChannel
  <2>2. /\ ~svc.shutting_down /\ ~svc.channel_ready /\ svc.exit_code = 0
        /\ svc.reconnects = 0 /\ svc.loop = "idle"
    BY <1>1 DEF Run, IInv, Fresh, OneReconnectPending
  <2>3. Connect(s)
    BY <1>1 DEF Run
  <2>4. CountLostLink => 
          /\ lost_links' = lost_links + 1
          /\ GaveUp(o, svc') => lost_links' > MaxReconnectAttempts
          /\ Queued(o, svc') => /\ svc'.reconnect_attempts = lost_links'
                                /\ lost_links' <= MaxReconnectAttempts
    BY <2>1, <2>2, CountStep
  <2> HIDE DEF s
  <2>5. QED
    BY <2>1, <2>2, <2>3, <2>4, ConnectEffect DEF CountInv, GaveUp, Queued
<1>2. CASE ChannelOpens
  <2>1. svc' = HandleConnectionReady(svc)
    BY <1>2 DEF ChannelOpens
  <2>2. CASE svc.shutting_down
    BY <1>2, <2>1, <2>2, <1>s, ReadyEffect DEF ChannelOpens, CountInv
  <2>3. CASE ~svc.shutting_down
    <3>1. /\ ~svc.channel_ready /\ svc.reconnects = 0 /\ svc.exit_code = 0
          /\ svc.loop \notin {"exiting", "exited"}
      BY <1>2, <2>3 DEF ChannelOpens, Dispatching, IInv, Connecting, Serving,
                        Waiting, OneReconnectPending
    <3>2. QED
      BY <1>2, <2>1, <2>3, <3>1, <1>s, ReadyEffect, ConfigAssumption
      DEF ChannelOpens, CountInv
  <2>4. QED
    BY <2>2, <2>3
<1>3. CASE FailureNotice
  <2>1. svc' = HandleConnectionFailure(svc)
    BY <1>3 DEF FailureNotice
  <2>2. CASE svc.shutting_down
    BY <1>3, <2>1, <2>2, <1>s, <1>t, FailureEffect DEF FailureNotice, IInv, CountInv
  <2>3. CASE ~svc.shutting_down /\ link = "up"
    <3>1. /\ ~svc.reconnect_scheduled /\ svc.reconnects = 0
          /\ svc.loop = "running" /\ svc.exit_code = 0
      BY <1>3, <2>3 DEF FailureNotice, Dispatching, IInv, Connecting, Serving,
                        Waiting, OneReconnectPending
    <3>2. CountLostLink
      BY <1>3, <2>3 DEF FailureNotice
    <3>3. /\ lost_links' = lost_links + 1
          /\ GaveUp(svc, svc') => lost_links' > MaxReconnectAttempts
          /\ Queued(svc, svc') => /\ svc'.reconnect_attempts = lost_links'
                                  /\ lost_links' <= MaxReconnectAttempts
      BY <2>3, <3>2, CountStep
    <3>4. ~svc'.channel_ready /\ (GaveUp(svc, svc') \/ Queued(svc, svc'))
      BY <2>1, <2>3, <3>1, <1>s, <1>t, FailureEffect
    <3>5. QED
      BY <2>3, <3>1, <3>3, <3>4 DEF CountInv, GaveUp, Queued
  <2>4. CASE ~svc.shutting_down /\ link # "up"
    <3>1. /\ svc.reconnect_scheduled /\ ~svc.channel_ready
      BY <1>3, <2>4 DEF FailureNotice, Dispatching, IInv, Connecting, Serving,
                        Waiting
    <3>2. Ignored(svc, svc') /\ ~svc'.channel_ready
      BY <2>1, <2>4, <3>1, <1>s, <1>t, FailureEffect
    <3>3. UNCHANGED lost_links
      BY <1>3, <2>4 DEF FailureNotice
    <3>4. QED
      BY <2>4, <3>1, <3>2, <3>3 DEF CountInv, Ignored
  <2>5. QED
    BY <2>2, <2>3, <2>4
<1>4. CASE Detached
  <2>1. /\ svc'.shutting_down = svc.shutting_down
        /\ svc'.channel_ready = svc.channel_ready
        /\ svc'.reconnects = svc.reconnects
        /\ svc'.exit_code = svc.exit_code
        /\ svc'.reconnect_attempts = svc.reconnect_attempts
        /\ \/ svc'.loop = svc.loop
           \/ svc.shutting_down /\ svc'.loop = "exiting"
    BY <1>4, <1>s DEF Detached, HandleDetached, Loopexit, Services
  <2>2. QED
    BY <1>4, <2>1 DEF Detached, Dispatching, CountInv
<1>5. CASE Signal
  <2>1. \/ svc' = Loopexit(BeginStop(svc))
        \/ svc' = QueueForcedExit(BeginStop(svc))
    BY <1>5 DEF Signal, Stop
  <2>2. /\ ~svc.shutting_down /\ svc.loop = "running" /\ svc.exit_code = 0
        /\ UNCHANGED lost_links
    BY <1>5 DEF Signal, Stop, Dispatching, IInv
  <2>3. svc'.shutting_down /\ svc'.exit_code = 0 /\ svc'.loop # "exited"
    BY <2>1, <2>2, <1>s, StopEffect
  <2>4. QED
    BY <2>2, <2>3 DEF CountInv
<1>6. CASE ReconnectFires
  <2> DEFINE popped == [svc EXCEPT !.reconnects = @ - 1]
             due    == [popped EXCEPT !.reconnect_scheduled = FALSE]
             o      == [due EXCEPT !.channel_ready = FALSE]
  <2>1. svc.reconnect_scheduled /\ svc.reconnects = 1
    BY <1>6, <1>s DEF ReconnectFires, IInv, Services, OneReconnectPending
  <2>2. due \in Services
    <3>1. popped \in Services
      BY <1>6, <1>s, PopType DEF ReconnectFires
    <3>2. QED
      BY <3>1 DEF Services
  <2>3. /\ due.reconnects = 0 /\ ~due.reconnect_scheduled
        /\ due.loop = svc.loop /\ due.shutting_down = svc.shutting_down
        /\ due.exit_code = svc.exit_code
        /\ due.forced_exits = svc.forced_exits
        /\ due.timer_armed = svc.timer_armed
        /\ due.reconnect_attempts = svc.reconnect_attempts
        /\ o.reconnect_attempts = svc.reconnect_attempts
        /\ popped.shutting_down = svc.shutting_down
    BY <1>s, <2>1 DEF Services
  <2>4. \/ popped.shutting_down /\ svc' = due /\ UNCHANGED lost_links
        \/ ~popped.shutting_down /\ Connect(due)
    BY <1>6 DEF ReconnectFires, DoReconnect
  <2> HIDE DEF popped, due
  <2>5. CASE svc.shutting_down
    BY <1>6, <2>3, <2>4, <2>5 DEF CountInv, ReconnectFires, Dispatching
  <2>6. CASE ~svc.shutting_down
    <3>1. /\ ~svc.channel_ready /\ svc.exit_code = 0 /\ svc.loop = "running"
          /\ ~(svc.forced_exits > 0) /\ ~svc.timer_armed
      BY <1>6, <2>1, <2>6, <1>t
      DEF ReconnectFires, Dispatching, IInv, Connecting, Serving, Waiting
    <3>2. Connect(due)
      BY <2>3, <2>4, <2>6
    <3>3. CountLostLink =>
            /\ lost_links' = lost_links + 1
            /\ GaveUp(o, svc') => lost_links' > MaxReconnectAttempts
            /\ Queued(o, svc') => /\ svc'.reconnect_attempts = lost_links'
                                  /\ lost_links' <= MaxReconnectAttempts
      BY <2>3, <2>6, CountStep
    <3>4. QED
      BY <2>1, <2>2, <2>3, <2>6, <3>1, <3>2, <3>3, ConnectEffect
      DEF CountInv, GaveUp, Queued
  <2>7. QED
    BY <2>5, <2>6
<1>7. CASE ImmediateTick
  BY <1>7, <1>s DEF ImmediateTick, CountInv, Services
<1>8. CASE ForcedExit
  <2>1. svc.shutting_down
    BY <1>8 DEF ForcedExit, IInv
  <2>2. QED
    BY <1>8, <2>1, <1>s DEF ForcedExit, Loopexit, Dispatching, CountInv, Services
<1>9. CASE LoopReturns
  <2>1. svc.shutting_down
    BY <1>9 DEF LoopReturns, IInv
  <2>2. QED
    BY <1>9, <2>1, <1>s DEF LoopReturns, CountInv, Services
<1>10. CASE UNCHANGED vars
  BY <1>10 DEF vars, CountInv
<1>11. QED
  BY <1>1, <1>2, <1>3, <1>4, <1>5, <1>6, <1>7, <1>8, <1>9, <1>10 DEF Next

LEMMA CountAlways ==
  ASSUME MaxReconnectAttempts < UintMax
  PROVE  Spec => []CountInv
<1>1. Init => CountInv
  BY ConfigAssumption DEF Init, CountInv
<1>2. TypeOK /\ IInv /\ CountInv /\ [Next]_vars => CountInv'
  BY RefinementStep
<1>3. QED
  BY <1>1, <1>2, TypeCorrect, IInvAlways, PTL DEF Spec

\* Each lost link costs exactly one attempt.
THEOREM OneAttemptEach ==
  ASSUME MaxReconnectAttempts < UintMax
  PROVE  Spec => []OneAttemptPerLostLink
<1>1. CountInv => OneAttemptPerLostLink
  BY DEF CountInv, OneAttemptPerLostLink
<1>2. QED
  BY <1>1, CountAlways, PTL

\* The event loop implements the five-phase life cycle.
THEOREM Refinement ==
  ASSUME MaxReconnectAttempts < UintMax
  PROVE  Spec => ImplementsLifecycle
<1>1. Init => Lifecycle!Init
  BY DEF Init, Lifecycle!Init, Phase
<1>2. TypeOK /\ IInv /\ CountInv /\ [Next]_vars
        => [Lifecycle!Next]_(Lifecycle!vars)
  BY RefinementStep
<1>3. QED
  BY <1>1, <1>2, TypeCorrect, IInvAlways, CountAlways, PTL
  DEF Spec, ImplementsLifecycle, Lifecycle!Spec
=============================================================================
