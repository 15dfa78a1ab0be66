------------------------------ MODULE Consumer ------------------------------
(***************************************************************************)
(* A queue of RabbitMQ and the one process that consumes it with prefetch  *)
(* 1 through AmqpService::Consume: the part storage and notifier share.    *)
(*                                                                         *)
(* Messages are numbered in the order of their publication, which is the   *)
(* order of the queue; a requeued message goes back to its place.  A       *)
(* session is one channel.  Either end may lose it without the other       *)
(* knowing: a message held by a session that is dead for the process, a    *)
(* ghost, is delivered again when the broker notices.                      *)
(***************************************************************************)
EXTENDS Integers

CONSTANTS
  NumMessages,      \* messages ever published
  MaxFaults         \* bound: failures of any kind

ASSUME ConsumerAssumption == NumMessages \in Nat /\ MaxFaults \in Nat

Messages == 1..NumMessages
None == 0

Verdicts == {"kAck", "kReject", "kRequeue"}

VARIABLES
  arrived,          \* messages published so far
  queued,           \* ready in the queue
  delivered,        \* on the current session without a verdict, or None
  ghosts,           \* on sessions that are dead without the broker knowing
  session_open,     \* the broker still believes in the current session
  verdict,          \* on its way to the broker, or "none"
  connected,        \* the process believes in its session
  acked,            \* history: messages the broker forgot on an ack
  newest,           \* history: the newest message delivered so far
  late,             \* history: messages delivered after a newer one
  faults            \* failures so far

consumer == <<arrived, queued, delivered, ghosts, session_open, verdict,
              connected, acked, newest, late>>

ConsumerTypeOK ==
  /\ arrived \in 0..NumMessages
  /\ queued \subseteq Messages
  /\ delivered \in Messages \union {None}
  /\ ghosts \subseteq Messages
  /\ session_open \in BOOLEAN
  /\ verdict \in Verdicts \union {"none"}
  /\ connected \in BOOLEAN
  /\ acked \subseteq Messages
  /\ newest \in 0..NumMessages
  /\ late \subseteq Messages
  /\ faults \in 0..MaxFaults

ConsumerInit ==
  /\ arrived = 0 /\ queued = {} /\ delivered = None /\ ghosts = {}
  /\ session_open = FALSE /\ verdict = "none" /\ connected = FALSE
  /\ acked = {} /\ newest = 0 /\ late = {} /\ faults = 0

Fault == faults < MaxFaults /\ faults' = faults + 1

-----------------------------------------------------------------------------
(* The process                                                             *)

\* The switch of Consume; on a dead session the frame goes nowhere.
Answer(ack) ==
  /\ verdict' = IF session_open THEN ack ELSE "none"
  /\ UNCHANGED <<arrived, queued, delivered, ghosts, session_open, connected,
                 acked, newest, late>>

\* OnChannelReady consumes on a new session.
Subscribe ==
  /\ ~connected
  /\ connected' = TRUE
  /\ session_open' = TRUE
  /\ UNCHANGED <<arrived, queued, delivered, ghosts, verdict, acked, newest,
                 late>>

\* The process loses its session, and with it a verdict still on its way.
Disconnect ==
  /\ connected' = FALSE
  /\ session_open' = FALSE
  /\ ghosts' = ghosts \union ({delivered} \ {None})
  /\ delivered' = None
  /\ verdict' = "none"
  /\ UNCHANGED <<arrived, queued, acked, newest, late>>

\* Noticing what the broker did is no failure of its own.
LoseSession ==
  /\ connected
  /\ IF session_open THEN Fault ELSE UNCHANGED faults
  /\ Disconnect

-----------------------------------------------------------------------------
(* The broker                                                              *)

Publish ==
  /\ arrived < NumMessages
  /\ arrived' = arrived + 1
  /\ queued' = queued \union {arrived'}
  /\ UNCHANGED <<delivered, ghosts, session_open, verdict, connected, acked,
                 newest, late, faults>>

\* With prefetch 1 the next message waits for the verdict on the last one.
Dispatch(m) ==
  /\ connected /\ session_open
  /\ delivered = None
  /\ m \in queued
  /\ \A n \in queued : m <= n
  /\ queued' = queued \ {m}
  /\ delivered' = m
  /\ newest' = IF m > newest THEN m ELSE newest
  /\ late' = IF m < newest THEN late \union {m} ELSE late
  /\ UNCHANGED <<arrived, ghosts, session_open, verdict, connected, acked>>

ReceiveVerdict ==
  /\ session_open
  /\ verdict # "none"
  /\ queued' = IF verdict = "kRequeue" THEN queued \union {delivered} ELSE queued
  /\ acked' = IF verdict = "kAck" THEN acked \union {delivered} ELSE acked
  /\ delivered' = None
  /\ verdict' = "none"
  /\ UNCHANGED <<arrived, ghosts, session_open, connected, newest, late,
                 faults>>

DropSession ==
  /\ session_open
  /\ Fault
  /\ session_open' = FALSE
  /\ queued' = queued \union ({delivered} \ {None})
  /\ delivered' = None
  /\ verdict' = "none"
  /\ UNCHANGED <<arrived, ghosts, connected, acked, newest, late>>

DropGhost(m) ==
  /\ m \in ghosts
  /\ ghosts' = ghosts \ {m}
  /\ queued' = queued \union {m}
  /\ UNCHANGED <<arrived, delivered, session_open, verdict, connected, acked,
                 newest, late, faults>>

\* What happens between the broker and an idle process.
Broker ==
  \/ Publish
  \/ ReceiveVerdict
  \/ DropSession
  \/ \E m \in Messages : DropGhost(m)
=============================================================================
