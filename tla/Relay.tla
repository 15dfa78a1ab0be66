------------------------------- MODULE Relay -------------------------------
(***************************************************************************)
(* The parser's hop, from the raw_articles queue to the parsed_articles    *)
(* queue, over channels that may be lost at any moment.                    *)
(*                                                                         *)
(* A session is one channel, from OnChannelReady until it is lost.  What   *)
(* the parser sends on it (publish, ack, reject, requeue) reaches the      *)
(* broker in order, but the tail that is in flight when the connection or  *)
(* the process dies does not reach it at all.  The broker may notice the   *)
(* end of a session long after the parser opened the next one.             *)
(*                                                                         *)
(* Definitions named F_without... or F_with... are broken variants of F.   *)
(***************************************************************************)
EXTENDS Naturals, Sequences, FiniteSets

CONSTANTS
  Messages,         \* raw pages
  Broken,           \* those HandleRawArticles cannot parse, or throws on
  Empty,            \* those in which the HTML parser finds no article
  Prefetch,         \* PARSER_PREFETCH
  MaxSessions       \* bound: channels opened

ASSUME RelayAssumption ==
  /\ Broken \subseteq Messages
  /\ Empty \subseteq Messages
  /\ Broken \cap Empty = {}
  /\ Prefetch \in Nat \ {0}
  /\ MaxSessions \in Nat \ {0}

Sessions == 1..MaxSessions
Useful   == Messages \ (Broken \union Empty)

VARIABLES
  \* the broker
  fetched,          \* history: pages ever published to raw_articles
  queued,           \* ready in raw_articles
  unacked,          \* unacked[s]: delivered on session s, without a verdict
  open,             \* sessions the broker still believes in
  parsed,           \* parsed[m]: copies of m's articles in parsed_articles
  \* in flight to the broker
  wire,
  \* the parser
  session,          \* its current channel, 0 before the first
  channel,          \* "down", "ready" or "closing" (after a signal)
  inbox             \* delivered to it and not handled yet

broker == <<fetched, queued, unacked, open, parsed>>
vars == <<broker, wire, session, channel, inbox>>

Frames == [type : {"publish", "ack", "reject", "requeue"}, msg : Messages]

Frame(type, m) == [type |-> type, msg |-> m]

TypeOK ==
  /\ fetched \subseteq Messages
  /\ queued \subseteq Messages
  /\ unacked \in [Sessions -> SUBSET Messages]
  /\ open \subseteq Sessions
  /\ parsed \in [Messages -> Nat]
  /\ wire \in [Sessions -> Seq(Frames)]
  /\ session \in 0..MaxSessions
  /\ channel \in {"down", "ready", "closing"}
  /\ channel # "down" => session \in Sessions
  /\ inbox \subseteq Messages

Init ==
  /\ fetched = {} /\ queued = {} /\ open = {}
  /\ unacked = [s \in Sessions |-> {}]
  /\ parsed = [m \in Messages |-> 0]
  /\ wire = [s \in Sessions |-> <<>>]
  /\ session = 0 /\ channel = "down" /\ inbox = {}

-----------------------------------------------------------------------------
(* The parser                                                              *)

\* Consume: the frame its switch sends for each decision of a handler.
Verdict_withoutBreak(ack, m) ==
  CASE ack = "kAck"     -> <<Frame("ack", m), Frame("requeue", m)>>
    [] ack = "kReject"  -> <<Frame("reject", m)>>
    [] ack = "kRequeue" -> <<Frame("requeue", m), Frame("reject", m)>>

Verdict(ack, m) ==
  CASE ack = "kAck"     -> <<Frame("ack", m)>>
    [] ack = "kReject"  -> <<Frame("reject", m)>>
    [] ack = "kRequeue" -> <<Frame("requeue", m)>>

HandleRawArticles_withAckFirst(m) ==
  IF m \in Useful THEN Verdict("kAck", m) \o <<Frame("publish", m)>>
                  ELSE Verdict("kReject", m)

HandleRawArticles_withRequeueAfterPublish(m) ==
  IF m \in Useful THEN <<Frame("publish", m)>> \o Verdict("kRequeue", m)
                  ELSE Verdict("kReject", m)

HandleRawArticles_withoutVerdictOnEmpty(m) ==
  IF m \in Useful THEN <<Frame("publish", m)>> \o Verdict("kAck", m)
  ELSE IF m \in Broken THEN Verdict("kReject", m)
  ELSE <<>>

\* The frames of one call of HandleRawArticles and of the switch after it.
\* PublishTo refuses on a channel that is not ready.
HandleRawArticles(m) ==
  IF m \in Broken THEN Verdict("kReject", m)
  ELSE IF m \in Empty THEN Verdict("kAck", m)
  ELSE IF channel = "ready" THEN <<Frame("publish", m)>> \o Verdict("kAck", m)
  ELSE Verdict("kRequeue", m)

\* A handler runs for a message that was read from the socket.  A channel that
\* is closing may swallow what is sent on it.
Handle(m) ==
  /\ channel # "down"
  /\ m \in inbox
  /\ inbox' = inbox \ {m}
  /\ \/ wire' = [wire EXCEPT ![session] = @ \o HandleRawArticles(m)]
     \/ channel = "closing" /\ UNCHANGED wire
  /\ UNCHANGED <<broker, session, channel>>

\* OnChannelReady on a new connection.
OpenSession ==
  /\ channel = "down"
  /\ session < MaxSessions
  /\ session' = session + 1
  /\ open' = open \union {session'}
  /\ channel' = "ready"
  /\ UNCHANGED <<fetched, queued, unacked, parsed, wire, inbox>>

\* The connection fails or the process dies: messages not handled yet are
\* forgotten and only a prefix of what was sent is still on its way.  The last
\* session is not lost, so that failures are finitely many.
LoseSession ==
  /\ channel # "down"
  /\ session < MaxSessions
  /\ \E k \in 0..Len(wire[session]) :
       wire' = [wire EXCEPT ![session] = SubSeq(@, 1, k)]
  /\ channel' = "down"
  /\ inbox' = {}
  /\ UNCHANGED <<broker, session>>

\* Stop: the channel is no longer ready, deliveries already read are handled.
Stop ==
  /\ channel = "ready"
  /\ session < MaxSessions
  /\ channel' = "closing"
  /\ UNCHANGED <<broker, wire, session, inbox>>

-----------------------------------------------------------------------------
(* The broker                                                              *)

\* A tick of the fetcher whose page reaches the queue.  A fetch that failed or
\* a publish lost on the way is a page that never arrives.
Arrive(m) ==
  /\ m \notin fetched
  /\ fetched' = fetched \union {m}
  /\ queued' = queued \union {m}
  /\ UNCHANGED <<unacked, open, parsed, wire, session, channel, inbox>>

\* Also to a session whose parser is gone, until the broker notices.
Deliver(s, m) ==
  /\ s \in open
  /\ m \in queued
  /\ Cardinality(unacked[s]) < Prefetch
  /\ queued' = queued \ {m}
  /\ unacked' = [unacked EXCEPT ![s] = @ \union {m}]
  /\ inbox' = IF s = session /\ channel # "down" THEN inbox \union {m} ELSE inbox
  /\ UNCHANGED <<fetched, open, parsed, wire, session, channel>>

Receive(s) ==
  /\ s \in open
  /\ wire[s] # <<>>
  /\ wire' = [wire EXCEPT ![s] = Tail(@)]
  /\ LET f == Head(wire[s]) IN
       \/ /\ f.type = "publish"
          /\ parsed' = [parsed EXCEPT ![f.msg] = @ + 1]
          /\ UNCHANGED <<queued, unacked>>
       \/ /\ f.type \in {"ack", "reject"}
          /\ unacked' = [unacked EXCEPT ![s] = @ \ {f.msg}]
          /\ UNCHANGED <<queued, parsed>>
       \/ /\ f.type = "requeue"
          /\ unacked' = [unacked EXCEPT ![s] = @ \ {f.msg}]
          /\ queued' = queued \union {f.msg}
          /\ UNCHANGED parsed
  /\ UNCHANGED <<fetched, open, session, channel, inbox>>

\* The broker ends a session: it never reads the rest of the wire and requeues
\* what has no verdict.  The parser may not have noticed anything yet.
DropSession(s) ==
  /\ s \in open
  /\ s < MaxSessions
  /\ open' = open \ {s}
  /\ queued' = queued \union unacked[s]
  /\ unacked' = [unacked EXCEPT ![s] = {}]
  /\ wire' = [wire EXCEPT ![s] = <<>>]
  /\ UNCHANGED <<fetched, parsed, session, channel, inbox>>

-----------------------------------------------------------------------------
Next ==
  \/ OpenSession
  \/ LoseSession
  \/ Stop
  \/ \E m \in Messages : Handle(m) \/ Arrive(m)
  \/ \E s \in Sessions : Receive(s) \/ DropSession(s)
  \/ \E s \in Sessions, m \in Messages : Deliver(s, m)

Spec == Init /\ [][Next]_vars

\* A session that one side has ended is eventually ended by the other; a signal
\* ends it too (AmqpService, ShutdownCompletes).
Notice(s) ==
  \/ (s # session \/ channel = "down") /\ DropSession(s)
  \/ s = session /\ (s \notin open \/ channel = "closing") /\ LoseSession

Fairness ==
  /\ WF_vars(OpenSession)
  /\ \A m \in Messages : WF_vars(Handle(m))
  /\ \A s \in Sessions : WF_vars(Receive(s)) /\ WF_vars(Notice(s))
  /\ \A s \in Sessions, m \in Messages : WF_vars(Deliver(s, m))

FairSpec == Spec /\ Fairness

-----------------------------------------------------------------------------
(* Properties                                                              *)

Held(m) == m \in queued \/ \E s \in open : m \in unacked[s]

\* A page with articles stays in the broker's custody until its articles are
\* in parsed_articles: the ack never overtakes the publish, whatever is lost.
NoLoss == \A m \in fetched \cap Useful : Held(m) \/ parsed[m] > 0

IsVerdict(f) == f.type # "publish"

\* On an open session every verdict on its way settles a delivery that is still
\* open there, and no delivery has two: RabbitMQ closes the channel on an
\* unknown delivery tag.
OneVerdictPerDelivery ==
  \A s \in open : \A i \in DOMAIN wire[s] :
    IsVerdict(wire[s][i]) =>
      /\ wire[s][i].msg \in unacked[s]
      /\ \A j \in DOMAIN wire[s] :
           IsVerdict(wire[s][j]) /\ wire[s][j].msg = wire[s][i].msg => j = i

\* Copies of m's articles on the wires of open sessions.
InFlight(m) ==
  {p \in UNION {{s} \X DOMAIN wire[s] : s \in open} :
     wire[p[1]][p[2]] = Frame("publish", m)}

\* Duplicates come from lost sessions only: a page is published at most once
\* per session.
OneCopyPerSession ==
  \A m \in Messages : parsed[m] + Cardinality(InFlight(m)) <= session

-----------------------------------------------------------------------------
(* The abstract hop this implements                                        *)

Served(m) == IF m \in Useful THEN parsed[m] > 0 ELSE ~Held(m)

Status ==
  [m \in Messages |-> IF m \notin fetched THEN "unseen"
                      ELSE IF Served(m) THEN "served"
                      ELSE IF Held(m) THEN "owed"
                      ELSE "lost"]

Hop == INSTANCE AtLeastOnce WITH status <- Status

\* Every page is owed until it is parsed or found useless, and once sessions
\* stop being lost it is.
ImplementsAtLeastOnce == Hop!Spec
=============================================================================
