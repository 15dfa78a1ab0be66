-------------------------------- MODULE Web --------------------------------
(***************************************************************************)
(* The web service: it keeps the digests of the queue digest_ready.web in  *)
(* memory, the newest in front, and answers HTTP requests from there.      *)
(* Requests run between the other callbacks and change nothing: what they  *)
(* are answered is the operator Respond.                                   *)
(*                                                                         *)
(* The queue hears of a digest only once it is bound to the fanout         *)
(* exchange, which the first OnChannelReady ever does; binding and queue   *)
(* are durable.                                                            *)
(*                                                                         *)
(* Definitions named F_without... or F_with... are broken variants of F.   *)
(***************************************************************************)
EXTENDS Consumer, Sequences, FiniteSets

CONSTANTS
  Malformed,         \* digests that are no valid JSON message
  HistorySize,       \* DIGEST_HISTORY_SIZE
  MayCancel          \* whether RabbitMQ may cancel a consumer

Digests == Messages

ASSUME WebAssumption ==
  /\ Malformed \subseteq Digests
  /\ HistorySize \in Nat \ {0}
  /\ MayCancel \in BOOLEAN

VARIABLES
  handling,          \* the digest HandleDigestReady is called with, or None
  digests,           \* digests_, front first
  bound,             \* the queue is bound to the exchange
  consuming          \* the broker has a consumer for the current channel

page == <<handling, digests, bound, consuming>>
vars == <<consumer, faults, page>>

TypeOK ==
  /\ ConsumerTypeOK
  /\ handling \in Digests \union {None}
  /\ digests \in Seq(Digests \ Malformed)
  /\ Len(digests) <= HistorySize
  /\ bound \in BOOLEAN /\ consuming \in BOOLEAN

Init ==
  /\ ConsumerInit
  /\ handling = None /\ digests = <<>> /\ bound = FALSE
  /\ consuming = FALSE

-----------------------------------------------------------------------------
(* The process                                                             *)

Shorten_withoutPop(history) == history

Shorten_withPopFront(history) ==
  IF Len(history) <= HistorySize THEN history ELSE Tail(history)

\* The loop of pop_back.
Shorten(history) ==
  IF Len(history) <= HistorySize THEN history
                                 ELSE SubSeq(history, 1, HistorySize)

Add_withPushBack(digest, history) == Shorten(Append(history, digest))

Add(digest, history) == Shorten(<<digest>> \o history)

Decision_withRequeue(digest) == "kRequeue"

Decision(digest) == IF digest \in Malformed THEN "kReject" ELSE "kAck"

\* Nothing can come between the two assignments of the handler but a crash,
\* which loses both.
HandleDigestReady ==
  /\ handling # None
  /\ digests' = IF handling \in Malformed THEN digests ELSE Add(handling, digests)
  /\ Answer(Decision(handling))
  /\ handling' = None
  /\ UNCHANGED <<faults, bound, consuming>>

Deliver ==
  /\ handling = None
  /\ consuming
  /\ \E d \in Digests : Dispatch(d) /\ handling' = d
  /\ UNCHANGED <<faults, digests, bound, consuming>>

OnChannelReady_onlyOnce == bound' = TRUE /\ consuming' = ~bound

\* Declare, bind and consume, on every new channel.
OnChannelReady == bound' = TRUE /\ consuming' = TRUE

Connect ==
  /\ Subscribe
  /\ OnChannelReady
  /\ UNCHANGED <<faults, handling, digests>>

NoticeLoss ==
  /\ handling = None
  /\ LoseSession
  /\ consuming' = FALSE
  /\ UNCHANGED <<handling, digests, bound>>

\* The process dies and is restarted with an empty history.
Crash ==
  /\ Fault
  /\ Disconnect
  /\ handling' = None
  /\ digests' = <<>>
  /\ consuming' = FALSE
  /\ UNCHANGED bound

-----------------------------------------------------------------------------
(* HTTP requests                                                           *)

\* The front digest in full, the others as a list of dates.
RenderPage(history) ==
  IF history = <<>> THEN [latest |-> None, archive |-> <<>>]
                    ELSE [latest |-> Head(history), archive |-> Tail(history)]

\* Status and body.
Respond(path) ==
  CASE path \in {"", "/", "/index.html"} -> <<200, RenderPage(digests)>>
    [] path = "/api/digest" -> <<200, RenderPage(digests).latest>>
    [] path = "/healthz"    -> <<200, IF connected THEN "ok" ELSE "degraded">>
    [] OTHER                -> <<404, "not found">>

-----------------------------------------------------------------------------
(* The broker                                                              *)

\* A fanout exchange drops what no queue is bound for.
PublishUnrouted ==
  /\ ~bound
  /\ arrived < NumMessages
  /\ arrived' = arrived + 1
  /\ UNCHANGED <<queued, delivered, ghosts, session_open, verdict, connected,
                 acked, newest, late, faults, page>>

\* The consumer goes, for instance with a deleted queue, and its channel stays:
\* Consume has no handler for the notice.  The messages are kept here, which
\* makes no difference to a service that hears of none.
CancelConsumer ==
  /\ session_open
  /\ consuming
  /\ Fault
  /\ consuming' = FALSE
  /\ UNCHANGED consumer

Queue ==
  /\ \/ Broker /\ UNCHANGED consuming
     \/ MayCancel /\ CancelConsumer
  /\ arrived' # arrived => bound
  /\ UNCHANGED <<handling, digests, bound>>

Next ==
  \/ HandleDigestReady
  \/ Deliver
  \/ Connect
  \/ NoticeLoss
  \/ Crash
  \/ PublishUnrouted
  \/ Queue

Spec == Init /\ [][Next]_vars

\* Calls return, and each end notices a session the other one has ended.
Fairness ==
  /\ WF_vars(HandleDigestReady)
  /\ WF_vars(Connect)
  /\ WF_vars(Deliver)
  /\ WF_vars(Queue /\ ReceiveVerdict)
  /\ WF_vars(~session_open /\ NoticeLoss)
  /\ \A d \in Digests : WF_vars(Queue /\ DropGhost(d))

FairSpec == Spec /\ Fairness

-----------------------------------------------------------------------------
(* Properties                                                              *)

Positions(d) == {i \in DOMAIN digests : digests[i] = d}

\* The page stands newest first: a digest is in front of a newer one only if it
\* was delivered after it.  Until something fails, none is missing or double.
NewestFirst ==
  \A i \in 1..(Len(digests) - 1) :
    /\ digests[i + 1] <= digests[i] \/ digests[i] \in late
    /\ faults = 0 =>
         /\ digests[i + 1] < digests[i]
         /\ (digests[i + 1] + 1)..(digests[i] - 1) \subseteq Malformed

\* A digest is on the page twice only if something failed in between: every
\* failure costs one copy more at most.
CopiesAreBounded == \A d \in Digests : Cardinality(Positions(d)) <= 1 + faults

\* What the exchange routed to the queue comes to the page, whatever the
\* process or its session go through on the way.
EveryDigestIsShown ==
  \A d \in Digests \ Malformed : d \in queued ~> Positions(d) # {}

\* The service "shows the latest digest" (README.md:34): no digest on the page
\* is newer than the one it presents as the latest, which /api/digest returns.
ShowsLatest ==
  LET shown == Respond("/")[2]
  IN  /\ \A i \in DOMAIN shown.archive : shown.archive[i] <= shown.latest
      /\ Respond("/api/digest")[2] = shown.latest

\* A service "that is up but deaf is the failure worth catching"
\* (web_service.cpp:104-105): while no digest can reach it, /healthz does not
\* go on saying ok.
Deaf == ~(session_open /\ consuming)
Healthy == Respond("/healthz") = <<200, "ok">>

DeafnessIsReported == Healthy /\ Deaf ~> ~Healthy \/ ~Deaf
=============================================================================
