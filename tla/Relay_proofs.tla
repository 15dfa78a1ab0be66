---------------------------- MODULE Relay_proofs ----------------------------
(***************************************************************************)
(* Proofs about the parser's hop for any set of pages, any prefetch and    *)
(* any number of lost sessions: no page is lost between raw_articles and   *)
(* parsed_articles, no delivery is settled twice, and a page is published  *)
(* at most once per session.                                               *)
(***************************************************************************)
EXTENDS Relay, FiniteSetTheorems, TLAPS

-----------------------------------------------------------------------------
(* The frames of one handler call                                          *)

\* Every frame about a page has the type of frames.
LEMMA FrameType ==
  ASSUME NEW m \in Messages
  PROVE  \A type \in {"publish", "ack", "reject", "requeue"} :
           Frame(type, m) \in Frames
BY DEF Frame, Frames

Single(call, f) == Len(call) = 1 /\ call[1] = f

\* A call writes one verdict, or a publish and then the ack of the same page;
\* whether the channel is ready decides between the ack and the requeue.
LEMMA CallShape ==
  ASSUME NEW m \in Messages
  PROVE  LET call == HandleRawArticles(m) IN
         /\ call \in Seq(Frames)
         /\ \/ m \notin Useful /\ Single(call, Frame("reject", m))
            \/ m \notin Useful /\ Single(call, Frame("ack", m))
            \/ channel # "ready" /\ Single(call, Frame("requeue", m))
            \/ /\ channel = "ready"
               /\ Len(call) = 2
               /\ call[1] = Frame("publish", m)
               /\ call[2] = Frame("ack", m)
<1> DEFINE both == <<Frame("publish", m)>> \o <<Frame("ack", m)>>
<1>1. \A f \in Frames : <<f>> \in Seq(Frames) /\ Single(<<f>>, f)
  BY DEF Single
<1>2. /\ both \in Seq(Frames) /\ Len(both) = 2
      /\ both[1] = Frame("publish", m) /\ both[2] = Frame("ack", m)
  BY FrameType
<1>3. /\ Verdict("kAck", m) = <<Frame("ack", m)>>
      /\ Verdict("kReject", m) = <<Frame("reject", m)>>
      /\ Verdict("kRequeue", m) = <<Frame("requeue", m)>>
  BY DEF Verdict
<1> HIDE DEF both
<1>4. \/ m \notin Useful /\ HandleRawArticles(m) = <<Frame("reject", m)>>
      \/ m \notin Useful /\ HandleRawArticles(m) = <<Frame("ack", m)>>
      \/ channel # "ready" /\ HandleRawArticles(m) = <<Frame("requeue", m)>>
      \/ channel = "ready" /\ HandleRawArticles(m) = both
  BY <1>3 DEF HandleRawArticles, Useful, both
<1>5. QED
  BY <1>1, <1>2, <1>4, FrameType

-----------------------------------------------------------------------------
(* Type correctness                                                        *)

LEMMA TypeStep == TypeOK /\ [Next]_vars => TypeOK'
<1> SUFFICES ASSUME TypeOK, [Next]_vars PROVE TypeOK'
  OBVIOUS
<1> USE DEF TypeOK, broker
<1>1. CASE OpenSession
  BY <1>1, RelayAssumption DEF OpenSession, Sessions
<1>2. CASE LoseSession
  <2>1. session \in Sessions
    BY <1>2 DEF LoseSession
  <2>2. PICK k \in 0..Len(wire[session]) :
          wire' = [wire EXCEPT ![session] = SubSeq(@, 1, k)]
    BY <1>2 DEF LoseSession
  <2>3. SubSeq(wire[session], 1, k) \in Seq(Frames)
    BY <2>1, <2>2
  <2>4. QED
    BY <1>2, <2>1, <2>2, <2>3 DEF LoseSession
<1>3. CASE Stop
  BY <1>3 DEF Stop
<1>4. ASSUME NEW m \in Messages, Handle(m) PROVE TypeOK'
  <2>1. session \in Sessions
    BY <1>4 DEF Handle
  <2>2. wire[session] \o HandleRawArticles(m) \in Seq(Frames)
    BY <2>1, CallShape
  <2>3. QED
    BY <1>4, <2>1, <2>2 DEF Handle
<1>5. ASSUME NEW m \in Messages, Arrive(m) PROVE TypeOK'
  BY <1>5 DEF Arrive
<1>6. ASSUME NEW s \in Sessions, Receive(s) PROVE TypeOK'
  <2>1. Head(wire[s]) \in Frames /\ Tail(wire[s]) \in Seq(Frames)
    BY <1>6 DEF Receive
  <2>2. Head(wire[s]).msg \in Messages
    BY <2>1 DEF Frames
  <2>3. QED
    BY <1>6, <2>1, <2>2 DEF Receive
<1>7. ASSUME NEW s \in Sessions, DropSession(s) PROVE TypeOK'
  BY <1>7 DEF DropSession
<1>8. ASSUME NEW s \in Sessions, NEW m \in Messages, Deliver(s, m) PROVE TypeOK'
  BY <1>8 DEF Deliver
<1>9. CASE UNCHANGED vars
  BY <1>9 DEF vars
<1>10. QED
  BY <1>1, <1>2, <1>3, <1>4, <1>5, <1>6, <1>7, <1>8, <1>9 DEF Next

\* Queues, deliveries, frames and sessions keep their types.
THEOREM TypeCorrect == Spec => []TypeOK
<1>1. Init => TypeOK
  <2>1. <<>> \in Seq(Frames)
    OBVIOUS
  <2>2. QED
    BY <2>1, RelayAssumption DEF Init, TypeOK
<1>2. QED
  BY <1>1, TypeStep, PTL DEF Spec

-----------------------------------------------------------------------------
(* No loss                                                                 *)

Settles(f, m) == f.type \in {"ack", "reject"} /\ f.msg = m

\* On the wire of every session, what settles a useful page comes behind the
\* publish of its articles, unless these have arrived already.
PublishFirst ==
  \A m \in Useful, s \in Sessions : \A i \in 1..Len(wire[s]) :
    Settles(wire[s][i], m) =>
      parsed[m] > 0 \/ \E j \in 1..(i - 1) : wire[s][j] = Frame("publish", m)

IInv == NoLoss /\ PublishFirst

LEMMA PublishFirstStep ==
  TypeOK /\ PublishFirst /\ [Next]_vars => PublishFirst'
<1> SUFFICES ASSUME TypeOK, PublishFirst, [Next]_vars,
                    NEW m \in Useful, NEW s \in Sessions,
                    NEW i \in 1..Len(wire'[s]), Settles(wire'[s][i], m)
             PROVE  \/ parsed'[m] > 0
                    \/ \E j \in 1..(i - 1) : wire'[s][j] = Frame("publish", m)
  BY DEF PublishFirst
<1>m. m \in Messages
  BY DEF Useful
<1>w. wire[s] \in Seq(Frames) /\ parsed[m] \in Nat
  BY <1>m DEF TypeOK
\* A step that keeps frame i and everything before it keeps the fact.
<1>k. ASSUME i \in 1..Len(wire[s]), \A j \in 1..i : wire'[s][j] = wire[s][j],
             parsed'[m] = parsed[m]
      PROVE  \/ parsed'[m] > 0
             \/ \E j \in 1..(i - 1) : wire'[s][j] = Frame("publish", m)
  <2>1. Settles(wire[s][i], m)
    BY <1>k
  <2>2. parsed[m] > 0 \/ \E j \in 1..(i - 1) : wire[s][j] = Frame("publish", m)
    BY <1>k, <2>1 DEF PublishFirst
  <2>3. QED
    BY <1>k, <2>2
<1>1. CASE OpenSession
  BY <1>1, <1>k DEF OpenSession
<1>2. CASE LoseSession
  <2>1. PICK k \in 0..Len(wire[session]) :
          wire' = [wire EXCEPT ![session] = SubSeq(@, 1, k)]
    BY <1>2 DEF LoseSession
  <2>2. CASE s = session
    <3>1. wire'[s] = SubSeq(wire[s], 1, k) /\ k \in 0..Len(wire[s])
      BY <2>1, <2>2 DEF TypeOK
    <3>2. Len(wire'[s]) = k /\ \A j \in 1..k : wire'[s][j] = wire[s][j]
      BY <1>w, <3>1
    <3>3. i \in 1..Len(wire[s]) /\ \A j \in 1..i : wire'[s][j] = wire[s][j]
      BY <1>w, <3>1, <3>2
    <3>4. QED
      BY <1>2, <1>k, <3>3 DEF LoseSession, broker
  <2>3. CASE s # session
    BY <1>2, <1>k, <2>1, <2>3 DEF LoseSession, broker, TypeOK
  <2>4. QED
    BY <2>2, <2>3
<1>3. CASE Stop
  BY <1>3, <1>k DEF Stop, broker
<1>4. ASSUME NEW n \in Messages, Handle(n)
      PROVE  \/ parsed'[m] > 0
             \/ \E j \in 1..(i - 1) : wire'[s][j] = Frame("publish", m)
  <2>0. parsed' = parsed
    BY <1>4 DEF Handle, broker
  <2>1. CASE wire'[s] = wire[s]
    BY <1>k, <2>0, <2>1
  <2>2. CASE wire'[s] = wire[s] \o HandleRawArticles(n)
    <3> DEFINE call == HandleRawArticles(n)
    <3>1. call \in Seq(Frames)
      BY CallShape
    <3>2. /\ Len(wire'[s]) = Len(wire[s]) + Len(call)
          /\ \A j \in 1..Len(wire[s]) : wire'[s][j] = wire[s][j]
          /\ \A j \in 1..Len(call) : wire'[s][Len(wire[s]) + j] = call[j]
      BY <1>w, <2>2, <3>1
    <3> HIDE DEF call
    <3>3. CASE i \in 1..Len(wire[s])
      BY <1>k, <1>w, <2>0, <3>2, <3>3
    <3>4. CASE i \notin 1..Len(wire[s])
      <4> DEFINE c == i - Len(wire[s])
      <4>1. c \in 1..Len(call) /\ i = Len(wire[s]) + c
        BY <1>w, <3>1, <3>2, <3>4
      <4>2. Settles(call[c], m)
        BY <3>2, <4>1
      <4>3. call[1] = Frame("publish", n) /\ c = 2 /\ n = m
        <5>1. \/ n \notin Useful /\ Single(call, Frame("reject", n))
              \/ n \notin Useful /\ Single(call, Frame("ack", n))
              \/ Single(call, Frame("requeue", n))
              \/ /\ Len(call) = 2
                 /\ call[1] = Frame("publish", n)
                 /\ call[2] = Frame("ack", n)
          BY CallShape DEF call
        <5>2. CASE /\ Len(call) = 2
                   /\ call[1] = Frame("publish", n)
                   /\ call[2] = Frame("ack", n)
          <6>1. c \in {1, 2}
            BY <4>1, <5>2
          <6>2. QED
            BY <4>2, <5>2, <6>1 DEF Settles, Frame
        <5>3. ASSUME NEW type \in {"ack", "reject", "requeue"},
                     Single(call, Frame(type, n)),
                     n \in Useful => type = "requeue"
              PROVE  FALSE
          <6>1. c = 1 /\ call[1] = Frame(type, n)
            BY <4>1, <5>3 DEF Single
          <6>2. QED
            BY <4>2, <5>3, <6>1 DEF Settles, Frame
        <5>4. QED
          BY <5>1, <5>2, <5>3
      <4>4. wire'[s][Len(wire[s]) + 1] = Frame("publish", m)
        BY <3>2, <4>3
      <4>5. QED
        BY <1>w, <4>1, <4>3, <4>4
    <3>5. QED
      BY <3>3, <3>4
  <2>3. wire'[s] = wire[s] \/ wire'[s] = wire[s] \o HandleRawArticles(n)
    BY <1>4 DEF Handle, TypeOK
  <2>4. QED
    BY <2>1, <2>2, <2>3
<1>5. ASSUME NEW n \in Messages, Arrive(n)
      PROVE  \/ parsed'[m] > 0
             \/ \E j \in 1..(i - 1) : wire'[s][j] = Frame("publish", m)
  BY <1>5, <1>k DEF Arrive
<1>6. ASSUME NEW t \in Sessions, Receive(t)
      PROVE  \/ parsed'[m] > 0
             \/ \E j \in 1..(i - 1) : wire'[s][j] = Frame("publish", m)
  <2>1. parsed[m] > 0 => parsed'[m] > 0
    <3>1. \/ parsed' = parsed
          \/ parsed' = [parsed EXCEPT ![Head(wire[t]).msg] = @ + 1]
      BY <1>6 DEF Receive
    <3>2. parsed'[m] \in {parsed[m], parsed[m] + 1}
      BY <3>1, <1>m DEF TypeOK
    <3>3. QED
      BY <3>2, <1>w
  <2>2. CASE s # t
    <3>1. wire'[s] = wire[s]
      BY <1>6, <2>2 DEF Receive, TypeOK
    <3>2. QED
      BY <2>1, <3>1 DEF PublishFirst
  <2>3. CASE s = t
    <3>1. wire'[s] = Tail(wire[s]) /\ wire[s] # <<>>
      BY <1>6, <2>3 DEF Receive, TypeOK
    <3>2. /\ Len(wire[s]) = Len(wire'[s]) + 1
          /\ \A j \in 1..Len(wire'[s]) : wire'[s][j] = wire[s][j + 1]
      BY <1>w, <3>1
    <3>3. i + 1 \in 1..Len(wire[s]) /\ Settles(wire[s][i + 1], m)
      BY <1>w, <3>1, <3>2
    <3>4. CASE parsed[m] > 0
      BY <2>1, <3>4
    <3>5. ASSUME NEW j \in 1..i, wire[s][j] = Frame("publish", m)
          PROVE  \/ parsed'[m] > 0
                 \/ \E l \in 1..(i - 1) : wire'[s][l] = Frame("publish", m)
      <4>1. CASE j = 1
        <5>1. Head(wire[s]) = Frame("publish", m)
          BY <1>w, <3>1, <3>5, <4>1
        <5>2. Head(wire[s]).type = "publish" /\ Head(wire[s]).msg = m
          BY <5>1 DEF Frame
        <5>3. parsed' = [parsed EXCEPT ![m] = @ + 1]
          BY <1>6, <2>3, <5>2 DEF Receive
        <5>4. QED
          BY <1>m, <1>w, <5>3 DEF TypeOK
      <4>2. CASE j # 1
        <5>1. j - 1 \in 1..(i - 1) /\ wire'[s][j - 1] = wire[s][j]
          BY <3>1, <3>2, <3>5, <4>2
        <5>2. QED
          BY <3>5, <5>1
      <4>3. QED
        BY <4>1, <4>2
    <3>6. QED
      BY <3>3, <3>4, <3>5 DEF PublishFirst
  <2>4. QED
    BY <2>2, <2>3
<1>7. ASSUME NEW t \in Sessions, DropSession(t)
      PROVE  \/ parsed'[m] > 0
             \/ \E j \in 1..(i - 1) : wire'[s][j] = Frame("publish", m)
  <2>1. CASE s = t
    BY <1>7, <2>1 DEF DropSession, TypeOK
  <2>2. CASE s # t
    BY <1>7, <1>k, <2>2 DEF DropSession, TypeOK
  <2>3. QED
    BY <2>1, <2>2
<1>8. ASSUME NEW t \in Sessions, NEW n \in Messages, Deliver(t, n)
      PROVE  \/ parsed'[m] > 0
             \/ \E j \in 1..(i - 1) : wire'[s][j] = Frame("publish", m)
  BY <1>8, <1>k DEF Deliver
<1>9. CASE UNCHANGED vars
  BY <1>9, <1>k DEF vars, broker
<1>10. QED
  BY <1>1, <1>2, <1>3, <1>4, <1>5, <1>6, <1>7, <1>8, <1>9 DEF Next

LEMMA NoLossStep == TypeOK /\ IInv /\ [Next]_vars => NoLoss'
<1> SUFFICES ASSUME TypeOK, NoLoss, PublishFirst, [Next]_vars,
                    NEW m \in fetched' \cap Useful
             PROVE  Held(m)' \/ parsed'[m] > 0
  BY DEF IInv, NoLoss
<1>m. m \in Messages /\ m \in Useful
  BY DEF Useful
<1>h. m \in fetched => Held(m) \/ parsed[m] > 0
  BY DEF NoLoss
\* Steps that leave the broker's queues alone keep the fact.
<1>k. UNCHANGED <<fetched, queued, unacked, parsed>> /\ open \subseteq open'
        => Held(m)' \/ parsed'[m] > 0
  BY <1>h DEF Held
<1>1. CASE OpenSession
  BY <1>1, <1>k DEF OpenSession
<1>2. CASE LoseSession
  BY <1>2, <1>k DEF LoseSession, broker
<1>3. CASE Stop
  BY <1>3, <1>k DEF Stop, broker
<1>4. ASSUME NEW n \in Messages, Handle(n) PROVE Held(m)' \/ parsed'[m] > 0
  BY <1>4, <1>k DEF Handle, broker
<1>5. ASSUME NEW n \in Messages, Arrive(n) PROVE Held(m)' \/ parsed'[m] > 0
  BY <1>5, <1>h DEF Arrive, Held
<1>6. ASSUME NEW s \in Sessions, Receive(s) PROVE Held(m)' \/ parsed'[m] > 0
  <2> DEFINE f == Head(wire[s])
  <2>0. /\ wire[s] \in Seq(Frames) /\ Len(wire[s]) \in Nat /\ Len(wire[s]) >= 1
        /\ f = wire[s][1] /\ s \in open /\ m \in fetched /\ parsed[m] \in Nat
    BY <1>6, <1>m DEF Receive, TypeOK
  <2>1. CASE Settles(f, m)
    <3>1. parsed[m] > 0
      BY <1>m, <2>0, <2>1 DEF PublishFirst
    <3>2. parsed' = parsed
      BY <1>6, <2>1 DEF Receive, Settles
    <3>3. QED
      BY <3>1, <3>2
  <2>2. CASE f.type = "publish"
    <3>1. parsed'[m] \in {parsed[m], parsed[m] + 1}
      BY <1>6, <1>m, <2>2 DEF Receive, TypeOK
    <3>2. UNCHANGED <<queued, unacked, open>>
      BY <1>6, <2>2 DEF Receive
    <3>3. QED
      BY <1>h, <2>0, <3>1, <3>2 DEF Held
  <2>3. CASE f.type # "publish" /\ ~Settles(f, m)
    <3>1. UNCHANGED <<parsed, open>>
      BY <1>6, <2>3 DEF Receive
    <3>2. unacked' = [unacked EXCEPT ![s] = @ \ {f.msg}] /\ queued \subseteq queued'
      BY <1>6, <2>3 DEF Receive
    <3>3. f.msg = m => m \in queued'
      BY <1>6, <2>3 DEF Receive, Settles
    <3>4. \A t \in open : m \in unacked[t] => m \in unacked'[t] \/ m \in queued'
      BY <3>2, <3>3 DEF TypeOK
    <3>5. QED
      BY <1>h, <2>0, <3>1, <3>2, <3>4 DEF Held
  <2>4. QED
    BY <2>1, <2>2, <2>3
<1>7. ASSUME NEW s \in Sessions, DropSession(s) PROVE Held(m)' \/ parsed'[m] > 0
  BY <1>7, <1>h DEF DropSession, Held, TypeOK
<1>8. ASSUME NEW s \in Sessions, NEW n \in Messages, Deliver(s, n)
      PROVE  Held(m)' \/ parsed'[m] > 0
  BY <1>8, <1>h DEF Deliver, Held, TypeOK
<1>9. CASE UNCHANGED vars
  BY <1>9, <1>k DEF vars, broker
<1>10. QED
  BY <1>1, <1>2, <1>3, <1>4, <1>5, <1>6, <1>7, <1>8, <1>9 DEF Next

\* A page with articles never leaves the broker's custody before its articles
\* are in parsed_articles.
THEOREM NoPageLost == Spec => []NoLoss
<1>1. Init => IInv
  BY DEF Init, IInv, NoLoss, PublishFirst
<1>2. TypeOK /\ IInv /\ [Next]_vars => IInv'
  BY NoLossStep, PublishFirstStep DEF IInv
<1>3. IInv => NoLoss
  BY DEF IInv
<1>4. QED
  BY <1>1, <1>2, <1>3, TypeCorrect, PTL DEF Spec
-----------------------------------------------------------------------------
(* One verdict per delivery                                                *)

\* A verdict for m is on its way on session s.
Settling(s, m) ==
  \E i \in 1..Len(wire[s]) : IsVerdict(wire[s][i]) /\ wire[s][i].msg = m

\* A page is in one place of the broker at most.
OnePlace ==
  /\ queued \subseteq fetched
  /\ \A s \in Sessions :
       /\ s \notin open => unacked[s] = {}
       /\ unacked[s] \subseteq fetched
       /\ unacked[s] \cap queued = {}
       /\ \A t \in Sessions \ {s} : unacked[s] \cap unacked[t] = {}

\* Channels that are not open yet have seen nothing.
NotYetOpen ==
  \A s \in Sessions : s > session => s \notin open /\ wire[s] = <<>>

\* What the parser has still to handle is delivered on its channel, and its
\* verdict is still to be sent.
InboxInv ==
  /\ channel = "down" => inbox = {}
  /\ session \in open =>
       \A m \in inbox : m \in unacked[session] /\ ~Settling(session, m)

CustodyInv == OnePlace /\ NotYetOpen /\ InboxInv /\ OneVerdictPerDelivery

\* Until a signal, no page is given back on the parser's channel.
NoRequeue ==
  channel = "ready" =>
    \A i \in 1..Len(wire[session]) : wire[session][i].type # "requeue"

\* The current channel may still carry a copy of m.
MayPublish(m) ==
  /\ channel = "ready" /\ session \in open
  /\ ~Settling(session, m)
  /\ m \in fetched => Held(m)

\* Every session pays for one copy: the current one has not yet while it may
\* still carry it.
CopiesInv ==
  /\ NoRequeue
  /\ \A m \in Messages :
       /\ IsFiniteSet(InFlight(m))
       /\ parsed[m] + Cardinality(InFlight(m)) <= session
       /\ MayPublish(m) => parsed[m] + Cardinality(InFlight(m)) < session
-----------------------------------------------------------------------------
(* What the steps do to the wires                                          *)

\* A handler appends frames about its page, the one verdict last.
LEMMA HandleAppends ==
  ASSUME TypeOK, NEW m \in Messages, Handle(m)
  PROVE  /\ session \in Sessions
         /\ \A s \in Sessions \ {session} : wire'[s] = wire[s]
         /\ \/ wire'[session] = wire[session]
            \/ LET old == wire[session]
                   new == wire'[session]
               IN  /\ Len(old) < Len(new)
                   /\ \A j \in 1..Len(old) : new[j] = old[j]
                   /\ \A j \in (Len(old) + 1)..Len(new) :
                        /\ new[j].msg = m
                        /\ IsVerdict(new[j]) <=> j = Len(new)
                        /\ new[j].type = "requeue" => channel # "ready"
                        /\ new[j].type = "publish" =>
                             channel = "ready" /\ j = Len(old) + 1
<1> DEFINE call == HandleRawArticles(m)
           old == wire[session]
           new == wire'[session]
<1>1. session \in Sessions
  BY DEF Handle, TypeOK
<1>2. CASE wire' = wire
  BY <1>1, <1>2
<1>3. CASE wire' = [wire EXCEPT ![session] = @ \o call]
  <2>1. old \in Seq(Frames) /\ call \in Seq(Frames)
    BY <1>1, CallShape DEF TypeOK
  <2>2. new = old \o call /\ \A s \in Sessions \ {session} : wire'[s] = wire[s]
    BY <1>1, <1>3 DEF TypeOK
  <2>3. \/ /\ Len(call) = 1 /\ IsVerdict(call[1]) /\ call[1].msg = m
           /\ call[1].type = "requeue" => channel # "ready"
        \/ /\ Len(call) = 2 /\ channel = "ready"
           /\ call[1].type = "publish" /\ call[1].msg = m
           /\ call[2].type = "ack" /\ call[2].msg = m
    <3>1. \A type \in {"publish", "ack", "reject", "requeue"} :
            /\ Frame(type, m).type = type /\ Frame(type, m).msg = m
            /\ IsVerdict(Frame(type, m)) <=> type # "publish"
      BY DEF Frame, IsVerdict
    <3>2. \/ Single(call, Frame("reject", m)) \/ Single(call, Frame("ack", m))
          \/ channel # "ready" /\ Single(call, Frame("requeue", m))
          \/ /\ channel = "ready" /\ Len(call) = 2
             /\ call[1] = Frame("publish", m) /\ call[2] = Frame("ack", m)
      BY CallShape
    <3> HIDE DEF call
    <3>3. QED
      BY <3>1, <3>2 DEF Single
  <2> HIDE DEF call, old, new
  <2>4. /\ Len(new) = Len(old) + Len(call)
        /\ \A j \in 1..Len(old) : new[j] = old[j]
        /\ \A j \in 1..Len(call) : new[Len(old) + j] = call[j]
        /\ Len(old) \in Nat /\ Len(call) \in Nat
    BY <2>1, <2>2
  <2>5. CASE Len(call) = 1
    <3>1. Len(new) = Len(old) + 1 /\ new[Len(old) + 1] = call[1]
      BY <2>4, <2>5
    <3>2. IsVerdict(call[1]) /\ call[1].msg = m /\ (call[1].type = "requeue" => channel # "ready")
      BY <2>3, <2>5
    <3>3. ASSUME NEW j \in (Len(old) + 1)..Len(new)
          PROVE  j = Len(new) /\ new[j] = call[1]
      BY <2>4, <3>1, <3>3
    <3>4. QED
      BY <1>1, <2>2, <2>4, <3>1, <3>2, <3>3 DEF IsVerdict, old, new
  <2>6. CASE Len(call) = 2
    <3>1. /\ Len(new) = Len(old) + 2
          /\ new[Len(old) + 1] = call[1] /\ new[Len(old) + 2] = call[2]
      BY <2>4, <2>6
    <3>2. /\ channel = "ready" /\ call[1].type = "publish" /\ call[1].msg = m
          /\ call[2].type = "ack" /\ call[2].msg = m
      BY <2>3, <2>6
    <3>3. ASSUME NEW j \in (Len(old) + 1)..Len(new)
          PROVE  \/ j = Len(old) + 1 /\ j # Len(new) /\ new[j] = call[1]
                 \/ j = Len(old) + 2 /\ j = Len(new) /\ new[j] = call[2]
      BY <2>4, <3>1, <3>3
    <3>4. ASSUME NEW j \in (Len(old) + 1)..Len(new)
          PROVE  /\ new[j].msg = m
                 /\ IsVerdict(new[j]) <=> j = Len(new)
                 /\ new[j].type = "requeue" => channel # "ready"
                 /\ new[j].type = "publish" =>
                      channel = "ready" /\ j = Len(old) + 1
      BY <3>2, <3>3 DEF IsVerdict
    <3>5. Len(old) < Len(new)
      BY <2>4, <3>1
    <3>6. QED
      BY <1>1, <2>2, <2>4, <3>4, <3>5 DEF old, new
  <2>7. QED
    BY <2>3, <2>5, <2>6
<1>4. QED
  BY <1>2, <1>3 DEF Handle

\* The broker takes the first frame of a wire and does what it says.
LEMMA ReceiveEffect ==
  ASSUME TypeOK, NEW t \in Sessions, Receive(t)
  PROVE  /\ wire[t][1] \in Frames
         /\ Len(wire[t]) = Len(wire'[t]) + 1
         /\ \A j \in 1..Len(wire'[t]) : wire'[t][j] = wire[t][j + 1]
         /\ \A s \in Sessions \ {t} : wire'[s] = wire[s]
         /\ t \in open /\ UNCHANGED <<fetched, open, session, channel, inbox>>
         /\ \/ /\ ~IsVerdict(wire[t][1])
               /\ parsed' = [parsed EXCEPT ![wire[t][1].msg] = @ + 1]
               /\ UNCHANGED <<queued, unacked>>
            \/ /\ IsVerdict(wire[t][1])
               /\ unacked' = [unacked EXCEPT ![t] = @ \ {wire[t][1].msg}]
               /\ \/ queued' = queued
                  \/ /\ wire[t][1].type = "requeue"
                     /\ queued' = queued \union {wire[t][1].msg}
               /\ UNCHANGED parsed
<1>1. wire[t] \in Seq(Frames) /\ wire[t] # <<>>
  BY DEF Receive, TypeOK
<1>2. wire'[t] = Tail(wire[t]) /\ \A s \in Sessions \ {t} : wire'[s] = wire[s]
  BY DEF Receive, TypeOK
<1>3. Head(wire[t]) = wire[t][1] /\ wire[t][1] \in Frames
  BY <1>1
<1>4. /\ Len(wire[t]) = Len(wire'[t]) + 1
      /\ \A j \in 1..Len(wire'[t]) : wire'[t][j] = wire[t][j + 1]
  BY <1>1, <1>2
<1>5. QED
  BY <1>2, <1>3, <1>4 DEF Receive, IsVerdict

Shortened(s) ==
  /\ Len(wire'[s]) <= Len(wire[s])
  /\ \A i \in 1..Len(wire'[s]) : wire'[s][i] = wire[s][i]

\* All other steps leave of each wire what was there, or its first frames.
LEMMA OthersShorten ==
  ASSUME TypeOK, [Next]_vars, NEW s \in Sessions
  PROVE  \/ \E m \in Messages : Handle(m)
         \/ \E t \in Sessions : Receive(t)
         \/ Shortened(s)
<1>1. wire[s] \in Seq(Frames) /\ Len(wire[s]) \in Nat
  BY DEF TypeOK
<1>2. ASSUME wire' = wire PROVE Shortened(s)
  BY <1>1, <1>2 DEF Shortened
<1>3. CASE LoseSession
  <2>1. PICK k \in 0..Len(wire[session]) :
          wire' = [wire EXCEPT ![session] = SubSeq(@, 1, k)]
    BY <1>3 DEF LoseSession
  <2>2. CASE s = session
    <3>1. wire'[s] = SubSeq(wire[s], 1, k) /\ k \in 0..Len(wire[s])
      BY <2>1, <2>2 DEF TypeOK
    <3>2. QED
      BY <1>1, <3>1 DEF Shortened
  <2>3. CASE s # session
    <3>1. wire'[s] = wire[s]
      BY <2>1, <2>3 DEF TypeOK
    <3>2. QED
      BY <1>1, <3>1 DEF Shortened
  <2>4. QED
    BY <2>2, <2>3
<1>4. ASSUME NEW t \in Sessions, DropSession(t) PROVE Shortened(s)
  <2>1. wire'[s] = <<>> \/ wire'[s] = wire[s]
    BY <1>4 DEF DropSession, TypeOK
  <2>2. QED
    BY <1>1, <2>1 DEF Shortened
<1>5. QED
  BY <1>2, <1>3, <1>4 DEF Next, OpenSession, Stop, Arrive, Deliver, vars
-----------------------------------------------------------------------------
(* One verdict per delivery, step by step                                  *)

\* OneVerdictPerDelivery on one session.
VerdictsSettle(s) ==
  \A i \in 1..Len(wire[s]) :
    IsVerdict(wire[s][i]) =>
      /\ wire[s][i].msg \in unacked[s]
      /\ \A j \in 1..Len(wire[s]) :
           IsVerdict(wire[s][j]) /\ wire[s][j].msg = wire[s][i].msg => j = i

\* The property says the same of every open session.
LEMMA VerdictsBySession ==
  ASSUME TypeOK
  PROVE  OneVerdictPerDelivery <=> \A s \in open : VerdictsSettle(s)
<1>1. \A s \in open : DOMAIN wire[s] = 1..Len(wire[s])
  BY DEF TypeOK
<1>2. QED
  BY <1>1 DEF OneVerdictPerDelivery, VerdictsSettle

\* A page moves from the queue to one session and from there back at most.
LEMMA OnePlaceStep ==
  ASSUME TypeOK, OnePlace, NotYetOpen, OneVerdictPerDelivery, [Next]_vars
  PROVE  OnePlace'
<1> USE DEF OnePlace
<1>1. ASSUME UNCHANGED <<fetched, queued, unacked>>, open \subseteq open'
      PROVE  OnePlace'
  BY <1>1
<1>2. CASE OpenSession \/ LoseSession \/ Stop \/ UNCHANGED vars
  BY <1>1, <1>2 DEF OpenSession, LoseSession, Stop, vars, broker
<1>3. ASSUME NEW m \in Messages, Handle(m) PROVE OnePlace'
  BY <1>1, <1>3 DEF Handle, broker
<1>4. ASSUME NEW m \in Messages, Arrive(m) PROVE OnePlace'
  BY <1>4 DEF Arrive, TypeOK
<1>5. ASSUME NEW t \in Sessions, Receive(t) PROVE OnePlace'
  <2> DEFINE f == wire[t][1]
  <2>1. /\ t \in open /\ UNCHANGED <<fetched, open>>
        /\ \/ UNCHANGED <<queued, unacked>>
           \/ /\ IsVerdict(f)
              /\ unacked' = [unacked EXCEPT ![t] = @ \ {f.msg}]
              /\ queued' = queued \/ queued' = queued \union {f.msg}
    BY <1>5, ReceiveEffect
  <2>2. Len(wire'[t]) \in Nat /\ Len(wire[t]) = Len(wire'[t]) + 1
    BY <1>5, ReceiveEffect, TypeStep DEF TypeOK
  <2>3. IsVerdict(f) => f.msg \in unacked[t]
    BY <2>1, <2>2, VerdictsBySession DEF VerdictsSettle
  <2>4. CASE UNCHANGED <<queued, unacked>>
    BY <1>1, <2>1, <2>4
  <2>5. CASE /\ IsVerdict(f)
             /\ unacked' = [unacked EXCEPT ![t] = @ \ {f.msg}]
             /\ queued' = queued \/ queued' = queued \union {f.msg}
    <3> HIDE DEF f
    <3>1. /\ unacked'[t] = unacked[t] \ {f.msg}
          /\ \A s \in Sessions \ {t} : unacked'[s] = unacked[s]
      BY <2>5 DEF TypeOK
    <3>2. \A s \in Sessions \ {t} : f.msg \notin unacked[s]
      BY <2>3, <2>5
    <3>3. f.msg \in fetched
      BY <2>3, <2>5
    <3>4. QED
      BY <2>1, <2>5, <3>1, <3>2, <3>3
  <2>6. QED
    BY <2>1, <2>4, <2>5
<1>6. ASSUME NEW t \in Sessions, DropSession(t) PROVE OnePlace'
  <2>1. /\ unacked'[t] = {} /\ \A s \in Sessions \ {t} : unacked'[s] = unacked[s]
        /\ open' = open \ {t} /\ queued' = queued \union unacked[t] /\ fetched' = fetched
    BY <1>6 DEF DropSession, TypeOK
  <2>2. QED
    BY <2>1
<1>7. ASSUME NEW t \in Sessions, NEW m \in Messages, Deliver(t, m) PROVE OnePlace'
  <2>1. /\ unacked'[t] = unacked[t] \union {m}
        /\ \A s \in Sessions \ {t} : unacked'[s] = unacked[s]
        /\ queued' = queued \ {m} /\ m \in queued /\ t \in open
        /\ UNCHANGED <<fetched, open>>
    BY <1>7 DEF Deliver, TypeOK
  <2>2. QED
    BY <2>1
<1>8. QED
  BY <1>2, <1>3, <1>4, <1>5, <1>6, <1>7 DEF Next

\* Nobody sends on a channel before it is opened.
LEMMA NotYetOpenStep ==
  ASSUME TypeOK, NotYetOpen, [Next]_vars
  PROVE  NotYetOpen'
<1> SUFFICES ASSUME NEW s \in Sessions, s > session'
             PROVE  s \notin open' /\ wire'[s] = <<>>
  BY DEF NotYetOpen
<1>1. session' = session \/ session' = session + 1
  BY DEF Next, OpenSession, LoseSession, Stop, Handle, Arrive, Receive, DropSession,
         Deliver, vars, broker
<1>2. session \in Nat /\ s \in Nat
  BY RelayAssumption DEF TypeOK, Sessions
<1>3. s > session /\ s # session
  BY <1>1, <1>2
<1>4. s \notin open /\ wire[s] = <<>>
  BY <1>3 DEF NotYetOpen
<1>5. wire'[s] = wire[s]
  <2>1. ASSUME NEW m \in Messages, Handle(m) PROVE wire'[s] = wire[s]
    BY <1>3, <2>1, HandleAppends
  <2>2. ASSUME NEW t \in Sessions, Receive(t) PROVE wire'[s] = wire[s]
    BY <1>4, <2>2, ReceiveEffect
  <2>3. CASE Shortened(s)
    <3>1. wire'[s] \in Seq(Frames) /\ Len(wire'[s]) <= 0
      BY <1>4, <2>3, TypeStep DEF Shortened, TypeOK
    <3>2. QED
      BY <1>4, <3>1
  <2>4. QED
    BY <2>1, <2>2, <2>3, OthersShorten
<1>6. s \notin open'
  BY <1>2, <1>3, <1>4 DEF Next, OpenSession, LoseSession, Stop, Handle, Arrive,
     Receive, DropSession, Deliver, vars, broker
<1>7. QED
  BY <1>4, <1>5, <1>6
\* A handler's verdict is the first for a delivery of its session, and a
\* verdict that arrives takes with it what it settles.
LEMMA VerdictStep ==
  ASSUME TypeOK, CustodyInv, [Next]_vars, NEW s \in open'
  PROVE  VerdictsSettle(s)'
<1>t. TypeOK' /\ s \in Sessions /\ open' \subseteq Sessions
  BY TypeStep DEF TypeOK
<1>l. Len(wire[s]) \in Nat /\ Len(wire'[s]) \in Nat
  BY <1>t DEF TypeOK
<1>o. s \in open => VerdictsSettle(s)
  BY VerdictsBySession DEF CustodyInv
<1>1. ASSUME s \in open, Shortened(s), unacked[s] \subseteq unacked'[s]
      PROVE  VerdictsSettle(s)'
  BY <1>1, <1>l, <1>o DEF Shortened, VerdictsSettle
<1>2. ASSUME Shortened(s), wire[s] = <<>>
      PROVE  VerdictsSettle(s)'
  <2>1. Len(wire'[s]) = 0
    BY <1>2, <1>l DEF Shortened
  <2>2. QED
    BY <2>1 DEF VerdictsSettle
<1>3. ASSUME NEW m \in Messages, Handle(m) PROVE VerdictsSettle(s)'
  <2>1. m \in inbox /\ UNCHANGED <<open, unacked>> /\ s \in open
    BY <1>3 DEF Handle, broker
  <2>2. CASE wire'[s] = wire[s]
    BY <2>1, <2>2, <1>o DEF VerdictsSettle
  <2>3. CASE wire'[s] # wire[s]
    <3>1. s = session
      BY <1>3, <1>t, <2>3, HandleAppends
    <3>2. /\ Len(wire[s]) < Len(wire'[s])
          /\ \A j \in 1..Len(wire[s]) : wire'[s][j] = wire[s][j]
          /\ \A j \in (Len(wire[s]) + 1)..Len(wire'[s]) :
               /\ wire'[s][j].msg = m
               /\ IsVerdict(wire'[s][j]) <=> j = Len(wire'[s])
      BY <1>3, <2>3, <3>1, HandleAppends
    <3>3. m \in unacked[s] /\ ~Settling(s, m)
      BY <2>1, <3>1 DEF CustodyInv, InboxInv
    <3>4. ASSUME NEW i \in 1..Len(wire'[s]), IsVerdict(wire'[s][i])
          PROVE  \/ i \in 1..Len(wire[s]) /\ wire'[s][i] = wire[s][i] /\ wire[s][i].msg # m
                 \/ i = Len(wire'[s]) /\ wire'[s][i].msg = m
      <4>1. CASE i \in 1..Len(wire[s])
        BY <3>2, <3>3, <3>4, <4>1 DEF Settling
      <4>2. CASE i \in (Len(wire[s]) + 1)..Len(wire'[s])
        BY <3>2, <3>4, <4>2
      <4>3. QED
        BY <1>l, <4>1, <4>2
    <3>5. QED
      BY <1>o, <2>1, <3>3, <3>4 DEF VerdictsSettle
  <2>4. QED
    BY <2>2, <2>3
<1>4. ASSUME NEW t \in Sessions, Receive(t) PROVE VerdictsSettle(s)'
  <2> DEFINE f == wire[t][1]
  <2>1. s \in open
    BY <1>4, ReceiveEffect
  <2>2. CASE s # t
    <3>1. wire'[s] = wire[s] /\ unacked'[s] = unacked[s]
      BY <1>4, <1>t, <2>2, ReceiveEffect DEF TypeOK
    <3>2. QED
      BY <1>o, <2>1, <3>1 DEF VerdictsSettle
  <2>3. CASE s = t
    <3>1. /\ Len(wire[s]) = Len(wire'[s]) + 1
          /\ \A j \in 1..Len(wire'[s]) : wire'[s][j] = wire[s][j + 1]
      BY <1>4, <2>3, ReceiveEffect
    <3>2. \/ ~IsVerdict(f) /\ unacked' = unacked
          \/ IsVerdict(f) /\ unacked' = [unacked EXCEPT ![t] = @ \ {f.msg}]
      BY <1>4, ReceiveEffect
    <3>3. unacked'[s] = unacked[s] \/ (IsVerdict(f) /\ unacked'[s] = unacked[s] \ {f.msg})
      BY <2>3, <3>2 DEF TypeOK
    <3>4. ASSUME NEW i \in 1..Len(wire'[s]), IsVerdict(wire'[s][i])
          PROVE  /\ wire'[s][i].msg \in unacked'[s]
                 /\ \A j \in 1..Len(wire'[s]) :
                      IsVerdict(wire'[s][j]) /\ wire'[s][j].msg = wire'[s][i].msg => j = i
      <4>1. i + 1 \in 1..Len(wire[s]) /\ wire'[s][i] = wire[s][i + 1]
            /\ 1 \in 1..Len(wire[s]) /\ i + 1 # 1
        BY <1>l, <3>1, <3>4
      <4>2. wire[s][i + 1].msg \in unacked[s]
        BY <1>o, <2>1, <3>4, <4>1 DEF VerdictsSettle
      <4>3. IsVerdict(f) => wire[s][i + 1].msg # f.msg
        BY <1>o, <2>1, <2>3, <3>4, <4>1 DEF VerdictsSettle
      <4>4. ASSUME NEW j \in 1..Len(wire'[s]), IsVerdict(wire'[s][j]),
                   wire'[s][j].msg = wire'[s][i].msg
            PROVE  j = i
        <5>1. j + 1 \in 1..Len(wire[s]) /\ wire'[s][j] = wire[s][j + 1]
          BY <1>l, <3>1, <4>4
        <5>2. j + 1 = i + 1
          BY <1>o, <2>1, <3>4, <4>1, <4>4, <5>1 DEF VerdictsSettle
        <5>3. QED
          BY <5>2
      <4>5. QED
        BY <3>3, <4>1, <4>2, <4>3, <4>4
    <3>5. QED
      BY <3>4 DEF VerdictsSettle
  <2>4. QED
    BY <2>2, <2>3
<1>5. CASE Shortened(s)
  <2>1. CASE OpenSession
    <3>1. s \in open \/ s = session + 1
      BY <2>1 DEF OpenSession
    <3>2. session \in Nat /\ (s = session + 1 => s > session)
      BY RelayAssumption DEF TypeOK
    <3>3. unacked' = unacked
      BY <2>1 DEF OpenSession
    <3>4. QED
      BY <1>1, <1>2, <1>5, <1>t, <3>1, <3>2, <3>3 DEF CustodyInv, NotYetOpen
  <2>2. CASE LoseSession \/ Stop \/ UNCHANGED vars \/ \E m \in Messages : Arrive(m)
    <3>1. UNCHANGED <<open, unacked>>
      BY <2>2 DEF LoseSession, Stop, Arrive, vars, broker
    <3>2. QED
      BY <1>1, <1>5, <3>1
  <2>3. ASSUME NEW t \in Sessions, DropSession(t) PROVE VerdictsSettle(s)'
    <3>1. s \in open /\ s # t
      BY <2>3 DEF DropSession
    <3>2. unacked'[s] = unacked[s]
      BY <1>t, <2>3, <3>1 DEF DropSession, TypeOK
    <3>3. QED
      BY <1>1, <1>5, <3>1, <3>2
  <2>4. ASSUME NEW t \in Sessions, NEW m \in Messages, Deliver(t, m)
        PROVE  VerdictsSettle(s)'
    <3>1. s \in open /\ unacked[s] \subseteq unacked'[s]
      BY <1>t, <2>4 DEF Deliver, TypeOK
    <3>2. QED
      BY <1>1, <1>5, <3>1
  <2>5. QED
    BY <1>3, <1>4, <2>1, <2>2, <2>3, <2>4 DEF Next
<1>6. QED
  BY <1>3, <1>4, <1>5, <1>t, OthersShorten

\* What is still to be handled is still to be settled.
LEMMA InboxStep ==
  ASSUME TypeOK, CustodyInv, [Next]_vars
  PROVE  InboxInv'
<1> USE DEF CustodyInv
<1>t. /\ TypeOK' /\ inbox \subseteq Messages /\ inbox' \subseteq Messages
      /\ \A s \in Sessions : Len(wire[s]) \in Nat /\ Len(wire'[s]) \in Nat
  BY TypeStep DEF TypeOK
<1>2. CASE OpenSession
  <2>1. inbox' = {}
    BY <1>2 DEF OpenSession, InboxInv
  <2>2. QED
    BY <2>1 DEF InboxInv
<1>3. CASE LoseSession
  BY <1>3 DEF LoseSession, InboxInv
<1>4. ASSUME NEW m \in Messages, Handle(m) PROVE InboxInv'
  <2>1. /\ m \in inbox /\ inbox' = inbox \ {m} /\ channel # "down"
        /\ UNCHANGED <<open, unacked, session, channel>> /\ session \in Sessions
    BY <1>4, HandleAppends DEF Handle, broker
  <2>2. ASSUME session \in open, NEW n \in inbox'
        PROVE  n \in unacked[session] /\ ~Settling(session, n)'
    <3>1. n \in unacked[session] /\ ~Settling(session, n) /\ n # m
      BY <2>1, <2>2 DEF InboxInv
    <3>2. ASSUME NEW i \in 1..Len(wire'[session]), IsVerdict(wire'[session][i]),
                 wire'[session][i].msg = n
          PROVE  FALSE
      <4>1. \/ i \in 1..Len(wire[session]) /\ wire'[session][i] = wire[session][i]
            \/ wire'[session][i].msg = m
        <5>1. CASE wire'[session] = wire[session]
          BY <5>1
        <5>2. CASE wire'[session] # wire[session]
          <6>1. /\ \A j \in 1..Len(wire[session]) : wire'[session][j] = wire[session][j]
                /\ \A j \in (Len(wire[session]) + 1)..Len(wire'[session]) :
                     wire'[session][j].msg = m
            BY <1>4, <5>2, HandleAppends
          <6>2. \/ i \in 1..Len(wire[session])
                \/ i \in (Len(wire[session]) + 1)..Len(wire'[session])
            BY <1>t, <2>1
          <6>3. QED
            BY <6>1, <6>2
        <5>3. QED
          BY <5>1, <5>2
      <4>2. QED
        BY <3>1, <3>2, <4>1 DEF Settling
    <3>3. QED
      BY <2>1, <3>1, <3>2 DEF Settling
  <2>3. QED
    BY <2>1, <2>2 DEF InboxInv
<1>5. ASSUME NEW t \in Sessions, Receive(t) PROVE InboxInv'
  <2> DEFINE f == wire[t][1]
  <2>1. /\ UNCHANGED <<open, session, channel, inbox>> /\ t \in open
        /\ Len(wire[t]) = Len(wire'[t]) + 1
        /\ \A j \in 1..Len(wire'[t]) : wire'[t][j] = wire[t][j + 1]
        /\ \A s \in Sessions \ {t} : wire'[s] = wire[s]
        /\ \/ unacked' = unacked
           \/ IsVerdict(f) /\ unacked' = [unacked EXCEPT ![t] = @ \ {f.msg}]
    BY <1>5, ReceiveEffect
  <2>2. ASSUME session \in open, NEW n \in inbox
        PROVE  n \in unacked'[session] /\ ~Settling(session, n)'
    <3>1. n \in unacked[session] /\ ~Settling(session, n)
      BY <2>2 DEF InboxInv
    <3>2. session \in Sessions
      BY <2>2 DEF TypeOK
    <3>3. CASE session # t
      <4>1. unacked'[session] = unacked[session] /\ wire'[session] = wire[session]
        BY <2>1, <3>2, <3>3 DEF TypeOK
      <4>2. QED
        BY <2>1, <3>1, <4>1 DEF Settling
    <3>4. CASE session = t
      <4>1. 1 \in 1..Len(wire[t]) /\ \A j \in 1..Len(wire'[t]) : j + 1 \in 1..Len(wire[t])
        BY <1>t, <2>1
      <4>2. IsVerdict(f) => f.msg # n
        BY <3>1, <3>4, <4>1 DEF Settling
      <4>3. n \in unacked'[session]
        BY <2>1, <3>1, <3>2, <3>4, <4>2 DEF TypeOK
      <4>4. ~Settling(session, n)'
        BY <2>1, <3>1, <3>4, <4>1 DEF Settling
      <4>5. QED
        BY <4>3, <4>4
    <3>5. QED
      BY <3>3, <3>4
  <2>3. QED
    BY <2>1, <2>2 DEF InboxInv
<1>6. ASSUME Stop \/ UNCHANGED vars \/ \E m \in Messages : Arrive(m)
      PROVE  InboxInv'
  <2>1. UNCHANGED <<open, unacked, session, wire, inbox>>
        /\ (channel' = "down" => channel = "down")
    BY <1>6 DEF Stop, Arrive, vars, broker
  <2>2. QED
    BY <2>1 DEF InboxInv, Settling
<1>7. ASSUME NEW t \in Sessions, DropSession(t) PROVE InboxInv'
  <2>1. /\ UNCHANGED <<session, channel, inbox>> /\ open' = open \ {t}
        /\ \A s \in Sessions \ {t} : unacked'[s] = unacked[s] /\ wire'[s] = wire[s]
    BY <1>7 DEF DropSession, TypeOK
  <2>2. session \in open' => session \in Sessions \ {t}
    BY <2>1 DEF TypeOK
  <2>3. QED
    BY <2>1, <2>2 DEF InboxInv, Settling
<1>8. ASSUME NEW t \in Sessions, NEW m \in Messages, Deliver(t, m) PROVE InboxInv'
  <2>1. /\ UNCHANGED <<session, channel, open, wire>> /\ t \in open /\ m \in queued
        /\ unacked'[t] = unacked[t] \union {m}
        /\ \A s \in Sessions \ {t} : unacked'[s] = unacked[s]
        /\ inbox' = IF t = session /\ channel # "down" THEN inbox \union {m} ELSE inbox
    BY <1>8 DEF Deliver, TypeOK
  <2>2. ASSUME session \in open, NEW n \in inbox'
        PROVE  n \in unacked'[session] /\ ~Settling(session, n)
    <3>1. session \in Sessions
      BY <2>2 DEF TypeOK
    <3>2. CASE n \in inbox
      BY <2>1, <2>2, <3>1, <3>2 DEF InboxInv
    <3>3. CASE n \notin inbox
      <4>1. n = m /\ t = session
        BY <2>1, <2>2, <3>3
      <4>2. m \notin unacked[t]
        BY <2>1, <3>1, <4>1 DEF OnePlace
      <4>3. VerdictsSettle(t)
        BY <2>1, VerdictsBySession
      <4>4. QED
        BY <2>1, <4>1, <4>2, <4>3 DEF VerdictsSettle, Settling
    <3>4. QED
      BY <3>2, <3>3
  <2>3. QED
    BY <2>1, <2>2 DEF InboxInv, Settling
<1>9. QED
  BY <1>2, <1>3, <1>4, <1>5, <1>6, <1>7, <1>8 DEF Next
\* Queue, deliveries, inbox and verdicts agree in every reachable state.
LEMMA CustodyAlways == Spec => []CustodyInv
<1>1. Init => CustodyInv
  BY DEF Init, CustodyInv, OnePlace, NotYetOpen, InboxInv, OneVerdictPerDelivery
<1>2. TypeOK /\ CustodyInv /\ [Next]_vars => CustodyInv'
  <2> SUFFICES ASSUME TypeOK, CustodyInv, [Next]_vars PROVE CustodyInv'
    OBVIOUS
  <2>1. OnePlace' /\ NotYetOpen'
    BY OnePlaceStep, NotYetOpenStep DEF CustodyInv
  <2>2. InboxInv'
    BY InboxStep
  <2>3. TypeOK' /\ \A s \in open' : VerdictsSettle(s)'
    BY TypeStep, VerdictStep
  <2>4. OneVerdictPerDelivery'
    <3>1. \A s \in open' : DOMAIN wire'[s] = 1..Len(wire'[s])
      BY <2>3 DEF TypeOK
    <3>2. QED
      BY <2>3, <3>1 DEF OneVerdictPerDelivery, VerdictsSettle
  <2>5. QED
    BY <2>1, <2>2, <2>4 DEF CustodyInv
<1>3. QED
  BY <1>1, <1>2, TypeCorrect, PTL DEF Spec

\* No delivery of an open session is settled twice, and none that the broker
\* no longer counts as delivered, however sessions and handlers interleave.
THEOREM OneVerdict == Spec => []OneVerdictPerDelivery
<1>1. CustodyInv => OneVerdictPerDelivery
  BY DEF CustodyInv
<1>2. QED
  BY <1>1, CustodyAlways, PTL

-----------------------------------------------------------------------------
(* One copy per session                                                    *)

\* InFlight, position by position.
LEMMA CopiesInFlight ==
  ASSUME TypeOK, NEW m, NEW p
  PROVE  p \in InFlight(m) <=>
           \E s \in open : \E i \in 1..Len(wire[s]) :
             p = <<s, i>> /\ wire[s][i] = Frame("publish", m)
<1>1. \A s \in open : DOMAIN wire[s] = 1..Len(wire[s])
  BY DEF TypeOK
<1>2. QED
  BY <1>1 DEF InFlight

\* A shorter wire carries no more copies.
LEMMA FewerInFlight ==
  ASSUME TypeOK, TypeOK', NEW m, IsFiniteSet(InFlight(m)),
         \A s \in open' : (s \in open /\ Shortened(s)) \/ wire'[s] = <<>>
  PROVE  /\ IsFiniteSet(InFlight(m)')
         /\ Cardinality(InFlight(m)') <= Cardinality(InFlight(m))
<1>l. \A s \in open \union open' : Len(wire[s]) \in Nat /\ Len(wire'[s]) \in Nat
  BY DEF TypeOK
<1>1. InFlight(m)' \subseteq InFlight(m)
  <2> SUFFICES ASSUME NEW p \in InFlight(m)' PROVE p \in InFlight(m)
    OBVIOUS
  <2>1. PICK s \in open' : \E i \in 1..Len(wire'[s]) :
               p = <<s, i>> /\ wire'[s][i] = Frame("publish", m)
    <3>1. \A s \in open' : DOMAIN wire'[s] = 1..Len(wire'[s])
      BY DEF TypeOK
    <3>2. QED
      BY <3>1 DEF InFlight
  <2>2. s \in open /\ Shortened(s)
    BY <1>l, <2>1
  <2>3. QED
    BY <1>l, <2>1, <2>2, CopiesInFlight DEF Shortened
<1>2. QED
  BY <1>1, FS_Subset
\* A copy that the broker receives is one copy less on the wire; the others
\* move up.
LEMMA ReceiveCopies ==
  ASSUME TypeOK, TypeOK', NEW t \in Sessions, Receive(t), NEW m \in Messages,
         IsFiniteSet(InFlight(m))
  PROVE  /\ IsFiniteSet(InFlight(m)')
         /\ parsed'[m] + Cardinality(InFlight(m)')
              <= parsed[m] + Cardinality(InFlight(m))
<1> DEFINE copy == wire[t][1] = Frame("publish", m)
           S == InFlight(m)'
           T == IF copy THEN InFlight(m) \ {<<t, 1>>} ELSE InFlight(m)
           up == [p \in S |-> IF p[1] = t THEN <<t, p[2] + 1>> ELSE p]
<1>1. /\ t \in open /\ open' = open
      /\ Len(wire[t]) = Len(wire'[t]) + 1 /\ Len(wire'[t]) \in Nat
      /\ \A j \in 1..Len(wire'[t]) : wire'[t][j] = wire[t][j + 1]
      /\ \A s \in Sessions \ {t} : wire'[s] = wire[s]
  BY ReceiveEffect DEF TypeOK
<1>2. \A p \in S : \E s \in open : \E i \in 1..Len(wire'[s]) :
                     p = <<s, i>> /\ wire'[s][i] = Frame("publish", m)
  <2>1. \A s \in open' : DOMAIN wire'[s] = 1..Len(wire'[s])
    BY DEF TypeOK
  <2>2. QED
    BY <1>1, <2>1 DEF InFlight
<1>3. ASSUME NEW p \in S
      PROVE  /\ up[p] \in T
             /\ p[1] = t => up[p][1] = t /\ up[p][2] = p[2] + 1 /\ p = <<t, p[2]>> /\ p[2] \in Nat
             /\ p[1] # t => up[p] = p
  <2>1. PICK s \in open : \E i \in 1..Len(wire'[s]) :
               p = <<s, i>> /\ wire'[s][i] = Frame("publish", m)
    BY <1>2
  <2>i. PICK i \in 1..Len(wire'[s]) :
               p = <<s, i>> /\ wire'[s][i] = Frame("publish", m)
    BY <2>1
  <2>2. s \in Sessions
    BY DEF TypeOK
  <2>3. CASE s = t
    <3>1. up[p] = <<t, i + 1>>
      BY <2>i, <2>3
    <3>2. i + 1 \in 1..Len(wire[t]) /\ wire[t][i + 1] = Frame("publish", m) /\ i + 1 # 1
      BY <1>1, <2>i, <2>3
    <3>3. up[p] \in InFlight(m) /\ up[p] # <<t, 1>>
      BY <1>1, <3>1, <3>2, CopiesInFlight
    <3>4. QED
      BY <2>i, <2>3, <3>1, <3>3
  <2>4. CASE s # t
    <3>1. up[p] = p /\ p # <<t, 1>>
      BY <2>i, <2>4
    <3>2. p \in InFlight(m)
      BY <1>1, <2>i, <2>2, <2>4, CopiesInFlight
    <3>3. QED
      BY <2>i, <2>4, <3>1, <3>2
  <2>5. QED
    BY <2>3, <2>4
<1> HIDE DEF S, T
<1>4. up \in Injection(S, T)
  <2>1. up \in [S -> T]
    BY <1>3
  <2>2. ASSUME NEW p \in S, NEW q \in S, up[p] = up[q] PROVE p = q
    <3> HIDE DEF up
    <3>1. CASE p[1] = t /\ q[1] = t
      BY <1>3, <2>2, <3>1
    <3>2. CASE p[1] # t /\ q[1] # t
      BY <1>3, <2>2, <3>2
    <3>3. CASE p[1] = t /\ q[1] # t
      BY <1>3, <2>2, <3>3
    <3>4. CASE p[1] # t /\ q[1] = t
      BY <1>3, <2>2, <3>4
    <3>5. QED
      BY <3>1, <3>2, <3>3, <3>4
  <2>3. QED
    BY <2>1, <2>2 DEF Injection, IsInjective
<1>5. /\ IsFiniteSet(T) /\ Cardinality(InFlight(m)) \in Nat
      /\ Cardinality(T) = IF copy THEN Cardinality(InFlight(m)) - 1
                                  ELSE Cardinality(InFlight(m))
  <2>1. copy => <<t, 1>> \in InFlight(m)
    BY <1>1, CopiesInFlight
  <2>2. /\ IsFiniteSet(InFlight(m) \ {<<t, 1>>})
        /\ Cardinality(InFlight(m) \ {<<t, 1>>}) =
             IF <<t, 1>> \in InFlight(m) THEN Cardinality(InFlight(m)) - 1
                                         ELSE Cardinality(InFlight(m))
    BY FS_RemoveElement
  <2>3. QED
    BY <2>1, <2>2, FS_CardinalityType DEF T
<1>6. IsFiniteSet(S) /\ Cardinality(S) \in Nat /\ Cardinality(S) <= Cardinality(T)
  BY <1>4, <1>5, FS_Injection, FS_CardinalityType
<1>7. parsed'[m] = IF copy THEN parsed[m] + 1 ELSE parsed[m]
  <2>1. wire[t][1] \in Frames
    BY ReceiveEffect
  <2>2. copy <=> ~IsVerdict(wire[t][1]) /\ wire[t][1].msg = m
    BY <2>1 DEF Frames, Frame, IsVerdict
  <2>3. \/ ~IsVerdict(wire[t][1]) /\ parsed' = [parsed EXCEPT ![wire[t][1].msg] = @ + 1]
        \/ IsVerdict(wire[t][1]) /\ parsed' = parsed
    BY ReceiveEffect
  <2>4. QED
    BY <2>2, <2>3 DEF TypeOK
<1>8. parsed[m] \in Nat
  BY DEF TypeOK
<1>9. parsed'[m] + Cardinality(S) <= parsed[m] + Cardinality(InFlight(m))
  BY <1>5, <1>6, <1>7, <1>8
<1>10. QED
  BY <1>6, <1>9 DEF S

\* A handler adds a copy of its page at most, and only while the channel is
\* ready.
LEMMA HandleCopies ==
  ASSUME TypeOK, TypeOK', NEW n \in Messages, Handle(n), NEW m \in Messages,
         IsFiniteSet(InFlight(m))
  PROVE  /\ IsFiniteSet(InFlight(m)')
         /\ \/ Cardinality(InFlight(m)') <= Cardinality(InFlight(m))
            \/ /\ n = m /\ channel = "ready" /\ session \in open
               /\ Cardinality(InFlight(m)') <= Cardinality(InFlight(m)) + 1
               /\ Settling(session, m)'
<1> DEFINE last == <<session, Len(wire[session]) + 1>>
           S == InFlight(m)'
<1>1. open' = open /\ session' = session /\ session \in Sessions
  BY HandleAppends DEF Handle, broker
<1>l. \A s \in Sessions : Len(wire[s]) \in Nat /\ Len(wire'[s]) \in Nat
  BY DEF TypeOK
<1>2. \A p \in S : \E s \in open : \E i \in 1..Len(wire'[s]) :
                     p = <<s, i>> /\ wire'[s][i] = Frame("publish", m)
  <2>1. \A s \in open' : DOMAIN wire'[s] = 1..Len(wire'[s])
    BY DEF TypeOK
  <2>2. QED
    BY <1>1, <2>1 DEF InFlight
<1>3. ASSUME NEW p \in S, p \notin InFlight(m)
      PROVE  /\ p = last /\ n = m /\ channel = "ready" /\ session \in open
             /\ Settling(session, m)'
  <2>1. PICK s \in open : \E i \in 1..Len(wire'[s]) :
               p = <<s, i>> /\ wire'[s][i] = Frame("publish", m)
    BY <1>2
  <2>i. PICK i \in 1..Len(wire'[s]) :
               p = <<s, i>> /\ wire'[s][i] = Frame("publish", m)
    BY <2>1
  <2>2. s \in Sessions
    BY DEF TypeOK
  <2>3. ~(i \in 1..Len(wire[s]) /\ wire[s][i] = wire'[s][i])
    BY <1>3, <2>i, CopiesInFlight
  <2>4. s = session /\ wire'[s] # wire[s]
    BY <2>i, <2>2, <2>3, HandleAppends
  <2>5. /\ Len(wire[s]) < Len(wire'[s])
        /\ \A j \in 1..Len(wire[s]) : wire'[s][j] = wire[s][j]
        /\ \A j \in (Len(wire[s]) + 1)..Len(wire'[s]) :
             /\ wire'[s][j].msg = n
             /\ IsVerdict(wire'[s][j]) <=> j = Len(wire'[s])
             /\ wire'[s][j].type = "publish" =>
                  channel = "ready" /\ j = Len(wire[s]) + 1
    BY <2>4, HandleAppends
  <2>6. i \in (Len(wire[s]) + 1)..Len(wire'[s])
    BY <1>l, <2>i, <2>2, <2>3, <2>5
  <2>7. wire'[s][i].type = "publish" /\ wire'[s][i].msg = m
    BY <2>i DEF Frame
  <2>8. n = m /\ channel = "ready" /\ p = last
    BY <2>i, <2>4, <2>5, <2>6, <2>7
  <2>9. /\ Len(wire'[s]) \in (Len(wire[s]) + 1)..Len(wire'[s])
        /\ Len(wire'[s]) \in 1..Len(wire'[s])
    BY <1>l, <2>2, <2>6
  <2>10. IsVerdict(wire'[s][Len(wire'[s])]) /\ wire'[s][Len(wire'[s])].msg = m
    BY <2>5, <2>8, <2>9
  <2>11. QED
    BY <1>1, <2>1, <2>4, <2>8, <2>9, <2>10 DEF Settling
<1> HIDE DEF S, last
<1>4. CASE S \subseteq InFlight(m)
  BY <1>4, FS_Subset DEF S
<1>5. CASE ~(S \subseteq InFlight(m))
  <2>1. S \subseteq InFlight(m) \union {last}
    BY <1>3
  <2>2. /\ n = m /\ channel = "ready" /\ session \in open
        /\ Settling(session, m)'
    BY <1>3, <1>5
  <2>3. /\ IsFiniteSet(InFlight(m) \union {last})
        /\ Cardinality(InFlight(m) \union {last}) <= Cardinality(InFlight(m)) + 1
    BY FS_AddElement, FS_CardinalityType
  <2>4. IsFiniteSet(S) /\ Cardinality(S) <= Cardinality(InFlight(m) \union {last})
    BY <2>1, <2>3, FS_Subset
  <2>5. /\ Cardinality(S) \in Nat /\ Cardinality(InFlight(m)) \in Nat
        /\ Cardinality(InFlight(m) \union {last}) \in Nat
    BY <2>3, <2>4, FS_CardinalityType
  <2>6. Cardinality(S) <= Cardinality(InFlight(m)) + 1
    BY <2>3, <2>4, <2>5
  <2>7. QED
    BY <2>2, <2>4, <2>6 DEF S
<1>6. QED
  BY <1>4, <1>5
\* Within a session, a page that may still be published could be before.
LEMMA MayPublishStep ==
  ASSUME TypeOK, CustodyInv, NoRequeue, [Next]_vars, ~OpenSession,
         NEW m \in Messages, MayPublish(m)'
  PROVE  MayPublish(m)
<1> USE DEF MayPublish, CustodyInv
<1>c. channel' = "ready" /\ session' \in open' /\ ~Settling(session, m)'
  OBVIOUS
<1>f. m \in fetched' => Held(m)'
  OBVIOUS
<1>1. CASE LoseSession \/ Stop
  BY <1>1, <1>c DEF LoseSession, Stop
<1>2. CASE UNCHANGED vars
  BY <1>2, <1>c, <1>f DEF vars, broker, Settling, Held
<1>s. TypeOK' /\ (session \in open => session \in Sessions)
  BY TypeStep DEF TypeOK
<1>3. ASSUME NEW n \in Messages, Handle(n) PROVE MayPublish(m)
  <2>1. UNCHANGED <<broker, session, channel>>
    BY <1>3 DEF Handle
  <2>2. ~Settling(session, m)
    <3>1. \A i \in 1..Len(wire[session]) :
            i \in 1..Len(wire'[session]) /\ wire'[session][i] = wire[session][i]
      <4>1. Len(wire[session]) \in Nat /\ Len(wire'[session]) \in Nat
        BY <1>3, <1>s, HandleAppends DEF TypeOK
      <4>2. CASE wire'[session] = wire[session]
        BY <4>2
      <4>3. CASE wire'[session] # wire[session]
        BY <1>3, <4>1, <4>3, HandleAppends
      <4>4. QED
        BY <4>2, <4>3
    <3>2. QED
      BY <1>c, <2>1, <3>1 DEF Settling
  <2>3. QED
    BY <1>c, <1>f, <2>1, <2>2 DEF broker, Held
<1>4. ASSUME NEW n \in Messages, Arrive(n) PROVE MayPublish(m)
  BY <1>4, <1>c, <1>f DEF Arrive, Settling, Held
<1>5. ASSUME NEW t \in Sessions, Receive(t) PROVE MayPublish(m)
  <2> DEFINE f == wire[t][1]
  <2>1. /\ UNCHANGED <<fetched, open, session, channel, inbox>> /\ t \in open
        /\ Len(wire[t]) = Len(wire'[t]) + 1 /\ Len(wire'[t]) \in Nat
        /\ \A j \in 1..Len(wire'[t]) : wire'[t][j] = wire[t][j + 1]
        /\ \A s \in Sessions \ {t} : wire'[s] = wire[s]
        /\ \/ /\ ~IsVerdict(f)
              /\ UNCHANGED <<queued, unacked>>
           \/ /\ IsVerdict(f)
              /\ unacked' = [unacked EXCEPT ![t] = @ \ {f.msg}]
              /\ \/ queued' = queued
                 \/ f.type = "requeue" /\ queued' = queued \union {f.msg}
    BY <1>5, <1>s, ReceiveEffect DEF TypeOK
  <2>2. IsVerdict(f) => f.msg \in unacked[t]
    BY <2>1, VerdictsBySession DEF VerdictsSettle
  <2>3. session \in open /\ session \in Sessions
    BY <1>c, <1>s, <2>1
  <2>4. Held(m)' => Held(m)
    <3>1. queued' \subseteq queued \union unacked[t]
      BY <2>1, <2>2
    <3>2. \A s \in open : unacked'[s] \subseteq unacked[s]
      BY <2>1 DEF TypeOK
    <3>3. QED
      BY <2>1, <3>1, <3>2 DEF Held
  <2>5. ~Settling(session, m)
    <3> SUFFICES ASSUME Settling(session, m) PROVE FALSE
      OBVIOUS
    <3>1. PICK i \in 1..Len(wire[session]) :
            IsVerdict(wire[session][i]) /\ wire[session][i].msg = m
      BY DEF Settling
    <3>2. session = t /\ i = 1
      <4>1. CASE session # t
        BY <1>c, <2>1, <2>3, <3>1, <4>1 DEF Settling
      <4>2. CASE session = t /\ i # 1
        <5>1. i - 1 \in 1..Len(wire'[t]) /\ wire'[t][i - 1] = wire[t][i]
          BY <2>1, <3>1, <4>2
        <5>2. QED
          BY <1>c, <2>1, <3>1, <4>2, <5>1 DEF Settling
      <4>3. QED
        BY <4>1, <4>2
    <3>3. IsVerdict(f) /\ f.msg = m /\ m \in unacked[t]
      BY <2>2, <3>1, <3>2
    <3>4. f.type # "requeue"
      BY <1>c, <2>1, <3>1, <3>2 DEF NoRequeue
    <3>5. queued' = queued /\ unacked' = [unacked EXCEPT ![t] = @ \ {m}]
      BY <2>1, <3>3, <3>4
    <3>6. m \in fetched /\ m \notin queued
      BY <3>3 DEF OnePlace
    <3>7. \A s \in open : m \notin unacked'[s]
      BY <3>3, <3>5 DEF OnePlace, TypeOK
    <3>8. QED
      BY <1>f, <2>1, <3>5, <3>6, <3>7 DEF Held
  <2>6. QED
    BY <1>c, <1>f, <2>1, <2>3, <2>4, <2>5
<1>6. ASSUME NEW t \in Sessions, DropSession(t) PROVE MayPublish(m)
  <2>1. /\ UNCHANGED <<fetched, session, channel>> /\ t \in open /\ open' = open \ {t}
        /\ \A s \in Sessions \ {t} : unacked'[s] = unacked[s] /\ wire'[s] = wire[s]
        /\ queued' = queued \union unacked[t]
    BY <1>6 DEF DropSession, TypeOK
  <2>2. session \in Sessions \ {t}
    BY <1>c, <2>1 DEF TypeOK
  <2>3. Held(m)' => Held(m)
    BY <2>1 DEF Held, TypeOK
  <2>4. QED
    BY <1>c, <1>f, <2>1, <2>2, <2>3 DEF Settling
<1>7. ASSUME NEW t \in Sessions, NEW n \in Messages, Deliver(t, n)
      PROVE  MayPublish(m)
  <2>1. /\ UNCHANGED <<fetched, session, channel, open, wire>>
    BY <1>7 DEF Deliver
  <2>2. Held(m)' => Held(m)
    BY <1>7 DEF Deliver, Held, TypeOK
  <2>3. QED
    BY <1>c, <1>f, <2>1, <2>2 DEF Settling
<1>8. QED
  BY <1>1, <1>2, <1>3, <1>4, <1>5, <1>6, <1>7 DEF Next

\* Only a handler on a channel that is not ready any more gives a page back.
LEMMA NoRequeueStep ==
  ASSUME TypeOK, CustodyInv, NoRequeue, [Next]_vars
  PROVE  NoRequeue'
<1> SUFFICES ASSUME channel' = "ready", NEW i \in 1..Len(wire'[session'])
             PROVE  wire'[session'][i].type # "requeue"
  BY DEF NoRequeue
<1>t. TypeOK' /\ session' \in Sessions
  BY TypeStep DEF TypeOK
<1>1. CASE OpenSession
  <2>1. session' = session + 1 /\ session \in Nat /\ wire' = wire
    BY <1>1 DEF OpenSession, TypeOK
  <2>2. wire'[session'] = <<>>
    BY <1>t, <2>1 DEF CustodyInv, NotYetOpen
  <2>3. QED
    BY <2>2
<1>2. CASE ~OpenSession
  <2>1. channel = "ready" /\ session' = session
    BY <1>2 DEF Next, LoseSession, Stop, Handle, Arrive, Receive, DropSession,
                Deliver, vars, broker
  <2>2. Len(wire[session]) \in Nat /\ Len(wire'[session]) \in Nat
    BY <1>t, <2>1 DEF TypeOK
  <2>3. CASE Shortened(session)
    BY <2>1, <2>2, <2>3 DEF Shortened, NoRequeue
  <2>4. ASSUME NEW n \in Messages, Handle(n)
        PROVE  wire'[session'][i].type # "requeue"
    <3>1. CASE wire'[session] = wire[session]
      BY <2>1, <3>1 DEF NoRequeue
    <3>2. CASE wire'[session] # wire[session]
      <4>1. /\ \A j \in 1..Len(wire[session]) : wire'[session][j] = wire[session][j]
            /\ \A j \in (Len(wire[session]) + 1)..Len(wire'[session]) :
                 wire'[session][j].type # "requeue"
        BY <2>1, <2>4, <3>2, HandleAppends
      <4>2. i \in 1..Len(wire[session])
            \/ i \in (Len(wire[session]) + 1)..Len(wire'[session])
        BY <2>1, <2>2
      <4>3. QED
        BY <2>1, <4>1, <4>2 DEF NoRequeue
    <3>3. QED
      BY <3>1, <3>2
  <2>5. ASSUME NEW t \in Sessions, Receive(t)
        PROVE  wire'[session'][i].type # "requeue"
    <3>1. CASE session = t
      <4>1. i + 1 \in 1..Len(wire[session]) /\ wire'[session][i] = wire[session][i + 1]
        BY <2>1, <2>2, <2>5, <3>1, ReceiveEffect
      <4>2. QED
        BY <2>1, <4>1 DEF NoRequeue
    <3>2. CASE session # t
      <4>1. wire'[session] = wire[session]
        BY <1>t, <2>1, <2>5, <3>2, ReceiveEffect
      <4>2. QED
        BY <2>1, <4>1 DEF NoRequeue
    <3>3. QED
      BY <3>1, <3>2
  <2>6. QED
    BY <1>t, <2>1, <2>3, <2>4, <2>5, OthersShorten
<1>3. QED
  BY <1>1, <1>2

\* No step makes more copies than there are sessions to pay for them.
LEMMA CopiesStep ==
  ASSUME TypeOK, CustodyInv, CopiesInv, [Next]_vars
  PROVE  CopiesInv'
<1> SUFFICES ASSUME NEW m \in Messages
             PROVE  /\ IsFiniteSet(InFlight(m)')
                    /\ parsed'[m] + Cardinality(InFlight(m)') <= session'
                    /\ MayPublish(m)' =>
                         parsed'[m] + Cardinality(InFlight(m)') < session'
  BY NoRequeueStep DEF CopiesInv
<1> DEFINE old == Cardinality(InFlight(m))
           new == Cardinality(InFlight(m)')
<1>t. /\ TypeOK' /\ parsed[m] \in Nat /\ parsed'[m] \in Nat
      /\ session \in Nat /\ session' \in Nat
  BY TypeStep, RelayAssumption DEF TypeOK
<1>i. /\ IsFiniteSet(InFlight(m)) /\ old \in Nat
      /\ parsed[m] + old <= session
      /\ MayPublish(m) => parsed[m] + old < session
  BY FS_CardinalityType DEF CopiesInv
<1>n. IsFiniteSet(InFlight(m)') => new \in Nat
  BY FS_CardinalityType
<1> HIDE DEF old, new
<1>1. CASE OpenSession
  <2>1. /\ session' = session + 1 /\ open' = open \union {session'}
        /\ UNCHANGED <<wire, parsed>>
    BY <1>1 DEF OpenSession
  <2>2. session' \in open' => wire'[session'] = <<>>
    <3>1. session' \in Sessions /\ session' > session
      BY <1>t, <2>1 DEF TypeOK
    <3>2. QED
      BY <2>1, <3>1 DEF CustodyInv, NotYetOpen
  <2>3. \A s \in open : Shortened(s)
    BY <2>1 DEF Shortened, TypeOK
  <2>4. IsFiniteSet(InFlight(m)') /\ new <= old
    BY <1>t, <1>i, <2>1, <2>2, <2>3, FewerInFlight DEF old, new
  <2>5. parsed'[m] + new < session'
    BY <1>t, <1>i, <1>n, <2>1, <2>4
  <2>6. QED
    BY <1>t, <1>n, <2>4, <2>5 DEF new
<1>2. ASSUME IsFiniteSet(InFlight(m)'), parsed'[m] + new <= parsed[m] + old,
             session' = session, ~OpenSession
      PROVE  /\ IsFiniteSet(InFlight(m)')
             /\ parsed'[m] + new <= session'
             /\ MayPublish(m)' => parsed'[m] + new < session'
  <2>1. MayPublish(m)' => MayPublish(m)
    BY <1>2, MayPublishStep DEF CopiesInv
  <2>2. parsed'[m] + new <= session'
    BY <1>t, <1>i, <1>n, <1>2
  <2>3. parsed[m] + old < session => parsed'[m] + new < session'
    BY <1>t, <1>i, <1>n, <1>2
  <2>4. QED
    BY <1>2, <1>i, <2>1, <2>2, <2>3
<1>3. ASSUME NEW n \in Messages, Handle(n)
      PROVE  /\ IsFiniteSet(InFlight(m)')
             /\ parsed'[m] + new <= session'
             /\ MayPublish(m)' => parsed'[m] + new < session'
  <2>1. /\ UNCHANGED <<session, parsed, open, unacked>> /\ n \in inbox
        /\ channel # "down" /\ ~OpenSession
    BY <1>3 DEF Handle, broker, OpenSession
  <2>2. /\ IsFiniteSet(InFlight(m)')
        /\ \/ new <= old
           \/ /\ n = m /\ channel = "ready" /\ session \in open
              /\ new <= old + 1
              /\ Settling(session, m)'
    BY <1>t, <1>i, <1>3, HandleCopies DEF old, new
  <2>3. CASE new <= old
    <3>1. parsed'[m] + new <= parsed[m] + old
      BY <1>t, <1>i, <1>n, <2>1, <2>2, <2>3
    <3>2. QED
      BY <1>2, <2>1, <2>2, <3>1
  <2>4. CASE /\ n = m /\ channel = "ready" /\ session \in open
             /\ new <= old + 1
             /\ Settling(session, m)'
    <3>1. m \in unacked[session] /\ ~Settling(session, m)
      BY <2>1, <2>4 DEF CustodyInv, InboxInv
    <3>2. MayPublish(m)
      BY <2>4, <3>1 DEF MayPublish, Held
    <3>3. parsed'[m] + new <= session'
      BY <1>t, <1>i, <1>n, <2>1, <2>2, <2>4, <3>2
    <3>4. ~MayPublish(m)'
      BY <2>4 DEF MayPublish
    <3>5. QED
      BY <2>2, <3>3, <3>4
  <2>5. QED
    BY <2>2, <2>3, <2>4
<1>4. ASSUME NEW t \in Sessions, Receive(t)
      PROVE  /\ IsFiniteSet(InFlight(m)')
             /\ parsed'[m] + new <= session'
             /\ MayPublish(m)' => parsed'[m] + new < session'
  <2>1. IsFiniteSet(InFlight(m)') /\ parsed'[m] + new <= parsed[m] + old
    BY <1>t, <1>i, <1>4, ReceiveCopies DEF old, new
  <2>2. session' = session /\ ~OpenSession
    BY <1>4, <1>t, ReceiveEffect DEF OpenSession
  <2>3. QED
    BY <1>2, <2>1, <2>2
<1>5. CASE /\ ~OpenSession
           /\ \A n \in Messages : ~Handle(n)
           /\ \A t \in Sessions : ~Receive(t)
  <2>1. UNCHANGED <<session, parsed>> /\ open' \subseteq open
    BY <1>5 DEF Next, LoseSession, Stop, Arrive, DropSession, Deliver, vars, broker
  <2>2. \A s \in open : Shortened(s)
    BY <1>5, OthersShorten DEF TypeOK
  <2>3. IsFiniteSet(InFlight(m)') /\ new <= old
    BY <1>t, <1>i, <2>1, <2>2, FewerInFlight DEF old, new
  <2>4. parsed'[m] + new <= parsed[m] + old
    BY <1>t, <1>i, <1>n, <2>1, <2>3
  <2>5. QED
    BY <1>2, <1>5, <2>1, <2>3, <2>4 DEF new
<1>6. QED
  BY <1>1, <1>3, <1>4, <1>5 DEF new

\* A page's articles are published at most once per session of the parser:
\* only a lost session makes a duplicate.
THEOREM OneCopyEach == Spec => []OneCopyPerSession
<1>1. Init => CopiesInv
  <2> SUFFICES ASSUME Init PROVE CopiesInv
    OBVIOUS
  <2>1. \A m \in Messages : InFlight(m) = {}
    BY DEF Init, InFlight
  <2>2. QED
    <3>1. \A m \in Messages : parsed[m] = 0 /\ session = 0 /\ channel = "down"
      BY DEF Init
    <3>2. IsFiniteSet({}) /\ Cardinality({}) = 0
      BY FS_EmptySet
    <3>3. ASSUME NEW m \in Messages
          PROVE  /\ IsFiniteSet(InFlight(m)) /\ ~MayPublish(m)
                 /\ parsed[m] + Cardinality(InFlight(m)) <= session
      BY <2>1, <3>1, <3>2, <3>3 DEF MayPublish
    <3>4. NoRequeue
      BY DEF Init, NoRequeue
    <3>5. QED
      BY <3>3, <3>4 DEF CopiesInv
<1>2. TypeOK /\ CustodyInv /\ CopiesInv /\ [Next]_vars => CopiesInv'
  BY CopiesStep
<1>3. CopiesInv => OneCopyPerSession
  BY DEF CopiesInv, OneCopyPerSession
<1>4. QED
  BY <1>1, <1>2, <1>3, TypeCorrect, CustodyAlways, PTL DEF Spec
-----------------------------------------------------------------------------
(* The hop implements AtLeastOnce, as far as its steps go                  *)

\* The parser and the next queue know of pages that were fetched only.
SeenInv ==
  /\ inbox \subseteq fetched
  /\ \A s \in Sessions : \A i \in 1..Len(wire[s]) : wire[s][i].msg \in fetched
  /\ \A m \in Messages : parsed[m] > 0 => m \in fetched

LEMMA SeenStep ==
  ASSUME TypeOK, CustodyInv, SeenInv, [Next]_vars
  PROVE  SeenInv'
<1> USE DEF SeenInv
<1>f. fetched \subseteq fetched'
  BY DEF Next, OpenSession, LoseSession, Stop, Handle, Arrive, Receive,
         DropSession, Deliver, vars, broker
<1>1. inbox' \subseteq fetched'
  BY <1>f DEF Next, OpenSession, LoseSession, Stop, Handle, Arrive, Receive,
              DropSession, Deliver, vars, broker, CustodyInv, OnePlace
<1>2. ASSUME NEW m \in Messages, parsed'[m] > 0 PROVE m \in fetched'
  <2>1. CASE parsed' = parsed
    BY <1>f, <1>2, <2>1
  <2>2. ASSUME NEW t \in Sessions, Receive(t) PROVE m \in fetched'
    <3>1. Len(wire'[t]) \in Nat
      BY TypeStep DEF TypeOK
    <3>2. wire[t][1].msg \in fetched
      BY <2>2, <3>1, ReceiveEffect
    <3>3. m = wire[t][1].msg \/ parsed'[m] = parsed[m]
      BY <2>2, ReceiveEffect DEF TypeOK
    <3>4. QED
      BY <1>f, <1>2, <3>2, <3>3
  <2>3. QED
    BY <2>1, <2>2 DEF Next, OpenSession, LoseSession, Stop, Handle, Arrive,
                      DropSession, Deliver, vars, broker
<1>3. ASSUME NEW s \in Sessions, NEW i \in 1..Len(wire'[s])
      PROVE  wire'[s][i].msg \in fetched'
  <2>1. Len(wire[s]) \in Nat /\ Len(wire'[s]) \in Nat
    BY TypeStep DEF TypeOK
  <2>2. CASE Shortened(s)
    BY <1>f, <2>1, <2>2 DEF Shortened
  <2>3. ASSUME NEW m \in Messages, Handle(m) PROVE wire'[s][i].msg \in fetched'
    <3>1. m \in fetched
      BY <2>3 DEF Handle
    <3>2. \/ wire'[s] = wire[s]
          \/ /\ \A j \in 1..Len(wire[s]) : wire'[s][j] = wire[s][j]
             /\ \A j \in (Len(wire[s]) + 1)..Len(wire'[s]) : wire'[s][j].msg = m
      BY <2>3, HandleAppends
    <3>3. i \in 1..Len(wire[s]) \/ i \in (Len(wire[s]) + 1)..Len(wire'[s])
      BY <2>1
    <3>4. QED
      BY <1>f, <3>1, <3>2, <3>3
  <2>4. ASSUME NEW t \in Sessions, Receive(t) PROVE wire'[s][i].msg \in fetched'
    <3>1. CASE s = t
      <4>1. i + 1 \in 1..Len(wire[s]) /\ wire'[s][i] = wire[s][i + 1]
        BY <2>1, <2>4, <3>1, ReceiveEffect
      <4>2. QED
        BY <1>f, <4>1
    <3>2. CASE s # t
      BY <1>f, <2>4, <3>2, ReceiveEffect
    <3>3. QED
      BY <3>1, <3>2
  <2>5. QED
    BY <2>2, <2>3, <2>4, OthersShorten
<1>4. QED
  BY <1>1, <1>2, <1>3

\* While nothing is lost, a page is unseen, served or owed.
Standing(m) ==
  IF m \notin fetched THEN "unseen" ELSE IF Served(m) THEN "served" ELSE "owed"

LEMMA NothingIsLost == NoLoss => Status = [m \in Messages |-> Standing(m)]
<1> SUFFICES ASSUME NoLoss, NEW m \in Messages, m \in fetched, ~Served(m)
             PROVE  Held(m)
  BY DEF Status, Standing
<1>1. QED
  BY DEF NoLoss, Served

\* A page given back or settled was held until then, and nobody else's place
\* changes.
LEMMA VerdictMoves ==
  ASSUME TypeOK, CustodyInv, NEW t \in Sessions, Receive(t),
         IsVerdict(wire[t][1])
  PROVE  /\ wire[t][1].msg \in fetched /\ Held(wire[t][1].msg)
         /\ \A m \in Messages \ {wire[t][1].msg} : Held(m)' <=> Held(m)
<1> DEFINE f == wire[t][1]
<1>1. /\ t \in open /\ UNCHANGED <<fetched, open>>
      /\ unacked' = [unacked EXCEPT ![t] = @ \ {f.msg}]
      /\ queued' = queued \/ queued' = queued \union {f.msg}
  BY ReceiveEffect
<1>2. f.msg \in unacked[t]
  <2>1. Len(wire[t]) = Len(wire'[t]) + 1 /\ Len(wire'[t]) \in Nat
    BY ReceiveEffect, TypeStep DEF TypeOK, Next
  <2>2. QED
    BY <1>1, <2>1, VerdictsBySession DEF CustodyInv, VerdictsSettle
<1> HIDE DEF f
<1>3. f.msg \in fetched /\ Held(f.msg)
  BY <1>1, <1>2 DEF CustodyInv, OnePlace, Held
<1>4. ASSUME NEW m \in Messages \ {f.msg} PROVE Held(m)' <=> Held(m)
  <2>1. \A s \in open : m \in unacked'[s] <=> m \in unacked[s]
    BY <1>1 DEF TypeOK
  <2>2. QED
    BY <1>1, <2>1 DEF Held
<1>5. QED
  BY <1>3, <1>4 DEF f

LEMMA HopStep ==
  ASSUME TypeOK, NoLoss, NoLoss', CustodyInv, SeenInv, [Next]_vars
  PROVE  [Hop!Next]_Status
<1>s. /\ Status = [m \in Messages |-> Standing(m)]
      /\ Status' = [m \in Messages |-> Standing(m)']
  <2>1. \A m \in Messages : m \in fetched' /\ ~Served(m)' => Held(m)'
    BY DEF NoLoss, Served
  <2>2. QED
    BY <2>1, NothingIsLost DEF Status, Standing
<1>t. /\ \A m \in Messages : parsed[m] \in Nat /\ parsed'[m] \in Nat
      /\ fetched \subseteq Messages
  BY TypeStep DEF TypeOK
\* A step that changes nobody's standing is a stutter, and a step that changes
\* one page's only is a step of that page.
<1>k. ASSUME \A m \in Messages : Standing(m)' = Standing(m)
      PROVE  UNCHANGED Status
  BY <1>s, <1>k
<1>a. ASSUME NEW n \in Messages, Standing(n) = "unseen", Standing(n)' = "owed",
             \A m \in Messages \ {n} : Standing(m)' = Standing(m)
      PROVE  Hop!Next
  BY <1>s, <1>a DEF Hop!Next, Hop!Accept
<1>v. ASSUME NEW n \in Messages, Standing(n) = "owed", Standing(n)' = "served",
             \A m \in Messages \ {n} : Standing(m)' = Standing(m)
      PROVE  Hop!Next
  BY <1>s, <1>v DEF Hop!Next, Hop!Serve
<1>h. ASSUME UNCHANGED <<fetched, parsed>>,
             \A m \in Messages : Held(m)' <=> Held(m)
      PROVE  UNCHANGED Status
  BY <1>k, <1>h DEF Standing, Served
<1>1. CASE OpenSession
  <2>1. /\ UNCHANGED <<fetched, queued, unacked, parsed>>
        /\ open' = open \union {session'} /\ session' \in Sessions
        /\ session' > session
    BY <1>1, RelayAssumption DEF OpenSession, TypeOK, Sessions
  <2>2. unacked[session'] = {}
    BY <2>1 DEF CustodyInv, NotYetOpen, OnePlace
  <2>3. QED
    BY <1>h, <2>1, <2>2 DEF Held
<1>2. CASE LoseSession \/ Stop \/ UNCHANGED vars
  BY <1>2, <1>h DEF LoseSession, Stop, vars, broker, Held
<1>3. ASSUME NEW n \in Messages, Handle(n) PROVE UNCHANGED Status
  BY <1>3, <1>h DEF Handle, broker, Held
<1>4. ASSUME NEW n \in Messages, Arrive(n) PROVE Hop!Next
  <2>1. /\ n \notin fetched /\ fetched' = fetched \union {n}
        /\ queued' = queued \union {n} /\ UNCHANGED <<unacked, open, parsed>>
    BY <1>4 DEF Arrive
  <2>2. Standing(n) = "unseen" /\ Standing(n)' = "owed"
    <3>1. parsed'[n] = 0 /\ Held(n)'
      BY <1>t, <2>1 DEF SeenInv, Held
    <3>2. QED
      BY <2>1, <3>1 DEF Standing, Served
  <2>3. \A m \in Messages \ {n} : Standing(m)' = Standing(m)
    BY <2>1 DEF Standing, Served, Held
  <2>4. QED
    BY <1>a, <2>2, <2>3
<1>5. ASSUME NEW t \in Sessions, Receive(t) PROVE Hop!Next \/ UNCHANGED Status
  <2>0. PICK n : n = wire[t][1].msg
    OBVIOUS
  <2>1. /\ n \in Messages /\ n \in fetched
        /\ UNCHANGED <<fetched, open>>
        /\ \/ /\ ~IsVerdict(wire[t][1])
              /\ parsed' = [parsed EXCEPT ![n] = @ + 1]
              /\ UNCHANGED <<queued, unacked>>
           \/ IsVerdict(wire[t][1]) /\ UNCHANGED parsed
    <3>1. Len(wire[t]) = Len(wire'[t]) + 1 /\ Len(wire'[t]) \in Nat
      BY <1>5, ReceiveEffect, TypeStep DEF TypeOK
    <3>2. QED
      BY <1>5, <2>0, <3>1, ReceiveEffect DEF SeenInv, Frames
  <2>2. CASE /\ ~IsVerdict(wire[t][1])
             /\ parsed' = [parsed EXCEPT ![n] = @ + 1]
             /\ UNCHANGED <<queued, unacked>>
    <3>1. parsed'[n] > 0 /\ \A m \in Messages \ {n} : parsed'[m] = parsed[m]
      BY <1>t, <2>1, <2>2 DEF TypeOK
    <3>2. \A m \in Messages : Held(m)' <=> Held(m)
      BY <2>1, <2>2 DEF Held
    <3>3. \A m \in Messages \ {n} : Standing(m)' = Standing(m)
      BY <2>1, <3>1, <3>2 DEF Standing, Served
    <3>4. CASE n \in Useful
      <4>1. Standing(n) \in {"owed", "served"} /\ Standing(n)' = "served"
        BY <2>1, <3>1, <3>4 DEF Standing, Served
      <4>2. QED
        BY <1>k, <1>v, <2>1, <3>3, <4>1
    <3>5. CASE n \notin Useful
      <4>1. Standing(n)' = Standing(n)
        BY <2>1, <3>2, <3>5 DEF Standing, Served
      <4>2. QED
        BY <1>k, <3>3, <4>1
    <3>6. QED
      BY <3>4, <3>5
  <2>3. CASE IsVerdict(wire[t][1]) /\ UNCHANGED parsed
    <3>1. Held(n) /\ \A m \in Messages \ {n} : Held(m)' <=> Held(m)
      BY <1>5, <2>0, <2>1, <2>3, VerdictMoves
    <3>2. \A m \in Messages \ {n} : Standing(m)' = Standing(m)
      BY <2>1, <2>3, <3>1 DEF Standing, Served
    <3>3. CASE n \in Useful
      <4>1. Standing(n)' = Standing(n)
        BY <2>1, <2>3, <3>3 DEF Standing, Served
      <4>2. QED
        BY <1>k, <3>2, <4>1
    <3>4. CASE n \notin Useful
      <4>1. Standing(n) = "owed" /\ Standing(n)' \in {"owed", "served"}
        BY <2>1, <3>1, <3>4 DEF Standing, Served
      <4>2. QED
        BY <1>k, <1>v, <2>1, <3>2, <4>1
    <3>5. QED
      BY <3>3, <3>4
  <2>4. QED
    BY <2>1, <2>2, <2>3
<1>6. ASSUME NEW t \in Sessions, DropSession(t) PROVE UNCHANGED Status
  <2>1. /\ t \in open /\ open' = open \ {t} /\ UNCHANGED <<fetched, parsed>>
        /\ queued' = queued \union unacked[t]
        /\ \A s \in Sessions \ {t} : unacked'[s] = unacked[s]
    BY <1>6 DEF DropSession, TypeOK
  <2>2. \A m \in Messages : Held(m)' <=> Held(m)
    BY <2>1 DEF Held, TypeOK
  <2>3. QED
    BY <1>h, <2>1, <2>2
<1>7. ASSUME NEW t \in Sessions, NEW n \in Messages, Deliver(t, n)
      PROVE  UNCHANGED Status
  <2>1. /\ t \in open /\ n \in queued /\ UNCHANGED <<fetched, open, parsed>>
        /\ queued' = queued \ {n}
        /\ unacked'[t] = unacked[t] \union {n}
        /\ \A s \in Sessions \ {t} : unacked'[s] = unacked[s]
    BY <1>7 DEF Deliver, TypeOK
  <2>2. \A m \in Messages : Held(m)' <=> Held(m)
    BY <2>1 DEF Held, TypeOK
  <2>3. QED
    BY <1>h, <2>1, <2>2
<1>8. QED
  BY <1>1, <1>2, <1>3, <1>4, <1>5, <1>6, <1>7 DEF Next

\* Step by step the parser's hop is the abstract one: a page is owed from its
\* arrival until it is served, served once and for all, and one page's standing
\* changes at a time.  That it is served in the end is not claimed here.
THEOREM HopIsSafe == Spec => Hop!Safety
<1>1. Init => Hop!Init
  <2> SUFFICES ASSUME Init PROVE Status = [m \in Messages |-> "unseen"]
    BY DEF Hop!Init
  <2>1. QED
    BY DEF Init, Status
<1>2. Init => SeenInv
  BY DEF Init, SeenInv
<1>3. TypeOK /\ CustodyInv /\ SeenInv /\ [Next]_vars => SeenInv'
  BY SeenStep
<1>4. TypeOK /\ NoLoss /\ NoLoss' /\ CustodyInv /\ SeenInv /\ [Next]_vars
        => [Hop!Next]_Status
  BY HopStep
<1>5. QED
  BY <1>1, <1>2, <1>3, <1>4, TypeCorrect, NoPageLost, CustodyAlways, PTL
  DEF Spec, Hop!Safety
=============================================================================
