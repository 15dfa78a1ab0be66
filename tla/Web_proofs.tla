----------------------------- MODULE Web_proofs -----------------------------
(***************************************************************************)
(* Proofs about the web service for any digests, any length of the history *)
(* and any number of failures: the history keeps its length, a digest is   *)
(* on the page once and once more per failure at most, in front of a newer *)
(* one only if it was delivered late, and until the first failure the page *)
(* is the last digests, newest first.                                      *)
(***************************************************************************)
EXTENDS Web, FiniteSetTheorems, TLAPS

-----------------------------------------------------------------------------
(* The inductive invariant                                                 *)

\* The handler works on what the session holds, and nothing else waits for a
\* verdict.
SessionInv ==
  /\ handling # None => connected
  /\ handling # None /\ session_open => delivered = handling
  /\ ~session_open => delivered = None
  /\ verdict # "none" => handling = None /\ delivered # None
  /\ verdict # "kRequeue"
  /\ delivered # None => handling = delivered \/ verdict # "none"

\* The broker has a message in one place at a time.
PlaceInv ==
  /\ queued \intersect ghosts = {}
  /\ delivered \notin queued \union ghosts

\* No digest is anywhere before it is published.
Published(d) == d <= arrived

FreshInv ==
  /\ \A d \in queued \union ghosts : Published(d)
  /\ Published(delivered) /\ Published(handling)
  /\ \A i \in DOMAIN digests : Published(digests[i])

\* The copies of a digest that are on the page or still may come there.
Count(condition) == IF condition THEN 1 ELSE 0

Copies(d) ==
  Cardinality(Positions(d)) + Count(d \in queued \union ghosts)
                            + Count(handling = d)

CopiesInv == \A d \in Digests : Copies(d) <= 1 + faults

\* Before the first binding there is nothing; until the first failure each
\* digest follows the one before it, without a gap but for malformed ones.
Follows(d, n) == d < n /\ (d + 1)..(n - 1) \subseteq Malformed

OrderInv ==
  /\ ~bound => /\ ~connected /\ ~session_open
               /\ queued = {} /\ ghosts = {} /\ digests = <<>>
  /\ faults = 0 =>
       /\ connected = session_open /\ ghosts = {}
       /\ \A n \in queued : n..arrived \subseteq queued
       /\ handling # None =>
            /\ \A n \in queued : handling < n
            /\ (handling + 1)..arrived \subseteq queued
       /\ digests # <<>> =>
            /\ \A n \in queued \union ({handling} \ {None}) : digests[1] < n
            /\ (digests[1] + 1)..arrived
                 \subseteq queued \union Malformed \union {handling}

\* NewestFirst for two digests next to each other, after and before a failure.
InTime ==
  \A i \in 1..(Len(digests) - 1) :
    digests[i + 1] <= digests[i] \/ digests[i] \in late

Adjacent == \A i \in 1..(Len(digests) - 1) : Follows(digests[i + 1], digests[i])

\* What is handled or shown was delivered: it is not newer than the newest, and
\* what is handled is that one unless it was delivered late.
DeliveryInv ==
  /\ handling # None =>
       handling <= newest /\ (handling \in late \/ handling = newest)
  /\ \A i \in DOMAIN digests : digests[i] <= newest
  /\ InTime

IInv ==
  /\ SessionInv /\ PlaceInv /\ FreshInv /\ CopiesInv
  /\ OrderInv /\ DeliveryInv /\ NewestFirst

-----------------------------------------------------------------------------
(* The session                                                             *)

CallTypeOK == handling \in Digests \union {None} /\ bound \in BOOLEAN /\ consuming \in BOOLEAN

\* Whatever happens to the session, the broker has each message once and the
\* handler works on the one that waits for its verdict.
LEMMA SessionStep ==
  ASSUME ConsumerTypeOK, CallTypeOK, SessionInv, PlaceInv, FreshInv, [Next]_vars
  PROVE  ConsumerTypeOK' /\ CallTypeOK' /\ SessionInv' /\ PlaceInv'
<1> USE DEF CallTypeOK, SessionInv, PlaceInv, Verdicts
<1>b. Digests = Messages /\ None \notin Messages
  BY DEF Digests, Messages, None
<1>f. ASSUME Fault \/ UNCHANGED faults
      PROVE  faults' \in 0..MaxFaults
  BY <1>f, ConsumerAssumption DEF Fault, ConsumerTypeOK
<1>d. ASSUME NEW m \in Messages, Dispatch(m)
      PROVE  newest' \in 0..NumMessages /\ late' \subseteq Messages
  BY <1>d DEF Dispatch, Messages, ConsumerTypeOK
<1>1. CASE HandleDigestReady
  <2>1. Decision(handling) \in {"kAck", "kReject"}
    BY DEF Decision
  <2>2. QED
    BY <1>1, <2>1, <1>b DEF HandleDigestReady, Answer, ConsumerTypeOK
<1>2. CASE Deliver
  BY <1>2, <1>b, <1>d DEF Deliver, Dispatch, ConsumerTypeOK
<1>3. CASE Connect
  BY <1>3, <1>b DEF Connect, Subscribe, OnChannelReady, ConsumerTypeOK
<1>4. CASE NoticeLoss
  BY <1>4, <1>b, <1>f DEF NoticeLoss, LoseSession, Disconnect, ConsumerTypeOK
<1>5. CASE Crash
  BY <1>5, <1>b, <1>f DEF Crash, Disconnect, ConsumerTypeOK
<1>6. CASE PublishUnrouted
  <2>1. arrived' \in 0..NumMessages
    BY <1>6, ConsumerAssumption DEF PublishUnrouted, ConsumerTypeOK
  <2>2. QED
    BY <1>6, <2>1 DEF PublishUnrouted, page, ConsumerTypeOK
<1>7. CASE UNCHANGED vars
  BY <1>7 DEF vars, page, consumer, ConsumerTypeOK
<1>8. CASE Queue
  <2> UNCHANGED <<handling, bound>>
    BY <1>8 DEF Queue
  <2>1. CASE CancelConsumer
    BY <2>1, <1>f DEF CancelConsumer, consumer, ConsumerTypeOK
  <2>2. CASE Publish /\ UNCHANGED consuming
    <3>1. arrived' \in 0..NumMessages /\ arrived' \in Messages
      BY <2>2, ConsumerAssumption DEF Publish, Messages, ConsumerTypeOK
    <3>2. arrived' \notin queued \union ghosts /\ arrived' # delivered
      BY <2>2 DEF Publish, FreshInv, Published, ConsumerTypeOK, Messages, None
    <3>3. QED
      BY <2>2, <3>1, <3>2 DEF Publish, ConsumerTypeOK
  <2>3. CASE ReceiveVerdict /\ UNCHANGED consuming
    BY <2>3, <1>b DEF ReceiveVerdict, ConsumerTypeOK
  <2>4. CASE DropSession /\ UNCHANGED consuming
    BY <2>4, <1>b, <1>f DEF DropSession, ConsumerTypeOK
  <2>5. CASE (\E m \in Messages : DropGhost(m)) /\ UNCHANGED consuming
    BY <2>5 DEF DropGhost, ConsumerTypeOK
  <2>6. QED
    BY <1>8, <2>1, <2>2, <2>3, <2>4, <2>5 DEF Queue, Broker
<1>9. QED
  BY <1>1, <1>2, <1>3, <1>4, <1>5, <1>6, <1>7, <1>8 DEF Next

-----------------------------------------------------------------------------
(* The history                                                             *)

Shown == Digests \ Malformed

HistoryTypeOK == digests \in Seq(Shown) /\ Len(digests) <= HistorySize

\* A digest comes to the front, the others follow as they were, and the last
\* one goes when there are too many.
LEMMA AddsToFront ==
  ASSUME NEW d \in Shown, NEW history \in Seq(Shown), Len(history) <= HistorySize
  PROVE  LET new == Add(d, history) IN
         /\ new \in Seq(Shown)
         /\ Len(new) <= HistorySize
         /\ 1 <= Len(new) /\ Len(new) <= Len(history) + 1
         /\ new[1] = d
         /\ \A i \in 2..Len(new) : new[i] = history[i - 1]
<1> DEFINE all == <<d>> \o history
<1>1. /\ all \in Seq(Shown) /\ Len(all) = Len(history) + 1
      /\ all[1] = d /\ \A i \in 2..Len(all) : all[i] = history[i - 1]
  OBVIOUS
<1> HIDE DEF all
<1>2. HistorySize \in Nat /\ HistorySize >= 1
  BY WebAssumption
<1>3. CASE Len(all) <= HistorySize
  <2>1. Add(d, history) = all
    BY <1>3 DEF Add, Shorten, all
  <2>2. QED
    BY <1>1, <1>3, <2>1
<1>4. CASE ~(Len(all) <= HistorySize)
  <2> DEFINE first == SubSeq(all, 1, HistorySize)
  <2>1. Add(d, history) = first
    BY <1>4 DEF Add, Shorten, all
  <2>2. /\ first \in Seq(Shown) /\ Len(first) = HistorySize
        /\ \A i \in 1..HistorySize : first[i] = all[i]
    BY <1>1, <1>2, <1>4
  <2> HIDE DEF first
  <2>3. QED
    BY <1>1, <1>2, <1>4, <2>1, <2>2
<1>5. QED
  BY <1>3, <1>4

\* What the other steps do with the history: nothing, or they lose all of it.
LEMMA HistoryStep ==
  ASSUME HistoryTypeOK, CallTypeOK, [Next]_vars
  PROVE  /\ HistoryTypeOK'
         /\ \/ UNCHANGED digests
            \/ Crash /\ digests' = <<>>
            \/ /\ HandleDigestReady /\ handling \in Shown
               /\ digests' = Add(handling, digests)
<1>1. \/ UNCHANGED digests
      \/ Crash /\ digests' = <<>>
      \/ /\ HandleDigestReady /\ handling \in Shown
         /\ digests' = Add(handling, digests)
  BY DEF Next, HandleDigestReady, Deliver, Connect, NoticeLoss, Crash,
         PublishUnrouted, Queue, vars, page, Shown, CallTypeOK
<1>2. <<>> \in Seq(Shown) /\ Len(<<>>) <= HistorySize
  BY WebAssumption
<1>3. ASSUME handling \in Shown, digests' = Add(handling, digests)
      PROVE  HistoryTypeOK'
  BY <1>3, AddsToFront DEF HistoryTypeOK
<1>4. QED
  BY <1>1, <1>2, <1>3 DEF HistoryTypeOK

\* Only what is published is anywhere.
LEMMA FreshStep ==
  ASSUME ConsumerTypeOK, CallTypeOK, HistoryTypeOK, FreshInv, [Next]_vars
  PROVE  FreshInv'
<1>1. /\ arrived \in Nat /\ arrived' \in Nat /\ arrived <= arrived'
  BY DEF Next, HandleDigestReady, Answer, Deliver, Dispatch, Connect, Subscribe,
         NoticeLoss, LoseSession, Disconnect, Crash, PublishUnrouted, Queue,
         Broker, Publish, ReceiveVerdict, DropSession, DropGhost, CancelConsumer,
         vars, consumer, ConsumerTypeOK
<1>2. ASSUME NEW d \in Int, Published(d)
      PROVE  d <= arrived'
  BY <1>1, <1>2 DEF Published
<1>3. /\ queued \subseteq Int /\ ghosts \subseteq Int /\ delivered \in Int
      /\ handling \in Int /\ None \in Int /\ None <= arrived'
  BY <1>1 DEF ConsumerTypeOK, CallTypeOK, Digests, Messages, None
<1>4. ASSUME NEW i \in DOMAIN digests'
      PROVE  digests'[i] <= arrived'
  <2>1. \A j \in DOMAIN digests : digests[j] \in Int /\ digests[j] <= arrived'
    <3>1. \A j \in DOMAIN digests : digests[j] \in Int
      BY DEF HistoryTypeOK, Shown, Digests, Messages
    <3>2. QED
      BY <3>1, <1>2 DEF FreshInv
  <2>2. CASE HandleDigestReady /\ handling \in Shown
             /\ digests' = Add(handling, digests)
    <3>1. digests' \in Seq(Shown) /\ Len(digests') <= Len(digests) + 1
          /\ digests'[1] = handling
          /\ \A j \in 2..Len(digests') : digests'[j] = digests[j - 1]
      BY <2>2, AddsToFront DEF HistoryTypeOK
    <3>2. i \in 1..Len(digests') /\ DOMAIN digests = 1..Len(digests)
          /\ Len(digests) \in Nat /\ Len(digests') \in Nat
      BY <1>4, <3>1 DEF HistoryTypeOK
    <3>3. CASE i = 1
      BY <3>1, <3>3, <1>2, <1>3 DEF FreshInv
    <3>4. CASE i # 1
      <4>1. i \in 2..Len(digests') /\ i - 1 \in 1..Len(digests)
        BY <3>1, <3>2, <3>4
      <4>2. QED
        BY <2>1, <3>1, <3>2, <4>1
    <3>5. QED
      BY <3>3, <3>4
  <2>3. CASE UNCHANGED digests \/ digests' = <<>>
    BY <1>4, <2>1, <2>3
  <2>4. QED
    BY <2>2, <2>3, HistoryStep
<1>5. /\ \A d \in queued' \union ghosts' : d <= arrived'
      /\ delivered' <= arrived' /\ handling' <= arrived'
  <2>1. \A d \in queued \union ghosts \union {delivered, handling, None} :
          d <= arrived'
    BY <1>2, <1>3 DEF FreshInv
  <2>2. /\ queued' \union ghosts'
             \subseteq queued \union ghosts \union {delivered, arrived'}
        /\ delivered' \in queued \union {delivered, None}
        /\ handling' \in queued \union {handling, None}
    BY DEF Next, HandleDigestReady, Answer, Deliver, Dispatch, Connect, Subscribe,
           NoticeLoss, LoseSession, Disconnect, Crash, PublishUnrouted, Queue,
           Broker, Publish, ReceiveVerdict, DropSession, DropGhost,
           CancelConsumer, vars, page, consumer
  <2>3. QED
    BY <1>1, <2>1, <2>2
<1>6. QED
  BY <1>4, <1>5 DEF FreshInv, Published

-----------------------------------------------------------------------------
(* The copies of a digest                                                  *)

\* Where a digest is on the page, its number can be counted.
LEMMA PositionsAreFinite ==
  ASSUME HistoryTypeOK, NEW d
  PROVE  IsFiniteSet(Positions(d)) /\ Cardinality(Positions(d)) \in Nat
<1>1. DOMAIN digests = 1..Len(digests) /\ Len(digests) \in Nat
  BY DEF HistoryTypeOK
<1>2. IsFiniteSet(1..Len(digests))
  BY <1>1, FS_Interval
<1>3. Positions(d) \subseteq 1..Len(digests)
  BY <1>1 DEF Positions
<1>4. QED
  BY <1>2, <1>3, FS_Subset, FS_CardinalityType

\* A digest that comes to the front has one copy more, the others none.
LEMMA AddCopies ==
  ASSUME HistoryTypeOK, HistoryTypeOK', NEW h \in Shown, digests' = Add(h, digests),
         NEW d
  PROVE  /\ Cardinality(Positions(d)') <= Cardinality(Positions(d)) + Count(h = d)
<1> DEFINE old == Positions(d)
           new == Positions(d)'
           later == new \ {1}
<1>1. /\ digests' \in Seq(Shown) /\ 1 <= Len(digests')
      /\ Len(digests') <= Len(digests) + 1 /\ digests'[1] = h
      /\ \A i \in 2..Len(digests') : digests'[i] = digests[i - 1]
  BY AddsToFront DEF HistoryTypeOK
<1>2. /\ DOMAIN digests = 1..Len(digests) /\ Len(digests) \in Nat
      /\ DOMAIN digests' = 1..Len(digests') /\ Len(digests') \in Nat
  BY <1>1 DEF HistoryTypeOK
<1>3. /\ IsFiniteSet(old) /\ Cardinality(old) \in Nat
      /\ IsFiniteSet(new) /\ Cardinality(new) \in Nat
  <2>1. IsFiniteSet(old) /\ Cardinality(old) \in Nat
    BY PositionsAreFinite
  <2>2. IsFiniteSet(1..Len(digests'))
    BY <1>2, FS_Interval
  <2>3. new \subseteq 1..Len(digests')
    BY <1>2 DEF Positions
  <2>4. QED
    BY <2>1, <2>2, <2>3, FS_Subset, FS_CardinalityType
<1>4. \A i \in later : i \in 2..Len(digests') /\ i - 1 \in old
  <2> SUFFICES ASSUME NEW i \in later PROVE i \in 2..Len(digests') /\ i - 1 \in old
    OBVIOUS
  <2>1. i \in 1..Len(digests') /\ i # 1 /\ digests'[i] = d
    BY <1>2 DEF Positions
  <2>2. i \in 2..Len(digests') /\ i - 1 \in 1..Len(digests)
    BY <1>1, <1>2, <2>1
  <2>3. digests[i - 1] = d
    BY <1>1, <2>1, <2>2
  <2>4. QED
    BY <1>2, <2>2, <2>3 DEF Positions
<1>5. 1 \in new => h = d
  BY <1>1 DEF Positions
<1> HIDE DEF old, new
<1>6. Cardinality(later) <= Cardinality(old)
  <2> DEFINE before == [i \in later |-> i - 1]
  <2>1. before \in Injection(later, old)
    <3>1. before \in [later -> old]
      BY <1>4
    <3>2. \A i, j \in later : before[i] = before[j] => i = j
      BY <1>4
    <3>3. QED
      BY <3>1, <3>2 DEF Injection, IsInjective
  <2>2. QED
    BY <1>3, <2>1, FS_Injection
<1>7. CASE 1 \in new
  <2>1. IsFiniteSet(later) /\ Cardinality(later) = Cardinality(new) - 1
    BY <1>3, <1>7, FS_RemoveElement
  <2>2. QED
    BY <1>3, <1>5, <1>6, <1>7, <2>1 DEF Count, old, new
<1>8. CASE 1 \notin new
  <2>1. later = new
    BY <1>8
  <2>2. Count(h = d) \in Nat
    BY DEF Count
  <2>3. QED
    BY <1>3, <1>6, <2>1, <2>2 DEF old, new
<1>9. QED
  BY <1>7, <1>8

\* A message that goes back to the queue after its digest has come to the page
\* costs a failure; everything else moves a copy on.
LEMMA CopiesStep ==
  ASSUME ConsumerTypeOK, CallTypeOK, HistoryTypeOK, SessionInv, PlaceInv,
         FreshInv, CopiesInv, [Next]_vars
  PROVE  CopiesInv'
<1> SUFFICES ASSUME NEW d \in Digests PROVE Copies(d)' <= 1 + faults'
  BY DEF CopiesInv
<1> DEFINE old == Cardinality(Positions(d))
           new == Cardinality(Positions(d)')
           due == d \in queued \union ghosts
           dueLater == d \in queued' \union ghosts'
<1>0. /\ d \in Nat /\ d # None /\ faults \in Nat
      /\ old + Count(due) + Count(handling = d) <= 1 + faults
  BY DEF Digests, Messages, None, ConsumerTypeOK, CopiesInv, Copies
<1>1. HistoryTypeOK'
  BY HistoryStep
<1>2. old \in Nat /\ new \in Nat
  <2>1. old \in Nat
    BY PositionsAreFinite
  <2>2. DOMAIN digests' = 1..Len(digests') /\ Len(digests') \in Nat
    BY <1>1 DEF HistoryTypeOK
  <2>3. IsFiniteSet(1..Len(digests')) /\ Positions(d)' \subseteq 1..Len(digests')
    BY <2>2, FS_Interval DEF Positions
  <2>4. QED
    BY <2>1, <2>3, FS_Subset, FS_CardinalityType
<1>3. UNCHANGED digests => new = old
  BY DEF Positions
<1> SUFFICES new + Count(dueLater) + Count(handling' = d) <= 1 + faults'
  BY DEF Copies
<1> HIDE DEF old, new
<1>4. CASE HandleDigestReady
  <2>1. UNCHANGED <<queued, ghosts, faults>> /\ handling' = None
    BY <1>4 DEF HandleDigestReady, Answer
  <2>2. new <= old + Count(handling = d)
    <3>1. CASE handling \in Shown /\ digests' = Add(handling, digests)
      BY <1>1, <3>1, AddCopies DEF old, new
    <3>2. CASE UNCHANGED digests
      BY <1>2, <1>3, <3>2 DEF Count
    <3>3. QED
      BY <1>4, <3>1, <3>2 DEF HandleDigestReady, Shown, CallTypeOK
  <2>3. QED
    BY <1>0, <1>2, <2>1, <2>2 DEF Count
<1>5. CASE Deliver
  <2>1. PICK m \in Digests :
          /\ m \in queued /\ queued' = queued \ {m} /\ handling' = m
          /\ UNCHANGED <<ghosts, faults, digests>> /\ handling = None
    BY <1>5 DEF Deliver, Dispatch
  <2>2. m = d => due /\ ~dueLater
    BY <2>1 DEF PlaceInv
  <2>3. m # d => dueLater = due
    BY <2>1
  <2>4. QED
    BY <1>0, <1>2, <1>3, <2>1, <2>2, <2>3 DEF Count
<1>6. CASE Crash
  <2>1. digests' = <<>> /\ handling' = None /\ faults' = faults + 1
    BY <1>6 DEF Crash, Fault
  <2>2. Positions(d)' = {}
    BY <2>1 DEF Positions
  <2>3. new = 0
    BY <2>2, FS_EmptySet DEF new
  <2>4. QED
    BY <1>0, <2>1, <2>3 DEF Count
<1>7. ASSUME UNCHANGED <<digests, handling>>,
             \/ UNCHANGED <<queued, ghosts>> /\ UNCHANGED faults
             \/ UNCHANGED <<queued, ghosts>> /\ Fault
             \/ dueLater = due /\ UNCHANGED faults
             \/ Fault
      PROVE  new + Count(dueLater) + Count(handling' = d) <= 1 + faults'
  BY <1>0, <1>2, <1>3, <1>7 DEF Count, Fault
<1>8. CASE Connect
  BY <1>7, <1>8 DEF Connect, Subscribe
<1>9. CASE NoticeLoss
  <2>1. CASE session_open
    BY <1>7, <1>9, <2>1 DEF NoticeLoss, LoseSession, Disconnect
  <2>2. CASE ~session_open
    BY <1>7, <1>9, <2>2 DEF NoticeLoss, LoseSession, Disconnect, SessionInv
  <2>3. QED
    BY <2>1, <2>2
<1>10. CASE PublishUnrouted \/ UNCHANGED vars
  BY <1>7, <1>10 DEF PublishUnrouted, vars, page, consumer
<1>11. CASE Queue
  <2>1. UNCHANGED <<digests, handling>>
    BY <1>11 DEF Queue
  <2>2. CASE Publish
    <3>1. CASE d = arrived'
      <4>1. d = arrived + 1 /\ arrived \in Nat /\ UNCHANGED faults
        BY <2>2, <3>1 DEF Publish, ConsumerTypeOK
      <4>2. handling # d /\ ~(\E i \in DOMAIN digests : digests[i] = d)
        BY <4>1 DEF FreshInv, Published
      <4>3. Positions(d) = {}
        BY <4>2 DEF Positions
      <4>4. old = 0
        BY <4>3, FS_EmptySet DEF old
      <4>5. QED
        BY <1>0, <1>3, <2>1, <4>1, <4>2, <4>4 DEF Count
    <3>2. CASE d # arrived'
      BY <1>7, <2>1, <2>2, <3>2 DEF Publish
    <3>3. QED
      BY <3>1, <3>2
  <2>3. CASE ReceiveVerdict
    BY <1>7, <2>1, <2>3 DEF ReceiveVerdict, SessionInv
  <2>4. CASE DropSession \/ CancelConsumer
    BY <1>7, <2>1, <2>4 DEF DropSession, CancelConsumer
  <2>5. CASE \E m \in Messages : DropGhost(m)
    <3>1. dueLater = due /\ UNCHANGED faults
      BY <2>5 DEF DropGhost
    <3>2. QED
      BY <1>7, <2>1, <3>1
  <2>6. QED
    BY <1>11, <2>2, <2>3, <2>4, <2>5 DEF Queue, Broker
<1>12. QED
  BY <1>4, <1>5, <1>6, <1>8, <1>9, <1>10, <1>11 DEF Next

-----------------------------------------------------------------------------
(* The order of the page                                                   *)

\* A page that is not empty has a first digest.
LEMMA PageHasFirst ==
  ASSUME HistoryTypeOK, digests # <<>>
  PROVE  1 \in DOMAIN digests /\ digests[1] \in Nat
<1>1. Len(digests) \in Nat /\ Len(digests) # 0 /\ DOMAIN digests = 1..Len(digests)
  BY DEF HistoryTypeOK
<1>2. 1 \in DOMAIN digests
  BY <1>1
<1>3. digests[1] \in Shown
  BY <1>2 DEF HistoryTypeOK
<1>4. QED
  BY <1>2, <1>3 DEF Shown, Digests, Messages

\* What is on the page before the handler's digest is what it follows.
LEMMA AddKeepsOrder ==
  ASSUME HistoryTypeOK, HistoryTypeOK', Adjacent, NEW h \in Shown,
         digests' = Add(h, digests),
         digests # <<>> => Follows(digests[1], h)
  PROVE  Adjacent' /\ digests' # <<>> /\ digests'[1] = h
<1>1. /\ digests' \in Seq(Shown) /\ 1 <= Len(digests')
      /\ Len(digests') <= Len(digests) + 1 /\ digests'[1] = h
      /\ \A i \in 2..Len(digests') : digests'[i] = digests[i - 1]
  BY AddsToFront DEF HistoryTypeOK
<1>2. Len(digests) \in Nat /\ Len(digests') \in Nat
  BY DEF HistoryTypeOK
<1>3. ASSUME NEW i \in 1..(Len(digests') - 1)
      PROVE  Follows(digests'[i + 1], digests'[i])
  <2>1. i + 1 \in 2..Len(digests') /\ (i + 1) - 1 = i
    BY <1>2
  <2>2. digests'[i + 1] = digests[i]
    BY <1>1, <2>1
  <2>3. CASE i = 1
    <3>1. Len(digests) >= 1
      BY <1>1, <1>2, <2>3
    <3>2. digests # <<>>
      BY <3>1
    <3>3. QED
      BY <1>1, <2>2, <2>3, <3>2
  <2>4. CASE i # 1
    <3>1. i \in 2..Len(digests') /\ i - 1 \in 1..(Len(digests) - 1) /\ (i - 1) + 1 = i
      BY <1>1, <1>2, <2>4
    <3>2. digests'[i] = digests[i - 1]
      BY <1>1, <3>1
    <3>3. Follows(digests[(i - 1) + 1], digests[i - 1])
      BY <3>1 DEF Adjacent
    <3>4. QED
      BY <2>2, <3>1, <3>2, <3>3
  <2>5. QED
    BY <2>3, <2>4
<1>4. digests' # <<>>
  BY <1>1
<1>5. QED
  BY <1>1, <1>3, <1>4 DEF Adjacent

\* Until the first failure every digest is handled after the ones before it.
LEMMA OrderStep ==
  ASSUME ConsumerTypeOK, CallTypeOK, HistoryTypeOK, SessionInv, FreshInv,
         OrderInv, faults = 0 => Adjacent, [Next]_vars
  PROVE  OrderInv' /\ (faults' = 0 => Adjacent')
<1> USE DEF OrderInv
<1>0. /\ HistoryTypeOK' /\ faults \in Nat /\ arrived \in Nat /\ None \notin Digests
      /\ queued \subseteq Digests /\ Digests \subseteq Nat
  BY HistoryStep DEF ConsumerTypeOK, Digests, Messages, None
<1>f. Fault => faults' # 0
  BY <1>0 DEF Fault
<1>1. CASE HandleDigestReady
  <2>1. /\ UNCHANGED <<queued, ghosts, faults, session_open, connected, arrived, bound>>
        /\ handling' = None /\ handling \in Digests
    BY <1>1 DEF HandleDigestReady, Answer, CallTypeOK
  <2>2. bound
    BY <2>1, <1>0 DEF SessionInv
  <2>3. CASE handling \in Malformed
    <3>1. UNCHANGED digests
      BY <1>1, <2>3 DEF HandleDigestReady
    <3>2. QED
      BY <2>1, <2>2, <2>3, <3>1 DEF Adjacent
  <2>4. CASE handling \notin Malformed
    <3>1. digests' = Add(handling, digests) /\ handling \in Shown
      BY <1>1, <2>1, <2>4 DEF HandleDigestReady, Shown
    <3>2. ASSUME faults = 0, digests # <<>>
          PROVE  Follows(digests[1], handling)
      <4>1. digests[1] \in Nat
        BY <3>2, PageHasFirst
      <4>2. digests[1] < handling
        BY <1>0, <2>1, <3>2
      <4>3. ASSUME NEW k \in (digests[1] + 1)..(handling - 1)
            PROVE  k \in Malformed
        <5>1. handling \in Nat /\ handling <= arrived
          BY <1>0, <2>1 DEF FreshInv, Published
        <5>2. k \in (digests[1] + 1)..arrived /\ ~(handling < k) /\ k # handling
          BY <1>0, <4>1, <5>1
        <5>3. k \notin queued
          BY <1>0, <2>1, <3>2, <5>2
        <5>4. QED
          BY <3>2, <5>2, <5>3
      <4>4. QED
        BY <4>2, <4>3 DEF Follows
    <3>3. faults = 0 => Adjacent' /\ digests' # <<>> /\ digests'[1] = handling
      BY <1>0, <3>1, <3>2, AddKeepsOrder
    <3>4. QED
      BY <1>0, <2>1, <2>2, <3>3
  <2>5. QED
    BY <2>3, <2>4
<1>2. CASE Deliver
  <2>1. PICK m \in Digests :
          /\ connected /\ session_open /\ m \in queued
          /\ \A n \in queued : m <= n
          /\ queued' = queued \ {m} /\ handling' = m /\ handling = None
          /\ UNCHANGED <<ghosts, faults, digests, arrived, bound, connected,
                         session_open>>
    BY <1>2 DEF Deliver, Dispatch
  <2>2. \A n \in queued' : m < n
    BY <1>0, <2>1
  <2>3. ASSUME faults = 0
        PROVE  \A n \in queued' : n..arrived \subseteq queued'
    <3> SUFFICES ASSUME NEW n \in queued', NEW k \in n..arrived PROVE k \in queued'
      OBVIOUS
    <3>1. n \in Nat /\ m \in Nat /\ n \in queued /\ m < n
      BY <1>0, <2>1, <2>2
    <3>2. k \in queued
      BY <2>3, <3>1
    <3>3. k # m
      BY <3>1
    <3>4. QED
      BY <2>1, <3>2, <3>3
  <2>4. ASSUME faults = 0
        PROVE  (m + 1)..arrived \subseteq queued'
    <3> SUFFICES ASSUME NEW k \in (m + 1)..arrived PROVE k \in queued'
      OBVIOUS
    <3>1. m \in Nat /\ k \in m..arrived /\ k # m
      BY <1>0, <2>1
    <3>2. k \in queued
      BY <2>1, <2>4, <3>1
    <3>3. QED
      BY <2>1, <3>1, <3>2
  <2>5. ASSUME faults = 0, digests # <<>>
        PROVE  /\ \A n \in queued' \union {m} : digests[1] < n
               /\ (digests[1] + 1)..arrived \subseteq queued' \union Malformed \union {m}
    <3>1. (digests[1] + 1)..arrived \subseteq queued \union Malformed \union {None}
      BY <2>1, <2>5
    <3>2. digests[1] \in Nat /\ None = 0
      BY <2>5, PageHasFirst DEF None
    <3>3. None \notin (digests[1] + 1)..arrived
      BY <3>2, <1>0
    <3>4. (digests[1] + 1)..arrived \subseteq queued' \union Malformed \union {m}
      BY <2>1, <3>1, <3>3
    <3>5. \A n \in queued : digests[1] < n
      BY <2>1, <2>5
    <3>6. QED
      BY <2>1, <3>4, <3>5
  <2>6. QED
    BY <1>0, <2>1, <2>2, <2>3, <2>4, <2>5 DEF Adjacent
<1>3. CASE Connect
  BY <1>3 DEF Connect, Subscribe, OnChannelReady, Adjacent
<1>4. CASE NoticeLoss
  <2>1. faults' # 0 \/ faults # 0
    BY <1>4, <1>f DEF NoticeLoss, LoseSession
  <2>2. UNCHANGED <<digests, bound>> /\ bound
    BY <1>4 DEF NoticeLoss, LoseSession
  <2>3. faults' # 0
    BY <1>4, <1>f, <2>1 DEF NoticeLoss, LoseSession
  <2>4. QED
    BY <2>2, <2>3
<1>5. CASE Crash
  <2>1. faults' # 0 /\ UNCHANGED <<bound, queued>>
    BY <1>5, <1>f DEF Crash, Disconnect
  <2>2. ~bound => ghosts' = {}
    BY <1>5 DEF Crash, Disconnect, SessionInv
  <2>3. digests' = <<>> /\ ~connected' /\ ~session_open'
    BY <1>5 DEF Crash, Disconnect
  <2>4. QED
    BY <2>1, <2>2, <2>3
<1>6. CASE PublishUnrouted
  BY <1>6, <1>0 DEF PublishUnrouted, page, SessionInv, Adjacent
<1>7. CASE UNCHANGED vars
  BY <1>7 DEF vars, page, consumer, Adjacent
<1>8. CASE Queue
  <2> UNCHANGED <<handling, digests, bound>>
    BY <1>8 DEF Queue
  <2>1. CASE CancelConsumer
    BY <2>1, <1>f DEF CancelConsumer, consumer
  <2>2. CASE Publish
    <3>1. arrived' = arrived + 1 /\ queued' = queued \union {arrived'}
          /\ UNCHANGED <<ghosts, faults, connected, session_open>>
      BY <2>2 DEF Publish
    <3>2. bound
      BY <1>0, <1>8, <3>1 DEF Queue
    <3>3. \A n \in Int : n..arrived' \subseteq (n..arrived) \union {arrived'}
      BY <1>0, <3>1
    <3>4. ASSUME faults = 0
          PROVE  \A n \in queued' : n..arrived' \subseteq queued'
      <4>1. \A n \in queued : n \in Int /\ n..arrived \subseteq queued
        BY <1>0, <3>4
      <4>2. arrived'..arrived' \subseteq {arrived'}
        BY <1>0, <3>1
      <4>3. QED
        BY <3>1, <3>3, <4>1, <4>2
    <3>5. ASSUME faults = 0, handling # None
          PROVE  /\ \A n \in queued' : handling < n
                 /\ (handling + 1)..arrived' \subseteq queued'
      <4>1. handling \in Nat /\ handling + 1 \in Int /\ handling < arrived'
        BY <1>0, <3>1, <3>5 DEF CallTypeOK, FreshInv, Published
      <4>2. QED
        BY <3>1, <3>3, <3>5, <4>1
    <3>6. ASSUME faults = 0, digests # <<>>
          PROVE  /\ \A n \in queued' \union ({handling} \ {None}) : digests[1] < n
                 /\ (digests[1] + 1)..arrived'
                      \subseteq queued' \union Malformed \union {handling}
      <4>1. digests[1] \in Nat /\ 1 \in DOMAIN digests
        BY <3>6, PageHasFirst
      <4>2. digests[1] + 1 \in Int /\ digests[1] < arrived'
        BY <1>0, <3>1, <4>1 DEF FreshInv, Published
      <4>3. (digests[1] + 1)..arrived'
              \subseteq ((digests[1] + 1)..arrived) \union {arrived'}
        BY <3>3, <4>2
      <4>4. QED
        BY <3>1, <3>6, <4>2, <4>3
    <3>7. QED
      BY <3>1, <3>2, <3>4, <3>5, <3>6 DEF Adjacent
  <2>3. CASE ReceiveVerdict
    <3>1. UNCHANGED <<queued, ghosts, faults, connected, session_open, arrived>>
      BY <2>3 DEF ReceiveVerdict, SessionInv
    <3>2. QED
      BY <3>1 DEF Adjacent
  <2>4. CASE DropSession
    <3>1. faults' # 0 /\ bound
      BY <2>4, <1>f DEF DropSession
    <3>2. QED
      BY <3>1
  <2>5. CASE \E m \in Messages : DropGhost(m)
    BY <2>5 DEF DropGhost, Adjacent
  <2>6. QED
    BY <1>8, <2>1, <2>2, <2>3, <2>4, <2>5 DEF Queue, Broker
<1>9. QED
  BY <1>1, <1>2, <1>3, <1>4, <1>5, <1>6, <1>7, <1>8 DEF Next

-----------------------------------------------------------------------------
(* The order of the deliveries                                             *)

\* A delivery brings the newest digest so far, or one that is late; no other
\* step writes the history of the deliveries.
LEMMA LateStep ==
  ASSUME ConsumerTypeOK, [Next]_vars
  PROVE  /\ newest \in Nat /\ newest' \in Nat
         /\ newest <= newest' /\ late \subseteq late'
         /\ \/ UNCHANGED <<newest, late>> /\ handling' \in {handling, None}
            \/ /\ handling' <= newest'
               /\ handling' \in late' \/ handling' = newest'
<1>0. newest \in Nat /\ Digests \subseteq Nat
  BY DEF ConsumerTypeOK, Digests, Messages
<1>1. CASE Deliver
  <2>1. PICK d \in Digests :
          /\ handling' = d
          /\ newest' = IF d > newest THEN d ELSE newest
          /\ late' = IF d < newest THEN late \union {d} ELSE late
    BY <1>1 DEF Deliver, Dispatch
  <2>2. d \in Nat
    BY <1>0
  <2>3. QED
    BY <1>0, <2>1, <2>2
<1>2. ASSUME UNCHANGED <<newest, late>>, handling' \in {handling, None}
      PROVE  /\ newest \in Nat /\ newest' \in Nat
             /\ newest <= newest' /\ late \subseteq late'
             /\ \/ UNCHANGED <<newest, late>> /\ handling' \in {handling, None}
                \/ /\ handling' <= newest'
                   /\ handling' \in late' \/ handling' = newest'
  BY <1>0, <1>2
<1>3. CASE HandleDigestReady \/ Connect \/ NoticeLoss \/ Crash
  BY <1>2, <1>3
  DEF HandleDigestReady, Answer, Connect, Subscribe, NoticeLoss, LoseSession,
      Disconnect, Crash
<1>4. CASE PublishUnrouted \/ UNCHANGED vars
  BY <1>2, <1>4 DEF PublishUnrouted, vars, page, consumer
<1>5. CASE Queue
  <2>1. UNCHANGED handling
    BY <1>5 DEF Queue
  <2>2. UNCHANGED <<newest, late>>
    BY <1>5
    DEF Queue, Broker, Publish, ReceiveVerdict, DropSession, DropGhost,
        CancelConsumer, consumer
  <2>3. QED
    BY <1>2, <2>1, <2>2
<1>6. QED
  BY <1>1, <1>3, <1>4, <1>5 DEF Next

\* A digest comes in front of a newer one only if it is late.
LEMMA DeliveryStep ==
  ASSUME ConsumerTypeOK, CallTypeOK, HistoryTypeOK, DeliveryInv, [Next]_vars
  PROVE  DeliveryInv'
<1> USE DEF DeliveryInv
<1>1. /\ newest \in Nat /\ newest' \in Nat
      /\ newest <= newest' /\ late \subseteq late'
      /\ \/ UNCHANGED <<newest, late>> /\ handling' \in {handling, None}
         \/ handling' <= newest' /\ (handling' \in late' \/ handling' = newest')
  BY LateStep
<1>2. /\ Len(digests) \in Nat /\ DOMAIN digests = 1..Len(digests)
      /\ \A i \in DOMAIN digests : digests[i] \in Nat /\ digests[i] <= newest'
  <2>1. Len(digests) \in Nat /\ DOMAIN digests = 1..Len(digests)
    BY DEF HistoryTypeOK
  <2>2. \A i \in DOMAIN digests : digests[i] \in Nat
    BY DEF HistoryTypeOK, Shown, Digests, Messages
  <2>3. QED
    BY <1>1, <2>1, <2>2
<1>3. handling' # None =>
        handling' <= newest' /\ (handling' \in late' \/ handling' = newest')
  BY <1>1
<1>4. CASE UNCHANGED digests
  BY <1>1, <1>2, <1>3, <1>4 DEF InTime
<1>5. CASE digests' = <<>>
  <2>1. Len(digests') - 1 = -1 /\ DOMAIN digests' = {}
    BY <1>5
  <2>2. QED
    BY <1>3, <2>1 DEF InTime
<1>6. CASE handling \in Shown /\ digests' = Add(handling, digests)
  <2>1. /\ digests' \in Seq(Shown) /\ 1 <= Len(digests')
        /\ Len(digests') <= Len(digests) + 1 /\ digests'[1] = handling
        /\ \A i \in 2..Len(digests') : digests'[i] = digests[i - 1]
    BY <1>6, AddsToFront DEF HistoryTypeOK
  <2>2. Len(digests') \in Nat /\ DOMAIN digests' = 1..Len(digests')
    BY <2>1
  <2>3. /\ handling \in Nat /\ handling <= newest
        /\ handling \in late \/ handling = newest
    BY <1>6 DEF Shown, Digests, Messages, None
  <2>4. ASSUME NEW i \in 1..Len(digests')
        PROVE  digests'[i] <= newest'
    <3>1. CASE i = 1
      BY <1>1, <2>1, <2>3, <3>1
    <3>2. CASE i # 1
      <4>1. i \in 2..Len(digests') /\ i - 1 \in DOMAIN digests
        BY <1>2, <2>1, <2>2, <3>2
      <4>2. QED
        BY <1>2, <2>1, <4>1
    <3>3. QED
      BY <3>1, <3>2
  <2>5. ASSUME NEW i \in 1..(Len(digests') - 1)
        PROVE  digests'[i + 1] <= digests'[i] \/ digests'[i] \in late'
    <3>1. i + 1 \in 2..Len(digests') /\ i \in DOMAIN digests
      BY <1>2, <2>1, <2>2
    <3>2. digests'[i + 1] = digests[i]
      BY <2>1, <3>1
    <3>3. CASE i = 1
      <4>1. digests[i] <= newest
        BY <3>1
      <4>2. QED
        BY <1>1, <2>1, <2>3, <3>2, <3>3, <4>1
    <3>4. CASE i # 1
      <4>1. i \in 2..Len(digests') /\ i - 1 \in 1..(Len(digests) - 1) /\ (i - 1) + 1 = i
        BY <1>2, <2>1, <2>2, <3>4
      <4>2. digests'[i] = digests[i - 1]
        BY <2>1, <4>1
      <4>3. digests[(i - 1) + 1] <= digests[i - 1] \/ digests[i - 1] \in late
        BY <4>1 DEF InTime
      <4>4. QED
        BY <1>1, <3>2, <4>1, <4>2, <4>3
    <3>5. QED
      BY <3>3, <3>4
  <2>6. QED
    BY <1>3, <2>2, <2>4, <2>5 DEF InTime
<1>7. QED
  BY <1>4, <1>5, <1>6, HistoryStep

-----------------------------------------------------------------------------
(* The theorems                                                            *)

\* Types and the inductive invariant hold in every reachable state.
THEOREM InvariantHolds == Spec => [](TypeOK /\ IInv)
<1>0. TypeOK <=> ConsumerTypeOK /\ CallTypeOK /\ HistoryTypeOK
  BY DEF TypeOK, CallTypeOK, HistoryTypeOK, Shown
<1>1. NewestFirst <=> InTime /\ (faults = 0 => Adjacent)
  BY DEF NewestFirst, InTime, Adjacent, Follows
<1>2. Init => TypeOK /\ IInv
  <2> SUFFICES ASSUME Init PROVE TypeOK /\ IInv
    OBVIOUS
  <2> USE DEF Init, ConsumerInit
  <2>1. ConsumerTypeOK
    <3>1. 0 \in 0..NumMessages /\ 0 \in 0..MaxFaults
      BY ConsumerAssumption
    <3>2. QED
      BY <3>1 DEF ConsumerTypeOK, None
  <2>2. TypeOK
    <3>1. <<>> \in Seq(Shown) /\ Len(<<>>) = 0 /\ 0 <= HistorySize
      BY WebAssumption
    <3>2. HistoryTypeOK /\ CallTypeOK
      BY <3>1 DEF HistoryTypeOK, CallTypeOK
    <3>3. QED
      BY <1>0, <2>1, <3>2
  <2>3. SessionInv /\ PlaceInv /\ FreshInv
    BY DEF SessionInv, PlaceInv, FreshInv, Published, None
  <2>4. CopiesInv
    <3>1. \A d : Positions(d) = {}
      BY DEF Positions
    <3>2. \A d \in Digests : d # None
      BY DEF Digests, Messages, None
    <3>3. QED
      BY <3>1, <3>2, FS_EmptySet DEF CopiesInv, Copies, Count
  <2>5. OrderInv /\ DeliveryInv /\ NewestFirst
    <3>1. digests = <<>> /\ Len(<<>>) - 1 = -1
      OBVIOUS
    <3>2. NewestFirst
      BY <3>1 DEF NewestFirst
    <3>3. OrderInv
      BY <3>1 DEF OrderInv, None
    <3>4. DeliveryInv
      BY <3>1 DEF DeliveryInv, InTime
    <3>5. QED
      BY <3>2, <3>3, <3>4
  <2>6. QED
    BY <2>2, <2>3, <2>4, <2>5 DEF IInv
<1>3. TypeOK /\ IInv /\ [Next]_vars => (TypeOK /\ IInv)'
  <2> SUFFICES ASSUME TypeOK, IInv, [Next]_vars PROVE (TypeOK /\ IInv)'
    OBVIOUS
  <2>0. /\ ConsumerTypeOK /\ CallTypeOK /\ HistoryTypeOK /\ SessionInv /\ PlaceInv
        /\ FreshInv /\ CopiesInv /\ OrderInv /\ DeliveryInv
        /\ (faults = 0 => Adjacent)
    BY <1>0, <1>1 DEF IInv
  <2>1. ConsumerTypeOK' /\ CallTypeOK' /\ SessionInv' /\ PlaceInv'
    BY <2>0, SessionStep
  <2>2. HistoryTypeOK' /\ FreshInv'
    BY <2>0, HistoryStep, FreshStep
  <2>3. CopiesInv'
    BY <2>0, CopiesStep
  <2>4. OrderInv' /\ (faults' = 0 => Adjacent')
    BY <2>0, OrderStep
  <2>5. TypeOK'
    BY <2>1, <2>2 DEF TypeOK, CallTypeOK, HistoryTypeOK, Shown
  <2>6. DeliveryInv'
    BY <2>0, DeliveryStep
  <2>7. NewestFirst'
    BY <2>4, <2>6 DEF NewestFirst, DeliveryInv, InTime, Adjacent, Follows
  <2>8. QED
    BY <2>1, <2>2, <2>3, <2>4, <2>5, <2>6, <2>7 DEF IInv
<1>4. QED
  BY <1>2, <1>3, PTL DEF Spec

\* The page, the handler's digest and the session keep their types, and the
\* history its length.
THEOREM TypeCorrect == Spec => []TypeOK
BY InvariantHolds, PTL

\* A digest stands in front of a newer one only if it was delivered late, and
\* until something fails the page is the last digests of the queue, without a gap.
THEOREM PageIsNewestFirst == Spec => []NewestFirst
<1>1. IInv => NewestFirst
  BY DEF IInv
<1>2. QED
  BY <1>1, InvariantHolds, PTL

\* However often sessions are lost and digests delivered again: a digest is on
\* the page once, and once more for each failure at most.
THEOREM CopiesBounded == Spec => []CopiesAreBounded
<1>1. TypeOK /\ IInv => CopiesAreBounded
  <2> SUFFICES ASSUME TypeOK, IInv, NEW d \in Digests
               PROVE  Cardinality(Positions(d)) <= 1 + faults
    BY DEF CopiesAreBounded
  <2>1. Cardinality(Positions(d)) \in Nat /\ faults \in Nat
    BY PositionsAreFinite DEF TypeOK, HistoryTypeOK, Shown, ConsumerTypeOK
  <2>2. Copies(d) <= 1 + faults
    BY DEF IInv, CopiesInv
  <2>3. QED
    BY <2>1, <2>2 DEF Copies, Count
<1>2. QED
  BY <1>1, InvariantHolds, PTL
=============================================================================
