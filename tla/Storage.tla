------------------------------ MODULE Storage ------------------------------
(***************************************************************************)
(* The storage service: batches of parsed articles go from the             *)
(* parsed_articles queue into SQLite, and on a timer the best articles go  *)
(* out as a digest.                                                        *)
(*                                                                         *)
(* The service is single-threaded, but between any two SQL statements the  *)
(* process may die, the broker may give up the session, or SQLite may fail *)
(* the statement.                                                          *)
(*                                                                         *)
(* Definitions named F_without... or F_with... are broken variants of F.   *)
(***************************************************************************)
EXTENDS Consumer, Ranking, Sequences

CONSTANTS
  Articles,          \* article ids, integers
  Content,           \* Content[b][a]: counters of article a in batch b
  Malformed,         \* batches that are no valid JSON message
  BusyCommit,        \* whether a COMMIT may fail and leave its transaction open
  Period, Limit,     \* digest_period_hours and digest_top_n
  MaxTime,           \* bound: the clock
  NoTx

Batches == Messages

ASSUME StorageAssumption ==
  /\ Articles \subseteq Int /\ IsFiniteSet(Articles)
  /\ Malformed \subseteq Batches
  /\ BusyCommit \in BOOLEAN
  /\ Period \in Nat /\ Limit \in Nat \ {0}
  /\ MaxTime \in Nat
  \* The parser publishes no batch without articles (Relay, Empty).
  /\ \A b \in Batches :
       /\ DOMAIN Content[b] \in (SUBSET Articles) \ {{}}
       /\ \A a \in DOMAIN Content[b] :
            Content[b][a] \in [votes : Int, bookmarks : Int, comments : Int,
                               views : Int]

VARIABLES
  \* the process
  handler,           \* where HandleParsedArticles is
  batch,             \* the batch it works on
  todo,              \* articles of the batch not upserted yet
  now_epoch,         \* read once per batch
  \* SQLite
  db,                \* the committed articles table
  tx,                \* what the open transaction sees, or NoTx
  \* the exchange and the environment
  digest,            \* the digest published last
  clock,
  committed          \* history: batches of committed transactions

call   == <<handler, batch, todo, now_epoch>>
sqlite == <<db, tx, committed>>
vars   == <<consumer, faults, call, sqlite, digest, clock>>

Rows == [votes : Int, bookmarks : Int, comments : Int, views : Int,
         first_seen : Int, updated : Int, trace : Batches]

ASSUME NoRowAssumption == NoRow \notin Rows

Tables == [Articles -> Rows \union {NoRow}]

\* The rows of a digest.
Entries == [article_id : Articles, votes : Int, bookmarks : Int,
            comments : Int, views : Int, trace : Batches]

TypeOK ==
  /\ ConsumerTypeOK
  /\ handler \in {"idle", "parse", "upsert", "count"}
  /\ batch \in Batches \union {None}
  /\ todo \subseteq Articles
  /\ now_epoch \in 0..MaxTime /\ clock \in 0..MaxTime
  /\ db \in Tables
  /\ tx \in Tables \union {NoTx}
  /\ digest \in Seq(Entries)
  /\ Len(digest) <= Limit
  /\ committed \subseteq Batches

Init ==
  /\ ConsumerInit
  /\ handler = "idle" /\ batch = None /\ todo = {} /\ now_epoch = 0
  /\ db = [a \in Articles |-> NoRow] /\ tx = NoTx /\ committed = {}
  /\ digest = <<>> /\ clock = 0

-----------------------------------------------------------------------------
(* ArticleStore                                                            *)

\* What the service's own connection reads: its open transaction, if any.
View == IF tx = NoTx THEN db ELSE tx

Inserted(b, a) ==
  [votes |-> Content[b][a].votes, bookmarks |-> Content[b][a].bookmarks,
   comments |-> Content[b][a].comments, views |-> Content[b][a].views,
   first_seen |-> now_epoch, updated |-> now_epoch, trace |-> b]

UpsertRow_withReplace(row, b, a) == Inserted(b, a)

UpsertRow_withDoNothing(row, b, a) ==
  IF row = NoRow THEN Inserted(b, a) ELSE row

\* kUpsertSql: a conflict updates every column but the two of first_seen.
UpsertRow(row, b, a) ==
  IF row = NoRow THEN Inserted(b, a)
                 ELSE [Inserted(b, a) EXCEPT !.first_seen = row.first_seen]

\* HandleParsedArticles returns.
Decide(ack) ==
  /\ handler' = "idle" /\ batch' = None /\ todo' = {}
  /\ Answer(ack)
  /\ UNCHANGED <<now_epoch, digest, clock>>

OnFailure_withAck == "kAck"

OnFailure == "kRequeue"

RejectMalformed ==
  /\ handler = "parse"
  /\ batch \in Malformed
  /\ Decide("kReject")
  /\ UNCHANGED <<sqlite, faults>>

\* UpsertBatch up to BEGIN IMMEDIATE, which fails inside a transaction.
Begin ==
  /\ handler = "parse"
  /\ batch \notin Malformed
  /\ tx = NoTx
  /\ now_epoch' = clock
  /\ tx' = db
  /\ todo' = DOMAIN Content[batch]
  /\ handler' = "upsert"
  /\ UNCHANGED <<consumer, faults, batch, db, committed, digest, clock>>

BeginFails ==
  /\ handler = "parse"
  /\ batch \notin Malformed
  /\ \/ tx # NoTx /\ UNCHANGED faults
     \/ tx = NoTx /\ Fault
  /\ Decide(OnFailure)
  /\ UNCHANGED sqlite

Upsert(a) ==
  /\ handler = "upsert"
  /\ a \in todo
  /\ tx' = [tx EXCEPT ![a] = UpsertRow(@, batch, a)]
  /\ todo' = todo \ {a}
  /\ UNCHANGED <<consumer, faults, handler, batch, now_epoch, db, committed,
                 digest, clock>>

AfterRollback_withOpenTx == tx

AfterRollback == NoTx

\* The catch clause rolls back; if SQLite has done so already, ROLLBACK throws
\* in its turn, with the same outcome.
UpsertFails ==
  /\ handler = "upsert"
  /\ todo # {}
  /\ Fault
  /\ tx' = AfterRollback
  /\ Decide(OnFailure)
  /\ UNCHANGED <<db, committed>>

MayCommit_withMissingRows == TRUE

MayCommit == todo = {}

Commit ==
  /\ handler = "upsert"
  /\ MayCommit
  /\ db' = tx
  /\ tx' = NoTx
  /\ committed' = committed \union {batch}
  /\ handler' = "count"
  /\ UNCHANGED <<consumer, faults, batch, todo, now_epoch, digest, clock>>

\* COMMIT is outside the try block.  SQLite rolls back by itself when a COMMIT
\* fails, except with SQLITE_BUSY, which leaves the transaction open.
CommitFails ==
  /\ handler = "upsert"
  /\ MayCommit
  /\ Fault
  /\ \/ tx' = NoTx
     \/ BusyCommit /\ UNCHANGED tx
  /\ Decide(OnFailure)
  /\ UNCHANGED <<db, committed>>

\* CountArticles, called for the log line, may throw after the commit.
Count ==
  /\ handler = "count"
  /\ \/ Decide("kAck") /\ UNCHANGED faults
     \/ Decide(OnFailure) /\ Fault
  /\ UNCHANGED sqlite

-----------------------------------------------------------------------------
(* The digest timer, the session and the process                           *)

\* OnTick on an armed timer, that is on a usable channel (AmqpService).  An
\* empty digest is not published.
PublishDigest ==
  /\ connected
  /\ handler = "idle"
  /\ LET top == TopArticles(View, clock - Period, Limit)
     IN  top # <<>> /\ digest' = top
  /\ UNCHANGED <<consumer, faults, call, sqlite, clock>>

Deliver ==
  /\ handler = "idle"
  /\ \E b \in Batches : Dispatch(b) /\ batch' = b
  /\ handler' = "parse"
  /\ UNCHANGED <<faults, todo, now_epoch, sqlite, digest, clock>>

\* OnChannelReady.
Connect ==
  /\ Subscribe
  /\ UNCHANGED <<faults, call, sqlite, digest, clock>>

\* A lost connection is noticed between two callbacks.
NoticeLoss ==
  /\ handler = "idle"
  /\ LoseSession
  /\ UNCHANGED <<call, sqlite, digest, clock>>

\* The process dies and is restarted; SQLite recovers what was committed.
Crash ==
  /\ Fault
  /\ Disconnect
  /\ handler' = "idle" /\ batch' = None /\ todo' = {}
  /\ tx' = NoTx
  /\ UNCHANGED <<now_epoch, db, committed, digest, clock>>

PassTime ==
  /\ clock < MaxTime
  /\ clock' = clock + 1
  /\ UNCHANGED <<consumer, faults, call, sqlite, digest>>

Handle ==
  \/ RejectMalformed
  \/ Begin
  \/ BeginFails
  \/ \E a \in Articles : Upsert(a)
  \/ UpsertFails
  \/ Commit
  \/ CommitFails
  \/ Count

Queue == Broker /\ UNCHANGED <<call, sqlite, digest, clock>>

Next ==
  \/ Handle
  \/ PublishDigest
  \/ Deliver
  \/ Connect
  \/ NoticeLoss
  \/ Crash
  \/ PassTime
  \/ Queue

Spec == Init /\ [][Next]_vars

\* Calls return, and each end notices a session the other one has ended.
Fairness ==
  /\ WF_vars(Handle)
  /\ WF_vars(Connect)
  /\ WF_vars(Deliver)
  /\ WF_vars(Queue /\ ReceiveVerdict)
  /\ WF_vars(~session_open /\ NoticeLoss)
  /\ \A b \in Batches : WF_vars(Queue /\ DropGhost(b))

FairSpec == Spec /\ Fairness

-----------------------------------------------------------------------------
(* Properties                                                              *)

Stored(table, a) == table[a] # NoRow

\* The broker forgets a well-formed batch only when its transaction has been
\* committed, wherever the process died or SQLite failed.
AckedIsCommitted == acked \subseteq committed

\* The table is always the outcome of whole batches: where one article of a
\* batch shows it, the others show it or a batch written later.
WholeBatches ==
  \A a, c \in Articles :
    Stored(db, a) /\ c \in DOMAIN Content[db[a].trace] =>
      Stored(db, c) /\ db[c].updated >= db[a].updated

\* An article's first_seen never changes once committed, whatever is delivered
\* again: it is what the digest's window is about.
FirstSeenIsKept ==
  [][\A a \in Articles : Stored(db, a) =>
       Stored(db', a) /\ db'[a].first_seen = db[a].first_seen]_vars

\* An article shows older counters than a committed batch had for it only if
\* their batch was delivered after a newer one, whatever failed.
CountersAreFresh ==
  \A a \in Articles, b \in committed :
    a \in DOMAIN Content[b] =>
      /\ Stored(db, a)
      /\ b <= db[a].trace \/ db[a].trace \in late

\* A digest shows data of committed transactions only.
DigestIsCommitted == \A i \in DOMAIN digest : digest[i].trace \in committed

\* kRequeue gives a batch another attempt, and once the faults are over one of
\* them succeeds (amqp_service.hpp:35).
EveryBatchIsStored ==
  \A b \in Batches \ Malformed : (b <= arrived) ~> (b \in committed)
=============================================================================
