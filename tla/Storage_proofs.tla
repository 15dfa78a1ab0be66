--------------------------- MODULE Storage_proofs ---------------------------
(***************************************************************************)
(* Proofs about the storage service for any articles, batches and numbers  *)
(* of failures, whether or not a COMMIT may leave its transaction open:    *)
(* what is acknowledged is committed, batches are stored whole, an         *)
(* article's first_seen never changes, and its counters go back to those   *)
(* of an older batch only with one delivered late.                         *)
(***************************************************************************)
EXTENDS Storage, Ranking_proofs, TLAPS

-----------------------------------------------------------------------------
(* The inductive invariant                                                 *)

\* What the handler works on is what the session holds, and a verdict on its
\* way is about it: only an ack may forget it, and only when it is committed.
SessionInv ==
  /\ handler # "idle" => connected /\ batch \in Batches
  /\ handler # "idle" /\ session_open => delivered = batch
  /\ verdict # "none" => /\ handler = "idle"
                         /\ delivered \in Batches
  /\ verdict = "kAck" => delivered \in committed
  /\ handler = "count" => batch \in committed
  /\ AckedIsCommitted

\* Rows that show a batch have the rest of the batch beside them, but for what
\* is still to be written of it.
Whole(table, rest, current) ==
  \A a, c \in Articles :
    Stored(table, a) /\ c \in DOMAIN Content[table[a].trace] =>
      \/ Stored(table, c) /\ table[c].updated >= table[a].updated
      \/ c \in rest /\ table[a].trace = current

Until(table, time) ==
  \A a \in Articles : Stored(table, a) => table[a].updated <= time

\* What is not to be written any more has been written.
Written ==
  \A c \in DOMAIN Content[batch] \ todo :
    Stored(tx, c) /\ tx[c].updated = now_epoch

KeepsFirstSeen(old, new) ==
  \A a \in Articles : Stored(old, a) =>
    Stored(new, a) /\ new[a].first_seen = old[a].first_seen

\* The transaction of the batch at work is what Commit makes the table.  One
\* that a COMMIT has left open is nobody's: nothing is said of it.
TransactionInv ==
  handler = "upsert" =>
    /\ tx \in Tables
    /\ todo \subseteq DOMAIN Content[batch]
    /\ now_epoch <= clock
    /\ Until(tx, now_epoch)
    /\ Written
    /\ Whole(tx, todo, batch)
    /\ KeepsFirstSeen(db, tx)

IInv ==
  /\ SessionInv
  /\ Until(db, clock)
  /\ Whole(db, {}, None)
  /\ TransactionInv

-----------------------------------------------------------------------------
(* The session                                                             *)

CallTypeOK ==
  /\ handler \in {"idle", "parse", "upsert", "count"}
  /\ batch \in Batches \union {None}

\* Whatever happens to the session, a verdict answers what it holds.
LEMMA SessionStep ==
  ASSUME ConsumerTypeOK, CallTypeOK, SessionInv, [Next]_vars
  PROVE  ConsumerTypeOK' /\ CallTypeOK' /\ SessionInv'
<1> USE DEF CallTypeOK, SessionInv, AckedIsCommitted, Verdicts
<1>b. Batches = Messages /\ None \notin Messages
  BY DEF Batches, Messages, None
<1>f. ASSUME Fault \/ UNCHANGED faults
      PROVE  faults' \in 0..MaxFaults
  BY <1>f, ConsumerAssumption DEF Fault, ConsumerTypeOK
<1>d. ASSUME NEW m \in Messages, Dispatch(m)
      PROVE  newest' \in 0..NumMessages /\ late' \subseteq Messages
  BY <1>d DEF Dispatch, Messages, ConsumerTypeOK
<1>1. ASSUME NEW ack \in Verdicts, Decide(ack), ack = "kAck" => handler = "count",
             handler # "idle", UNCHANGED committed, Fault \/ UNCHANGED faults
      PROVE  ConsumerTypeOK' /\ CallTypeOK' /\ SessionInv'
  BY <1>1, <1>b, <1>f DEF Decide, Answer, ConsumerTypeOK
<1>2. CASE RejectMalformed \/ BeginFails \/ UpsertFails \/ CommitFails \/ Count
  BY <1>2, <1>1
  DEF RejectMalformed, BeginFails, UpsertFails, CommitFails, Count, OnFailure,
      sqlite
<1>3. CASE Begin \/ (\E a \in Articles : Upsert(a)) \/ Commit
  BY <1>3 DEF Begin, Upsert, Commit, consumer, ConsumerTypeOK
<1>4. CASE Deliver
  BY <1>4, <1>b, <1>d DEF Deliver, Dispatch, sqlite, ConsumerTypeOK
<1>5. CASE Connect
  BY <1>5, <1>b DEF Connect, Subscribe, sqlite, call, ConsumerTypeOK
<1>6. CASE NoticeLoss
  BY <1>6, <1>b, <1>f DEF NoticeLoss, LoseSession, Disconnect, sqlite, call, ConsumerTypeOK
<1>7. CASE Crash
  BY <1>7, <1>b, <1>f DEF Crash, Disconnect, sqlite, call, ConsumerTypeOK
<1>8. CASE PublishDigest \/ PassTime \/ UNCHANGED vars
  BY <1>8 DEF PublishDigest, PassTime, vars, sqlite, call, consumer, ConsumerTypeOK
<1>9. CASE Queue
  <2> UNCHANGED <<handler, batch, committed>>
    BY <1>9 DEF Queue, call, sqlite
  <2>1. CASE Publish
    <3>1. arrived' \in 0..NumMessages /\ arrived' \in Messages
      BY <2>1, ConsumerAssumption DEF Publish, Messages, ConsumerTypeOK
    <3>2. QED
      BY <2>1, <3>1 DEF Publish, ConsumerTypeOK
  <2>2. CASE ReceiveVerdict
    BY <2>2, <1>b DEF ReceiveVerdict, ConsumerTypeOK
  <2>3. CASE DropSession
    BY <2>3, <1>b, <1>f DEF DropSession, ConsumerTypeOK
  <2>4. CASE \E m \in Messages : DropGhost(m)
    BY <2>4 DEF DropGhost, ConsumerTypeOK
  <2>5. QED
    BY <1>9, <2>1, <2>2, <2>3, <2>4 DEF Queue, Broker
<1>10. QED
  BY <1>2, <1>3, <1>4, <1>5, <1>6, <1>7, <1>8, <1>9 DEF Next, Handle

-----------------------------------------------------------------------------
(* The tables                                                              *)

DataTypeOK ==
  /\ todo \subseteq Articles
  /\ now_epoch \in 0..MaxTime /\ clock \in 0..MaxTime
  /\ db \in Tables
  /\ tx \in Tables \union {NoTx}
  /\ committed \subseteq Batches

\* One upsert: the row shows the batch and the time of the batch, and an
\* article that was stored keeps its first_seen.
LEMMA UpsertedRow ==
  ASSUME NEW b \in Batches, NEW a \in DOMAIN Content[b], a \in Articles,
         now_epoch \in Int, NEW row \in Rows \union {NoRow}
  PROVE  /\ UpsertRow(row, b, a) \in Rows
         /\ UpsertRow(row, b, a) # NoRow
         /\ UpsertRow(row, b, a).updated = now_epoch
         /\ UpsertRow(row, b, a).trace = b
         /\ row # NoRow => UpsertRow(row, b, a).first_seen = row.first_seen
<1>1. Content[b][a] \in [votes : Int, bookmarks : Int, comments : Int, views : Int]
  BY StorageAssumption
<1>2. Inserted(b, a) \in Rows
  BY <1>1 DEF Inserted, Rows
<1>3. Inserted(b, a).updated = now_epoch /\ Inserted(b, a).trace = b
  BY DEF Inserted
<1>4. CASE row = NoRow
  BY <1>2, <1>3, <1>4, NoRowAssumption DEF UpsertRow
<1>5. CASE row # NoRow
  <2>1. row.first_seen \in Int
    BY <1>5 DEF Rows
  <2>2. UpsertRow(row, b, a) \in Rows
    BY <1>2, <1>5, <2>1 DEF UpsertRow, Rows
  <2>3. QED
    BY <1>2, <1>3, <1>5, <2>2, NoRowAssumption DEF UpsertRow, Rows
<1>6. QED
  BY <1>4, <1>5

\* One step of the handler's loop over the batch.
LEMMA UpsertStep ==
  ASSUME DataTypeOK, TransactionInv, batch \in Batches,
         NEW a \in Articles, Upsert(a)
  PROVE  tx' \in Tables /\ TransactionInv'
<1> DEFINE new == UpsertRow(tx[a], batch, a)
<1>1. /\ handler = "upsert" /\ a \in todo /\ todo' = todo \ {a}
      /\ tx' = [tx EXCEPT ![a] = new]
      /\ UNCHANGED <<handler, batch, now_epoch, clock, db>>
  BY DEF Upsert
<1>2. /\ tx \in Tables /\ todo \subseteq DOMAIN Content[batch]
      /\ now_epoch <= clock /\ Until(tx, now_epoch) /\ Written
      /\ Whole(tx, todo, batch) /\ KeepsFirstSeen(db, tx)
  BY <1>1 DEF TransactionInv
<1>3. tx[a] \in Rows \union {NoRow}
  BY <1>2 DEF Tables
<1>4. /\ new \in Rows /\ new # NoRow
      /\ new.updated = now_epoch /\ new.trace = batch
      /\ tx[a] # NoRow => new.first_seen = tx[a].first_seen
  BY <1>1, <1>2, <1>3, UpsertedRow DEF DataTypeOK
<1>5. now_epoch \in Int
  BY DEF DataTypeOK
<1> HIDE DEF new
<1>6. /\ tx' \in Tables
      /\ tx'[a] = new
      /\ \A c \in Articles \ {a} : tx'[c] = tx[c]
  BY <1>1, <1>2, <1>4 DEF Tables
<1>7. Until(tx', now_epoch)
  BY <1>2, <1>4, <1>5, <1>6 DEF Until, Stored
<1>8. Written'
  BY <1>1, <1>2, <1>4, <1>6, StorageAssumption DEF Written, Stored
<1>9. Whole(tx', todo', batch)
  <2> SUFFICES ASSUME NEW x \in Articles, NEW c \in Articles,
                      Stored(tx', x), c \in DOMAIN Content[tx'[x].trace]
               PROVE  \/ Stored(tx', c) /\ tx'[c].updated >= tx'[x].updated
                      \/ c \in todo' /\ tx'[x].trace = batch
    BY DEF Whole
  <2>1. CASE c = a
    BY <2>1, <1>4, <1>5, <1>6, <1>7 DEF Until, Stored
  <2>2. CASE c # a /\ x = a
    BY <2>2, <1>1, <1>2, <1>4, <1>5, <1>6 DEF Written, Stored
  <2>3. CASE c # a /\ x # a
    BY <2>3, <1>1, <1>2, <1>6 DEF Whole, Stored
  <2>4. QED
    BY <2>1, <2>2, <2>3
<1>10. KeepsFirstSeen(db, tx')
  BY <1>2, <1>4, <1>6 DEF KeepsFirstSeen, Stored
<1>11. QED
  BY <1>1, <1>2, <1>6, <1>7, <1>8, <1>9, <1>10 DEF TransactionInv

\* Only the upserts and the commit write a table; the commit puts a finished
\* transaction in its place.
LEMMA TableStep ==
  ASSUME CallTypeOK, DataTypeOK, SessionInv, Until(db, clock), Whole(db, {}, None),
         TransactionInv, [Next]_vars
  PROVE  /\ DataTypeOK' /\ TransactionInv'
         /\ Until(db, clock)' /\ Whole(db, {}, None)'
         /\ KeepsFirstSeen(db, db')
<1>s. KeepsFirstSeen(db, db)
  BY DEF KeepsFirstSeen
<1>n. 0 \in 0..MaxTime /\ now_epoch \in Int /\ clock \in Int
  BY StorageAssumption DEF DataTypeOK
<1>1. CASE \E a \in Articles : Upsert(a)
  <2> PICK a \in Articles : Upsert(a)
    BY <1>1
  <2>1. batch \in Batches
    BY DEF SessionInv, Upsert
  <2>2. tx' \in Tables /\ TransactionInv'
    BY <2>1, UpsertStep
  <2>3. UNCHANGED <<db, clock, now_epoch, committed>> /\ todo' \subseteq todo
    BY DEF Upsert
  <2>4. QED
    BY <1>s, <2>2, <2>3 DEF DataTypeOK, Until, Whole
<1>2. CASE Begin
  <2>1. /\ batch \in Batches /\ batch' = batch /\ handler' = "upsert"
        /\ tx' = db /\ now_epoch' = clock /\ todo' = DOMAIN Content[batch]
        /\ UNCHANGED <<db, clock, committed>>
    BY <1>2 DEF Begin, SessionInv
  <2>2. todo' \subseteq Articles
    BY <2>1, StorageAssumption
  <2>3. Written'
    BY <2>1 DEF Written
  <2>4. Whole(tx, todo, batch)'
    BY <2>1 DEF Whole
  <2>5. KeepsFirstSeen(db, tx)' /\ Until(tx, now_epoch)'
    BY <1>s, <2>1 DEF KeepsFirstSeen, Until
  <2>6. (now_epoch <= clock)'
    BY <2>1, <1>n
  <2>7. TransactionInv'
    BY <2>1, <2>3, <2>4, <2>5, <2>6 DEF TransactionInv, DataTypeOK
  <2>8. QED
    BY <1>s, <2>1, <2>2, <2>7 DEF DataTypeOK, Until, Whole
<1>3. CASE Commit
  <2>1. /\ handler = "upsert" /\ todo = {} /\ batch \in Batches
        /\ db' = tx /\ tx' = NoTx /\ handler' = "count"
        /\ committed' = committed \union {batch}
        /\ UNCHANGED <<todo, now_epoch, clock>>
    BY <1>3 DEF Commit, MayCommit, SessionInv
  <2>2. /\ tx \in Tables /\ now_epoch <= clock /\ Until(tx, now_epoch)
        /\ Whole(tx, {}, batch) /\ KeepsFirstSeen(db, tx)
    BY <2>1 DEF TransactionInv
  <2>3. \A a \in Articles : Stored(tx, a) => tx[a].updated \in Int
    BY <2>2 DEF Tables, Stored, Rows
  <2>4. Until(db, clock)'
    BY <1>n, <2>1, <2>2, <2>3 DEF Until
  <2>5. Whole(db, {}, None)'
    BY <2>1, <2>2 DEF Whole
  <2>6. TransactionInv'
    BY <2>1 DEF TransactionInv
  <2>7. QED
    BY <2>1, <2>2, <2>4, <2>5, <2>6 DEF DataTypeOK
<1>4. CASE PassTime
  <2>1. /\ clock' = clock + 1 /\ clock' \in 0..MaxTime
        /\ UNCHANGED <<handler, batch, todo, now_epoch, db, tx, committed>>
    BY <1>4, StorageAssumption DEF PassTime, call, sqlite, DataTypeOK
  <2>2. \A a \in Articles : Stored(db, a) => db[a].updated \in Int
    BY DEF DataTypeOK, Tables, Stored, Rows
  <2>3. Until(db, clock)'
    BY <1>n, <2>1, <2>2 DEF Until, Stored
  <2>4. TransactionInv'
    BY <1>n, <2>1 DEF TransactionInv, Written, Until, Whole, KeepsFirstSeen, Stored
  <2>5. QED
    BY <1>s, <2>1, <2>3, <2>4 DEF DataTypeOK, Whole, Stored
<1>5. ASSUME handler' # "upsert" \/ UNCHANGED <<handler, batch, tx, now_epoch>>,
             UNCHANGED <<db, clock, committed, now_epoch>>,
             todo' = {} \/ todo' = todo, handler' = "upsert" => todo' = todo,
             tx' \in {tx, NoTx}
      PROVE  /\ DataTypeOK' /\ TransactionInv'
             /\ Until(db, clock)' /\ Whole(db, {}, None)'
             /\ KeepsFirstSeen(db, db')
  BY <1>5, <1>s
  DEF DataTypeOK, TransactionInv, Written, Until, Whole, KeepsFirstSeen, Stored
<1>6. CASE RejectMalformed \/ BeginFails \/ UpsertFails \/ CommitFails \/ Count
  BY <1>5, <1>6
  DEF RejectMalformed, BeginFails, UpsertFails, CommitFails, Count, Decide,
      AfterRollback, sqlite
<1>7. CASE Deliver \/ Connect \/ NoticeLoss \/ Crash
  BY <1>5, <1>7 DEF Deliver, Connect, NoticeLoss, Crash, sqlite, call
<1>8. CASE PublishDigest \/ Queue \/ UNCHANGED vars
  BY <1>5, <1>8 DEF PublishDigest, Queue, sqlite, call, vars
<1>9. QED
  BY <1>1, <1>2, <1>3, <1>4, <1>6, <1>7, <1>8 DEF Next, Handle

-----------------------------------------------------------------------------
(* The digest                                                              *)

DigestTypeOK == digest \in Seq(Entries) /\ Len(digest) <= Limit

\* The articles table is one that kTopSql can rank.
LEMMA TableIsRanked ==
  ASSUME NEW table \in Tables
  PROVE  DOMAIN table = Articles /\ IsTable(table)
<1>1. DOMAIN table = Articles
  BY DEF Tables
<1>2. \A a \in Articles : table[a] # NoRow => table[a] \in Rows /\ a \in Int
  BY StorageAssumption DEF Tables
<1>3. Batches \subseteq Int
  BY DEF Batches, Messages
<1>4. \A a \in Articles : table[a] # NoRow => WithId(table, a) \in RankedRows
  BY <1>2, <1>3 DEF WithId, RankedRows, Rows
<1>5. QED
  BY <1>1, <1>4, StorageAssumption DEF IsTable

\* What kTopSql makes of a table is a digest within the limit.
LEMMA TopArticlesType ==
  ASSUME NEW table \in Tables, NEW cutoff
  PROVE  /\ TopArticles(table, cutoff, Limit) \in Seq(Entries)
         /\ Len(TopArticles(table, cutoff, Limit)) <= Limit
<1> DEFINE top  == TopArticles(table, cutoff, Limit)
           rows == Eligible(table, cutoff)
<1>1. /\ top \in Seq(rows)
      /\ Len(top) = IF Limit < Cardinality(rows) THEN Limit ELSE Cardinality(rows)
  BY TableIsRanked, TopArticlesAreBest, StorageAssumption
<1>2. Cardinality(rows) \in Nat
  BY TableIsRanked, EligibleIsRankable, FS_CardinalityType DEF Rankable
<1>3. rows \subseteq Entries
  <2>1. \A a \in Articles : Stored(table, a) => WithId(table, a) \in Entries
    BY DEF Tables, Stored, WithId, Rows, Entries
  <2>2. QED
    BY <2>1, TableIsRanked DEF Eligible, Stored
<1> HIDE DEF top, rows
<1>4. top \in Seq(Entries)
  BY <1>1, <1>3
<1>5. Len(top) <= Limit
  BY <1>1, <1>2, StorageAssumption
<1>6. QED
  BY <1>4, <1>5 DEF top

LEMMA DigestTypeStep ==
  ASSUME DataTypeOK, DigestTypeOK, [Next]_vars
  PROVE  DigestTypeOK'
<1>1. CASE PublishDigest
  <2>1. View \in Tables
    BY DEF View, DataTypeOK
  <2>2. digest' = TopArticles(View, clock - Period, Limit)
    BY <1>1 DEF PublishDigest
  <2>3. QED
    BY <2>1, <2>2, TopArticlesType DEF DigestTypeOK
<1>2. CASE ~PublishDigest
  <2>1. UNCHANGED digest
    BY <1>2
    DEF Next, Handle, RejectMalformed, Begin, BeginFails, Upsert, UpsertFails,
        Commit, CommitFails, Count, Decide, Deliver, Connect, NoticeLoss, Crash,
        PassTime, Queue, vars
  <2>2. QED
    BY <2>1 DEF DigestTypeOK
<1>3. QED
  BY <1>1, <1>2

-----------------------------------------------------------------------------
(* The theorems                                                            *)

\* Types and the inductive invariant hold in every reachable state.
THEOREM InvariantHolds == Spec => [](TypeOK /\ IInv)
<1>1. Init => TypeOK /\ IInv
  <2> SUFFICES ASSUME Init PROVE TypeOK /\ IInv
    OBVIOUS
  <2>1. \A a \in Articles : ~Stored(db, a)
    BY DEF Init, Stored
  <2>2. ConsumerTypeOK
    <3>1. 0 \in 0..NumMessages /\ 0 \in 0..MaxFaults
      BY ConsumerAssumption
    <3>2. QED
      BY <3>1 DEF Init, ConsumerInit, ConsumerTypeOK, None
  <2>3. TypeOK
    <3>1. <<>> \in Seq(Entries) /\ Len(<<>>) <= Limit
      BY StorageAssumption
    <3>2. QED
      BY <2>2, <3>1, StorageAssumption DEF Init, TypeOK, Tables
  <2>4. SessionInv
    BY DEF Init, ConsumerInit, SessionInv, AckedIsCommitted
  <2>5. QED
    BY <2>1, <2>3, <2>4 DEF Init, IInv, Until, Whole, TransactionInv
<1>2. TypeOK /\ IInv /\ [Next]_vars => (TypeOK /\ IInv)'
  <2> SUFFICES ASSUME TypeOK, IInv, [Next]_vars PROVE (TypeOK /\ IInv)'
    OBVIOUS
  <2>1. ConsumerTypeOK /\ CallTypeOK /\ DataTypeOK /\ DigestTypeOK
    BY DEF TypeOK, CallTypeOK, DataTypeOK, DigestTypeOK
  <2>2. ConsumerTypeOK' /\ CallTypeOK' /\ SessionInv'
    BY <2>1, SessionStep DEF IInv
  <2>3. /\ DataTypeOK' /\ TransactionInv'
        /\ Until(db, clock)' /\ Whole(db, {}, None)'
    BY <2>1, TableStep DEF IInv
  <2>4. TypeOK'
    BY <2>1, <2>2, <2>3, DigestTypeStep DEF TypeOK, CallTypeOK, DataTypeOK, DigestTypeOK
  <2>5. QED
    BY <2>2, <2>3, <2>4 DEF IInv
<1>3. QED
  BY <1>1, <1>2, PTL DEF Spec

\* A batch is acknowledged only when its transaction has been committed,
\* whatever fails and wherever the process dies, and also when a failed COMMIT
\* leaves its transaction open.
THEOREM AckedCommitted == Spec => []AckedIsCommitted
<1>1. IInv => AckedIsCommitted
  BY DEF IInv, SessionInv
<1>2. QED
  BY <1>1, InvariantHolds, PTL

\* No reachable table shows a part of a batch only.
THEOREM BatchesWhole == Spec => []WholeBatches
<1>1. IInv => WholeBatches
  BY DEF IInv, Whole, WholeBatches
<1>2. QED
  BY <1>1, InvariantHolds, PTL

\* No step of the service changes a committed first_seen: the digest's window
\* is about the first time an article was seen, however often it is delivered.
THEOREM FirstSeenKept == Spec => FirstSeenIsKept
<1>1. TypeOK /\ IInv /\ [Next]_vars =>
        [\A a \in Articles : Stored(db, a) =>
           Stored(db', a) /\ db'[a].first_seen = db[a].first_seen]_vars
  <2> SUFFICES ASSUME TypeOK, IInv, [Next]_vars
               PROVE  \A a \in Articles : Stored(db, a) =>
                        Stored(db', a) /\ db'[a].first_seen = db[a].first_seen
    OBVIOUS
  <2>1. CallTypeOK /\ DataTypeOK
    BY DEF TypeOK, CallTypeOK, DataTypeOK
  <2>2. KeepsFirstSeen(db, db')
    BY <2>1, TableStep DEF IInv
  <2>3. QED
    BY <2>2 DEF KeepsFirstSeen
<1>2. QED
  BY <1>1, InvariantHolds, PTL DEF Spec, FirstSeenIsKept
-----------------------------------------------------------------------------
(* What is read between two batches                                        *)

\* Only a COMMIT that fails with SQLITE_BUSY leaves a transaction behind.
NoOpenTx == (faults = 0 \/ ~BusyCommit) /\ handler # "upsert" => tx = NoTx

\* A row shows a committed batch, or the one its transaction is about.
Traced(table, batches) ==
  \A a \in Articles : Stored(table, a) => table[a].trace \in batches

TraceInv ==
  /\ Traced(db, committed)
  /\ handler = "upsert" => Traced(tx, committed \union {batch})

LEMMA NoOpenTxStep ==
  ASSUME NoOpenTx, faults \in Nat, [Next]_vars
  PROVE  NoOpenTx'
<1>1. Fault => faults' # 0
  BY DEF Fault
<1>2. CASE Handle
  BY <1>1, <1>2
  DEF NoOpenTx, Handle, RejectMalformed, Begin, BeginFails, Upsert, UpsertFails,
      Commit, CommitFails, Count, Decide, AfterRollback, sqlite, consumer
<1>3. CASE Deliver \/ Connect \/ NoticeLoss \/ Crash
  BY <1>1, <1>3
  DEF NoOpenTx, Deliver, Connect, NoticeLoss, LoseSession, Crash, sqlite, call
<1>4. CASE PublishDigest \/ PassTime \/ Queue \/ UNCHANGED vars
  BY <1>1, <1>4
  DEF NoOpenTx, PublishDigest, PassTime, Queue, Broker, Publish, ReceiveVerdict,
      DropSession, DropGhost, vars, sqlite, call
<1>5. QED
  BY <1>2, <1>3, <1>4 DEF Next

LEMMA TraceStep ==
  ASSUME DataTypeOK, TransactionInv, SessionInv, TraceInv, [Next]_vars
  PROVE  TraceInv'
<1> USE DEF TraceInv
<1>1. CASE \E a \in Articles : Upsert(a)
  <2> PICK a \in Articles : Upsert(a)
    BY <1>1
  <2>1. /\ handler = "upsert" /\ a \in todo /\ batch \in Batches
        /\ tx' = [tx EXCEPT ![a] = UpsertRow(tx[a], batch, a)]
        /\ UNCHANGED <<handler, batch, now_epoch, db, committed>>
    BY DEF Upsert, SessionInv
  <2>2. tx \in Tables /\ a \in DOMAIN Content[batch]
    BY <2>1 DEF TransactionInv
  <2>3. UpsertRow(tx[a], batch, a).trace = batch
    BY <2>1, <2>2, UpsertedRow DEF DataTypeOK, Tables
  <2>4. Traced(tx', committed \union {batch})
    BY <2>1, <2>2, <2>3 DEF Traced, Stored, Tables
  <2>5. QED
    BY <2>1, <2>4 DEF Traced, Stored
<1>2. CASE Begin
  <2>1. tx' = db /\ UNCHANGED <<db, committed, batch>>
    BY <1>2 DEF Begin
  <2>2. QED
    BY <2>1 DEF Traced, Stored
<1>3. CASE Commit
  <2>1. /\ handler = "upsert" /\ handler' = "count" /\ db' = tx
        /\ committed' = committed \union {batch}
    BY <1>3 DEF Commit
  <2>2. QED
    BY <2>1 DEF Traced, Stored
<1>4. ASSUME handler' # "upsert" \/ UNCHANGED <<handler, batch, tx>>,
             UNCHANGED <<db, committed>>
      PROVE  TraceInv'
  BY <1>4 DEF Traced, Stored
<1>5. CASE RejectMalformed \/ BeginFails \/ UpsertFails \/ CommitFails \/ Count
  BY <1>4, <1>5
  DEF RejectMalformed, BeginFails, UpsertFails, CommitFails, Count, Decide, sqlite
<1>6. CASE Deliver \/ Connect \/ NoticeLoss \/ Crash
  BY <1>4, <1>6 DEF Deliver, Connect, NoticeLoss, Crash, sqlite, call
<1>7. CASE PublishDigest \/ PassTime \/ Queue \/ UNCHANGED vars
  BY <1>4, <1>7 DEF PublishDigest, PassTime, Queue, sqlite, call, vars
<1>8. QED
  BY <1>1, <1>2, <1>3, <1>5, <1>6, <1>7 DEF Next, Handle

\* The rows of a digest built from the table show committed batches.
LEMMA DigestOfTable ==
  ASSUME DataTypeOK, Traced(db, committed), NEW i \in DOMAIN TopArticles(db, clock - Period, Limit)
  PROVE  TopArticles(db, clock - Period, Limit)[i].trace \in committed
<1> DEFINE top == TopArticles(db, clock - Period, Limit)
           rows == Eligible(db, clock - Period)
<1>1. db \in Tables /\ DOMAIN db = Articles
  BY DEF DataTypeOK, Tables
<1>2. IsTable(db)
  BY <1>1, TableIsRanked
<1>3. top \in Seq(rows)
  BY <1>2, TopArticlesAreBest, StorageAssumption
<1>4. top[i] \in rows
  BY <1>3
<1> HIDE DEF top
<1>5. PICK a \in Articles : Stored(db, a) /\ top[i] = WithId(db, a)
  BY <1>1, <1>4 DEF Eligible, Stored
<1>6. top[i].trace = db[a].trace
  BY <1>5 DEF WithId
<1>7. QED
  BY <1>5, <1>6 DEF Traced, top

LEMMA DigestStep ==
  ASSUME ~BusyCommit, DataTypeOK, SessionInv, NoOpenTx, TraceInv, DigestIsCommitted,
         [Next]_vars
  PROVE  DigestIsCommitted'
<1>1. CASE PublishDigest
  <2>1. tx = NoTx
    BY <1>1 DEF PublishDigest, NoOpenTx
  <2>2. digest' = TopArticles(db, clock - Period, Limit) /\ committed' = committed
    BY <1>1, <2>1 DEF PublishDigest, View, sqlite
  <2>3. \A i \in DOMAIN digest' : digest'[i].trace \in committed'
    BY <2>2, DigestOfTable DEF TraceInv
  <2>4. QED
    BY <2>3 DEF DigestIsCommitted
<1>2. CASE ~PublishDigest
  <2>1. UNCHANGED digest /\ committed \subseteq committed'
    BY <1>2
    DEF Next, Handle, RejectMalformed, Begin, BeginFails, Upsert, UpsertFails,
        Commit, CommitFails, Count, Decide, Deliver, Connect, NoticeLoss, Crash,
        PassTime, Queue, vars, sqlite
  <2>2. QED
    BY <2>1 DEF DigestIsCommitted
<1>3. QED
  BY <1>1, <1>2

\* If no COMMIT leaves its transaction open, a digest shows committed rows only:
\* no rolled back or half written batch is ever published.
THEOREM DigestCommitted ==
  ASSUME ~BusyCommit
  PROVE  Spec => []DigestIsCommitted
<1>1. Init => NoOpenTx /\ TraceInv /\ DigestIsCommitted
  BY DEF Init, NoOpenTx, TraceInv, Traced, Stored, DigestIsCommitted
<1>2. /\ TypeOK /\ IInv
      /\ NoOpenTx /\ TraceInv /\ DigestIsCommitted
      /\ [Next]_vars
      => (NoOpenTx /\ TraceInv /\ DigestIsCommitted)'
  <2> SUFFICES ASSUME TypeOK, IInv, NoOpenTx, TraceInv, DigestIsCommitted, [Next]_vars
               PROVE  (NoOpenTx /\ TraceInv /\ DigestIsCommitted)'
    OBVIOUS
  <2>1. DataTypeOK /\ faults \in Nat
    BY DEF TypeOK, DataTypeOK, ConsumerTypeOK
  <2>2. SessionInv /\ TransactionInv
    BY DEF IInv
  <2>3. NoOpenTx'
    BY <2>1, NoOpenTxStep
  <2>4. TraceInv'
    BY <2>1, <2>2, TraceStep
  <2>5. DigestIsCommitted'
    BY <2>1, <2>2, DigestStep
  <2>6. QED
    BY <2>3, <2>4, <2>5
<1>3. QED
  BY <1>1, <1>2, InvariantHolds, PTL DEF Spec

-----------------------------------------------------------------------------
(* The order of the batches                                                *)

\* What is at work or committed was delivered: it is not newer than the newest,
\* and what is at work is that one unless it was delivered late.
OrderInv ==
  /\ \A c \in committed : c <= newest
  /\ handler # "idle" => batch <= newest /\ (batch \in late \/ batch = newest)

\* Rows show no batch that is older than the newest of some they are in, but
\* for one that was delivered late.
FreshFor(table, batches) ==
  \A b \in batches : \A a \in Articles \intersect DOMAIN Content[b] :
    /\ Stored(table, a)
    /\ b <= table[a].trace \/ table[a].trace \in late

\* The rows that are done show the batch of the transaction.
DoneRows ==
  \A a \in DOMAIN Content[batch] \ todo : Stored(tx, a) /\ tx[a].trace = batch

FreshInv ==
  /\ FreshFor(db, committed)
  /\ handler = "upsert" => FreshFor(tx, committed) /\ DoneRows

\* Only a delivery writes the history of the deliveries.
LEMMA HistoryStep ==
  ASSUME [Next]_vars, ~Deliver
  PROVE  UNCHANGED <<newest, late>>
<1>1. CASE Handle
  BY <1>1
  DEF Handle, RejectMalformed, Begin, BeginFails, Upsert, UpsertFails, Commit,
      CommitFails, Count, Decide, Answer, consumer
<1>2. CASE Connect \/ NoticeLoss \/ Crash \/ PublishDigest \/ PassTime \/ UNCHANGED vars
  BY <1>2
  DEF Connect, Subscribe, NoticeLoss, LoseSession, Disconnect, Crash, PublishDigest,
      PassTime, vars, consumer
<1>3. CASE Queue
  BY <1>3
  DEF Queue, Broker, Publish, ReceiveVerdict, DropSession, DropGhost
<1>4. QED
  BY <1>1, <1>2, <1>3 DEF Next

\* A delivery brings the newest message so far, or one that is late.
LEMMA DeliveryStep ==
  ASSUME ConsumerTypeOK, Deliver
  PROVE  /\ batch' \in Batches /\ batch' <= newest'
         /\ batch' \in late' \/ batch' = newest'
         /\ newest <= newest' /\ late \subseteq late'
<1>1. PICK b \in Batches : Dispatch(b) /\ batch' = b
  BY DEF Deliver
<1>2. newest \in Int /\ b \in Int
  BY DEF ConsumerTypeOK, Batches, Messages
<1>3. QED
  BY <1>1, <1>2 DEF Dispatch

LEMMA OrderStep ==
  ASSUME ConsumerTypeOK, DataTypeOK, SessionInv, OrderInv, [Next]_vars
  PROVE  OrderInv'
<1> USE DEF OrderInv
<1>1. CASE Deliver
  <2>1. UNCHANGED committed /\ handler' = "parse"
    BY <1>1 DEF Deliver, sqlite
  <2>2. newest \in Int /\ newest' \in Int /\ committed \subseteq Int
    BY <1>1 DEF Deliver, Dispatch, ConsumerTypeOK, DataTypeOK, Batches, Messages
  <2>3. QED
    BY <1>1, <2>1, <2>2, DeliveryStep
<1>2. CASE Commit
  <2>1. /\ handler = "upsert" /\ UNCHANGED <<batch, newest, late>>
        /\ committed' = committed \union {batch}
    BY <1>2 DEF Commit, consumer
  <2>2. QED
    BY <2>1
<1>3. ASSUME handler' = "idle" \/ (handler # "idle" /\ batch' = batch),
             UNCHANGED <<committed, newest, late>>
      PROVE  OrderInv'
  BY <1>3
<1>4. CASE Handle /\ ~Commit
  <2>1. ~Deliver
    BY <1>4
    DEF Handle, Deliver, RejectMalformed, Begin, BeginFails, Upsert, UpsertFails,
        CommitFails, Count
  <2>2. QED
    BY <1>3, <1>4, <2>1, HistoryStep
    DEF Handle, RejectMalformed, Begin, BeginFails, Upsert, UpsertFails, CommitFails,
        Count, Decide, sqlite
<1>5. CASE ~Deliver /\ ~Handle
  <2>1. UNCHANGED <<newest, late>>
    BY <1>5, HistoryStep
  <2>2. UNCHANGED committed /\ (handler' = "idle" \/ UNCHANGED <<handler, batch>>)
    BY <1>5
    DEF Next, Connect, NoticeLoss, Crash, PublishDigest, PassTime, Queue, vars, call,
        sqlite
  <2>3. QED
    BY <2>1, <2>2
<1>6. QED
  BY <1>1, <1>2, <1>4, <1>5

LEMMA FreshStep ==
  ASSUME ConsumerTypeOK, DataTypeOK, SessionInv, TransactionInv, OrderInv, FreshInv,
         [Next]_vars
  PROVE  FreshInv'
<1> USE DEF FreshInv
<1>0. committed \subseteq Nat /\ Batches \subseteq Nat
  BY DEF DataTypeOK, Batches, Messages
<1>1. CASE \E a \in Articles : Upsert(a)
  <2> PICK a \in Articles : Upsert(a)
    BY <1>1
  <2>1. /\ handler = "upsert" /\ a \in todo /\ batch \in Batches
        /\ tx' = [tx EXCEPT ![a] = UpsertRow(tx[a], batch, a)]
        /\ todo' = todo \ {a}
        /\ UNCHANGED <<handler, batch, now_epoch, db, committed, late>>
    BY DEF Upsert, SessionInv, consumer
  <2>2. tx \in Tables /\ a \in DOMAIN Content[batch]
    BY <2>1 DEF TransactionInv
  <2>3. UpsertRow(tx[a], batch, a) # NoRow /\ UpsertRow(tx[a], batch, a).trace = batch
    BY <2>1, <2>2, UpsertedRow DEF DataTypeOK, Tables
  <2>4. Stored(tx', a) /\ tx'[a].trace = batch
    BY <2>1, <2>2, <2>3 DEF Stored, Tables
  <2>5. \A c \in Articles \ {a} : tx'[c] = tx[c]
    BY <2>1, <2>2 DEF Tables
  <2>6. FreshFor(tx, committed)'
    <3>1. FreshFor(tx, committed) /\ \A b \in committed : b <= batch \/ batch \in late
      BY <1>0, <2>1 DEF OrderInv
    <3>2. QED
      BY <2>1, <2>4, <2>5, <3>1 DEF FreshFor, Stored
  <2>7. DoneRows'
    <3>1. DoneRows /\ DOMAIN Content[batch] \subseteq Articles
      BY <2>1, StorageAssumption
    <3>2. QED
      BY <2>1, <2>4, <2>5, <3>1 DEF DoneRows, Stored
  <2>8. QED
    BY <2>1, <2>6, <2>7 DEF FreshFor, Stored
<1>2. CASE Begin
  <2>1. /\ tx' = db /\ todo' = DOMAIN Content[batch] /\ handler' = "upsert"
        /\ UNCHANGED <<db, committed, batch, late>>
    BY <1>2 DEF Begin, consumer
  <2>2. QED
    BY <2>1 DEF FreshFor, DoneRows, Stored
<1>3. CASE Commit
  <2>1. /\ handler = "upsert" /\ handler' = "count" /\ db' = tx /\ todo = {}
        /\ committed' = committed \union {batch} /\ batch \in Batches
        /\ UNCHANGED late
    BY <1>3 DEF Commit, MayCommit, SessionInv, consumer
  <2>2. FreshFor(tx, committed \union {batch})
    <3>1. FreshFor(tx, committed) /\ DoneRows /\ batch <= batch
      BY <1>0, <2>1
    <3>2. QED
      BY <2>1, <3>1 DEF FreshFor, DoneRows
  <2>3. QED
    BY <2>1, <2>2 DEF FreshFor, Stored
<1>4. ASSUME late \subseteq late',
             handler' # "upsert" \/ UNCHANGED <<handler, batch, tx, todo>>,
             UNCHANGED <<db, committed>>
      PROVE  FreshInv'
  BY <1>4 DEF FreshFor, DoneRows, Stored
<1>5. late \subseteq late'
  BY HistoryStep, DeliveryStep
<1>6. CASE RejectMalformed \/ BeginFails \/ UpsertFails \/ CommitFails \/ Count
  BY <1>4, <1>5, <1>6
  DEF RejectMalformed, BeginFails, UpsertFails, CommitFails, Count, Decide, sqlite
<1>7. CASE Deliver \/ Connect \/ NoticeLoss \/ Crash
  BY <1>4, <1>5, <1>7 DEF Deliver, Connect, NoticeLoss, Crash, sqlite, call
<1>8. CASE PublishDigest \/ PassTime \/ Queue \/ UNCHANGED vars
  BY <1>4, <1>5, <1>8 DEF PublishDigest, PassTime, Queue, sqlite, call, vars
<1>9. QED
  BY <1>1, <1>2, <1>3, <1>6, <1>7, <1>8 DEF Next, Handle

\* No article goes back to older counters, whatever fails, unless their batch
\* was delivered after a newer one: that is all a redelivery can do.
THEOREM CountersFresh == Spec => []CountersAreFresh
<1>1. Init => OrderInv /\ FreshInv
  BY DEF Init, OrderInv, FreshInv, FreshFor
<1>2. /\ TypeOK /\ IInv
      /\ OrderInv /\ FreshInv
      /\ [Next]_vars
      => (OrderInv /\ FreshInv)'
  <2> SUFFICES ASSUME TypeOK, IInv, OrderInv, FreshInv, [Next]_vars
               PROVE  (OrderInv /\ FreshInv)'
    OBVIOUS
  <2>1. ConsumerTypeOK /\ DataTypeOK /\ SessionInv /\ TransactionInv
    BY DEF TypeOK, DataTypeOK, IInv
  <2>2. QED
    BY <2>1, OrderStep, FreshStep
<1>3. FreshInv => CountersAreFresh
  BY DEF FreshInv, FreshFor, CountersAreFresh
<1>4. QED
  BY <1>1, <1>2, <1>3, InvariantHolds, PTL DEF Spec

=============================================================================
