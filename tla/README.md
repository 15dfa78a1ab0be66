# habr-digest in TLA+

A verification project for the five C++ services of habr-digest: a fetcher
publishes Habr listings, a parser turns them into articles, storage keeps the
articles in SQLite and publishes a digest on a timer, and notifier and web
consume the digests. The services talk through RabbitMQ only, and each is a
single libevent loop built on the shared class `AmqpService`.

Paths below are relative to the repository's root.

## The system

| component | source | state it keeps | operations | hard part |
|---|---|---|---|---|
| AmqpService | `shared/cpp/messaging` | connection and channel, flags (`channel_ready_`, `shutting_down_`, `reconnect_scheduled_`), attempts, timer, pending one-off events | `Run`, `Connect`, the callbacks for ready, error, lost, closed, detached, signals, reconnect, timer, forced exit | callbacks in any order and any number; a broker that does not answer |
| publishing and consuming | the same | deliveries without a verdict, frames in flight | `PublishTo`, `Consume` | a channel may die with the tail of what was sent; redelivery |
| parser | `services/parser` | none of its own | `HandleRawArticles` | order of publish and ack |
| storage | `services/storage` | the `articles` table, an open transaction, the clock it read | `HandleParsedArticles`, `UpsertBatch`, `OnTick` | SQL statements failing one by one, crash between them, redelivery of what is stored |
| notifier | `services/notifier` | files on a volume | `HandleDigestReady`, `WriteFileAtomically` | failing system calls, crash between two files |
| web | `services/web` | recent digests in memory | `HandleDigestReady`, HTTP requests | order after redelivery, restart |
| fetcher | `services/fetcher` | none of its own | `OnChannelReady`, `OnTick`: fetch and publish | ticks later than their channel, publish without confirmation |
| configuration | `*/config.cpp` | - | `LoadConfigFromEnv` | narrowing of integers |
| HTML parser | `services/parser/src/html_parser.cpp` | - | `Parse`, `ParseCount`, `Trim` | numbers with separators and letters, in doubles |
| HTML view | `services/web/src/html_view.cpp` | - | `RenderPage`, `EscapeHtml` | escaping once and only once |
| message schemas | `shared/cpp/messaging/include/messaging/messages.hpp` | - | JSON conversions | what one side writes and the other refuses |
| Markdown view, logging, time | the rest | - | formatting | - |

The services interact through queues only: `raw_articles`, `parsed_articles`,
and the fanout exchange `digest_ready` with one durable queue per subscriber.
Inside a process everything runs on the loop's thread, so that a handler is
interrupted by nothing but a crash; what interleaves are callbacks, the broker
at the other end of the connection, and the frames in between. PROJECT.json
lists under "hazards" what can go wrong there, with the properties about it.

## Modules

| module | models | how its state and actions correspond to the code |
|---|---|---|
| `Lifecycle` | abstract | what `AmqpService` promises its deployment: five phases, one try per lost link, exit codes |
| `AmqpService` | `amqp_service.cpp` | `svc` holds the members and the events libevent has queued. A C++ function is an operator from `svc` to `svc`, so that nested calls (`DoReconnect`, `Connect`, `HandleConnectionFailure`, `ScheduleReconnect`, `StopTimer`) compose as in the code. An action is one callback. `link` and `handshake` say what AMQP-CPP may still call; `lost_links` is history. |
| `Fetcher` | `fetcher.cpp`, `HttpClient::Get`, `PublishTo` | extends `AmqpService`: the same callbacks, with what a tick does and what happens to the pages it published. `outbox` counts the pages on the connection that the broker has not read; `overdue` and `unfetched` are history; `aborted` says that an exception left `OnTick`. |
| `AtLeastOnce` | abstract | a hop that owes every message it accepted until it has served it; `Safety` is what it never does, `Spec` adds that it serves |
| `Relay` | `parser_service.cpp`, `Consume`, `PublishTo` | channels as sessions with a FIFO `wire` each, whose tail may be lost; the broker's `queued`, `unacked`, `parsed`; the parser's `inbox`. `HandleRawArticles` yields the frames one call sends. |
| `Consumer` | `Consume` with prefetch 1 | one queue and its consumer: session, verdict in flight, `ghosts` (deliveries on channels that died without the broker knowing). `newest` and `late` are history: what has been delivered, and what was delivered after something newer. Extended by the next three. |
| `Ranking` | `kTopSql`, `TopArticles` | score, order, window and limit as operators on a table; `Rank` is the number of rows that come before one |
| `Storage` | `storage_service.cpp`, `article_store.cpp` | composes `Consumer` and `Ranking`. `handler` is the position in `HandleParsedArticles`; each SQL statement is an action with its failure; `db` is what is committed, `tx` what the open transaction sees. |
| `Notifier` | `notifier_service.cpp`, `digest_writer.cpp` | extends `Consumer`. `disk` maps a name and a suffix to what the file holds; opening, writing and renaming are actions, each with its failure. |
| `Web` | `web_service.cpp`, `RenderPage` | extends `Consumer`. `digests` is `digests_`; `bound` says whether the exchange knows the queue, `consuming` whether the broker has a consumer for the channel. HTTP requests change nothing and are the operator `Respond`. |
| `HtmlParser` | `html_parser.cpp` | `Parse` as a function of what the XPath queries find in each `<article>`. A text is a sequence of characters, a double a fraction whose denominator is a power of two; `ParseCount` rounds after the reading and after the multiplication, as the code does. |
| `HtmlView` | `html_view.cpp` | `EscapeHtml` and the parts of an article that `RenderArticle` shows |
| `Messages` | `messages.hpp` | the members of each struct, the JSON kind of each value, what `dump()` throws on and what the strict `get<>` takes |
| `Configuration` | the five `config.cpp` | one operator per kind of setting; integer widths are constants |
| `MCAlgorithms`, `MCStorage`, `MCNotifier` | - | constant values for TLC, and in `MCAlgorithms` the state machine that feeds the pure operators |
| `AmqpService_proofs`, `Fetcher_proofs`, `Relay_proofs`, `Ranking_proofs`, `Storage_proofs`, `Notifier_proofs`, `Web_proofs`, `Algorithms_proofs` | - | theorems and their proofs; the last is about the operators that `MCAlgorithms` feeds (`Ranking`, `Configuration`, `Messages`, `HtmlView`, `HtmlParser`) |

`F_without...` and `F_with...` next to an operator `F` are deliberately broken
variants: each shows that a property can fail.

## Runs

| run | what it checks | bounds |
|---|---|---|
| `amqp_service` | one pending reconnect, never stranded, timer follows the channel, one attempt per lost link, final verdict, shutdown and outages end, implements `Lifecycle` | limit of 2 attempts (below it, at it, beyond it), counter width 4, 2 pending immediate ticks. 324 states. |
| `fetcher` | pages go to declared queues only, every channel fetches, a lost page is made good, the wrapping counter never ends the process | limit and width 3, so that the wrap happens after three failures; 2 immediate ticks, which is two short-lived channels; 2 failed downloads; 2 pages on the connection. 9413 states. |
| `relay_safety` | no page lost, one verdict per delivery, one copy per session | 2 useful pages and one malformed, 3 sessions (current, dead and unnoticed, dead and noticed), prefetch 2 |
| `relay_at_least_once` | implements `AtLeastOnce` with its liveness | pages of every kind, 2 sessions |
| `algorithms` | `DigestIsTop`, `SettingsAreSound`, `CountIsClose`, `PageIsAccounted`, `MessagesAgree`, `TextStaysText`: each function against an independent statement of its result | every table of 3 articles with counters 0 and 1 and three days; every numeral around widths of 2, 3 and 5 bits; counters up to 12.9 with both signs, both separators and every letter; pages of up to two articles; every message with one unusual member, and without one; texts of up to 3 of 11 characters. 24348 states. |
| `storage` | types with the limit of a digest, acknowledged means committed, whole batches, `first_seen` stays, counters go back only for a batch delivered late, digests show committed rows, every batch is stored | 3 batches (overlapping, one malformed), 3 failures of any kind, clock up to 3; failed COMMITs end their transaction. 160812 states. |
| `storage_busy` | finding | a COMMIT may fail with SQLITE_BUSY |
| `notifier` | files are whole, `latest.md` has an archive copy and goes back in time only for a digest delivered late, acknowledged means filed, every digest is filed | 4 digests: one malformed, one that fits the stream's buffer, two with one id; 2 failures. 13522 states. |
| `notifier_flush` | finding | the same |
| `web` | order but for digests delivered late, completeness until a failure, copies, every routed digest is shown, a lost link shows in `/healthz` | 4 digests, history of 3, 2 failures, consumers are not cancelled. 3817 states. |
| `web_latest` | finding | history of 2 |
| `web_deaf` | finding | consumers may be cancelled |

Why the bounds suffice: the counters are compared with one limit only, and
values below, at and beyond it occur. Each consumer needs two failures for its
worst cases: one leaves a ghost behind, and the other hits its redelivery. A
third message is needed to be newer than a redelivered one while another is
handled. `MaxSessions`, `MaxFaults`, `NumMessages`, `MaxTime`,
`MaxPendingTicks`, `MaxFailures` and `MaxOutbox` are the only bounds of behaviours,
and guards name them; `MaxWhole`, `MaxNodes` and `MaxText` bound the inputs of
`algorithms`, and the proofs need no value of them.

The rounding of `ParseCount` is scaled down: a double of 14 bits instead of 53
and multipliers of 20 and 60 instead of 1000 and 1000000 keep TLC within its
32-bit integers. What matters stays: tenths have no finite binary form, the
products round either way, and some of them end just below the integer.
`NumberAssumption` says how many bits a number needs for that: for the code's 53
bits and its multipliers, the numbers shown go up to about 4.2e8 before their letter.

`CHECK_DEADLOCK FALSE`: `AmqpService` and `Fetcher` stop when the process exits,
and the other runs when their bounded messages and failures are used up.

## Fairness

libevent runs what is due, handlers return, a process is restarted, and a
consumer reconnects: weak fairness of these actions. `AmqpService` assumes of
the broker only that a handshake it began succeeds or fails; the code has no
timeout for it, so this is an assumption about the environment. It is not
assumed that a broker answers a close, that a link comes up, or that a signal
comes. `Fetcher` adds that an armed timer fires, that the request it makes
returns (libcurl has a timeout, which `LoadIsUsable` proves to be one), and that
the broker reads what waits on a live connection; `LossIsRepaired` is about
runs in which a link lasts. The consumers also assume that each end notices in the end that the
other has left. AMQP-CPP's default without heartbeats leaves this to TCP.
Failures have no fairness; they are bounded, since a promise such as "put it
back for another attempt" is about what happens after the last one.

## Findings

- `storage_busy`: `COMMIT` (`article_store.cpp:214`) is outside the `try` that
  rolls back. If it fails with `SQLITE_BUSY` the transaction stays open, every
  later `BEGIN IMMEDIATE` fails, and `kRequeue` ("transient failure") never ends
  until a restart. It takes a database that is not in WAL mode, which the
  program does not check, and a second reader of the file. The safety
  properties hold all the same, which `Storage_proofs` proves for both kinds of
  failed COMMIT.
- `notifier_flush`: `WriteFileAtomically` checks its stream before the flush of
  a short text, so that a full volume yields a truncated `latest.md` and an
  acknowledged message.
- `web_latest`: after a lost channel an older digest may be delivered again and
  is then shown as the latest.
- `web_deaf`: a consumer that RabbitMQ cancels leaves its channel open. Nothing
  subscribes again and `/healthz` says ok for ever, although its comment calls
  this "the failure worth catching".

## What is proved

TLAPS checks these for every value of the constants that the named assumptions
(`ConfigAssumption`, `FetcherAssumption`, `RelayAssumption`,
`ConsumerAssumption`, `StorageAssumption`, `NoRowAssumption`,
`NotifierAssumption`, `WebAssumption`, `WeightAssumption`, `RowAssumption`,
`ConfigurationAssumption`, `CharacterAssumption`, `HtmlParserAssumption`,
`NumberAssumption`) allow. Each inductive invariant was first checked with TLC
as an invariant of the instance its run uses.

- `AmqpService_proofs`. The invariant `IInv` joins the types, the equality
  between the queued reconnect events and `reconnect_scheduled`, the equality
  between the armed timer and a usable channel, what a shutdown excludes, and
  what still moves a service that has no channel. The conjuncts need each
  other: a service is not stranded because a scheduled reconnect means a queued
  one, and that holds in `ReconnectFires` only because there was exactly one.
  `TypeCorrect`, `OneReconnect`, `NoServiceStranded`, `TimerTracksChannel` and
  `VerdictFinal` follow. `OneAttemptEach` and `Refinement`
  (`Spec => ImplementsLifecycle`) need the limit to be below the largest
  counter value; `NoLimitNeverGivesUp` says what happens at it. The proof has one
  step per callback and one lemma per nested function.
- `Fetcher_proofs`. `FetcherIsAService`: every step of the fetcher is a step of
  `AmqpService` or leaves it alone, so that the theorems above are theorems of
  the fetcher. `PagesRouted` rests on one fact about the event loop: while a link
  is up, the channel is ready only after its declaration (`ReadyIsDeclared`), and
  a new link begins with an empty outbox (`NewLinkIsEmpty`).
- `Storage_proofs`. The invariant has three parts. `SessionInv` ties the handler
  to the session: what it works on is what the broker has delivered, and an ack
  on its way is about a committed batch. `TransactionInv` describes the open
  transaction while its batch is at work: what is not to be written any more has
  been written (`Written`), with the time of the batch; rows that show a batch
  have the rest of it beside them or still to be written (`Whole`); nothing in it
  is from the future; and no `first_seen` differs from the committed one. The
  table has the first two with nothing left to be written, which is what `Commit`
  makes of the transaction's. `AckedCommitted`, `BatchesWhole` and `FirstSeenKept`
  follow, also for a COMMIT that leaves its transaction open.
  `DigestCommitted` assumes that a failed COMMIT ends its transaction: then no
  transaction is open between two calls (`NoOpenTx`), which is when the timer
  ticks. `CountersFresh` holds whatever fails: what is committed has been
  delivered, so that a batch older than a committed one is at work only if it was
  delivered late (`OrderInv`). A row therefore shows the newest committed batch
  that has its article, a newer one, or one delivered late, in the open
  transaction as in the table (`FreshInv`). That a digest keeps within its limit
  (`DigestTypeOK`) comes from `TopArticlesAreBest`.
- `Notifier_proofs`. Beside what the session and the handler hold (`SessionInv`),
  the invariant says what lies on the volume: a file under its own name
  belongs there and is whole, but for a late flush that failed (`NamesInv`);
  the temporary file of the attempt at work holds its digest, and all of it once it
  is closed (`TemporaryInv`), whatever an earlier attempt left there; and
  `latest.md` is written only when the archive copy is in its place (`InOrder`).
  `AckedFiled`, `FilesWhole` and `LatestFiled` follow for any digests, file names and
  failures. `LatestNewest` adds the order of delivery: what the broker has
  forgotten on an ack was delivered, and once the second rename is done
  `latest.md` shows the digest at work, which is the newest delivered or late. The
  types are proved (`TypeCorrect`) and no property of a run, since nothing in
  the code is likely to break them. That a file whose late flush failed counts as filed is the finding
  of `notifier_flush`, and the properties say so.
- `Web_proofs`. `PageIsNewestFirst` has two halves. Whatever fails, what is on
  the page has been delivered, so that the digest put in front of it is newer
  or was delivered late (`DeliveryInv`, `InTime`). And while nothing has failed, every
  digest behind the first of the page that is not malformed is still to come
  (`OrderInv`), so that none is missing. `CopiesBounded` counts:
  the copies on the page, one more if the digest is queued or was delivered to a
  dead channel, and one more if it is at work, are one and one per failure at
  most (`CopiesInv`). It needs that a digest put in front of the page adds one
  copy, and that cutting the page to its length adds none (`AddCopies`).
- `Relay_proofs`. `NoPageLost` rests on an invariant about the wires: an ack of
  a useful page that the broker has not read yet is preceded, on the same wire,
  by the publication of its articles, or these have been counted already.
  Every action is shown to keep it, the truncation of a wire included.
  `OneVerdict` rests on the page's custody (`CustodyInv`): a page is in the queue or
  delivered on one session, and what the parser has still to handle has no
  verdict on its way. `OneCopyEach` charges every copy to a session: the
  current one is still to be charged while it may carry the page (`MayPublish`), which
  it may no longer once the page's verdict is on its wire. `HopIsSafe` puts these
  together: seen through `Status`, every step of the hop is one of
  `AtLeastOnce` or a stutter, so that a page is owed from its arrival until it is
  served, once and for all, and is never lost. A malformed or empty page counts
  as served when the broker has forgotten it, and `CustodyInv` is why it then never
  comes back.
- `Ranking_proofs`. `BeforeIsTotalOrder`: the order of `kTopSql` is irreflexive,
  transitive and total on rows with distinct ids, for any weights.
  `TopArticlesAreBest`: what `TopArticles` returns is sorted by it, has the
  length the limit allows, and leaves out no row that comes before one it has,
  for any finite table. The argument is that the number of rows before a row
  (`Rank`) grows with the order, so that each number below the size of the
  table is the rank of exactly one row (`PlaceIsTaken`).
- `Algorithms_proofs`. `DigestTop` carries that over to the independent statement
  `DigestIsTop`. `SettingsSound` (with `LoadIsUsable`): no text makes a
  setting unusable that the code checks, and a usable numeral is kept, for any widths.
  `RABBITMQ_PORT` is the exception: it is narrowed to 16 bits without a check, and
  `PortIsZero` says for which texts it becomes zero. That takes the three
  narrowings for one (`NestedTruncation`), for which each width must divide the next. `ContractsAgree`:
  the two sides of each message agree, member by member. `TextStays`: a text of
  any length, over any characters that include those of the references, is shown
  as it was written. It follows from `EscapingIsFaithful`, which rests on
  where each character's part of the markup stands (`FlattenLayout`): a
  reference is read exactly where one was written, so that what is shown starts
  where a part starts, and the k-th of these places is that of the k-th
  character (`CountUpTo`). Induction is by the least number for which a claim
  fails (`LeastNumber`), got from the well-foundedness of finite sets in the
  library.
- `Algorithms_proofs`, counters. `CountReadsWhatIsShown` follows the text and the
  number. The text: `Written` is cleaned to its figures, with a dot for the
  comma and without blanks and letter (`CleanedNumber`), and the figures of a
  number read as that number (`DigitsAreFigures`, `StodReads`). The number:
  `DoubleIsNear` bounds the error of one rounding by half a unit,
  `RoundingsAreSmall` that of two, and `TruncationIsClose` concludes that the
  integer below the product is the one below the number shown, or one less; it
  is never less when there are no decimals or no letter (`ExactRead`,
  `WholeProduct`). The provers have no powers, so that those of two are
  characterised by counting the subsets of a set (`PowerCounts`). `CountClose` is
  this for the numbers of the run, and for any `MaxWhole`.
- `Algorithms_proofs`, pages. `PageIsRead` is about every page: what is trimmed and
  not empty begins and ends with ink (`ContentIsSolid`), and a sequence built by
  guarded pushes has each kept element at the place that counts the kept ones
  up to it (`PushedAreKept`), so that no article node is lost, repeated or moved.
  `PageAccounted` is this for the pages of the run, of any length. Both say where
  the view count comes from: the title when it has ink, the rounded text otherwise.

Four choices in the modules serve the proofs. `Ranking` takes the row of each place by its
rank and `Messages` gives a member its type by name, since sorting and the
merging of functions (`@@`) have no definition the prover can use; `AtLeastOnce` names
its safety part; `HtmlView` has the set of characters as a constant, which
may hold any others beside those of the references; and `HtmlParser` builds its
sequences from guarded pushes (`Kept`, `Pushed`) and reads digits with a
recursive function, as the code's loops do.

Only model-checked: every liveness property (`ShutdownCompletes`,
`OutageResolves`, `EveryChannelFetches`, `LossIsRepaired`,
`EveryBatchIsStored`, `EveryDigestIsFiled`, `EveryDigestIsShown`,
`DeafnessIsReported`, and the half of `ImplementsAtLeastOnce` that `HopIsSafe` leaves out),
since liveness under fairness is out of the prover's reach. Every other property
of a passing run is a theorem.

## Abstractions

- Message contents are the few distinctions a handler makes: malformed, without
  articles, useful. `Messages` says which contents are malformed.
- Time is a clock that storage reads. Delays (reconnect delay, forced exit,
  intervals) are events that fire at any moment after they were queued.
- The clock does not go back. Weights are integers. Articles of a batch are
  distinct.
- A tick of the fetcher is one step: the request blocks the only thread, so
  nothing else happens in the process meanwhile. That the connection fails
  during the request is noticed after it, when the published page is lost.
- AMQP-CPP takes no frame for a connection that has failed or is closing, and
  what was written to a connection that fails is lost, unless the broker has
  read it before.
- A crash is the death of a process. With `synchronous=NORMAL` a power failure
  may also lose commits; this is not modelled.
- A digest is published when storage hands it to its channel. That it is lost
  with the channel is modelled for the fetcher's pages, not for digests: the
  next tick makes another, and the subscribers' models begin with what was
  routed.

## Not modelled

- libxml2, the XPath queries and the markup of the two views: what they do is
  theirs or a matter of wording. `FormatNumber`, `FormatScore` and
  `RenderDigestMarkdown` belong here.
- Durations: how long a request blocks the loop, how often a requeued batch is
  tried, and that frequent reconnects starve the digest timer.
- Counters that no double holds exactly. The cast of one beyond the range of an
  `int64_t` is undefined behaviour.
- RabbitMQ's own failures other than lost connections, cancelled consumers and
  unrouted messages; its queues are durable.
- Logging, time formatting, building and deployment.

## Plan

The order in which the modules were written, and what is left.

1. `Lifecycle`, `AmqpService` and their proofs: every service rests on them.
2. `AtLeastOnce`, `Relay` and their proofs: the hop that publishes and
   acknowledges.
3. `Consumer`, `Ranking`, `Storage`, `Notifier`, `Web`: the stateful consumers,
   with the failures of their stores.
4. `Configuration`, then the other functions without state: `HtmlParser`,
   `HtmlView`, `Messages`.
5. `Fetcher`, composed with `AmqpService`, and its proofs.
6. Proofs for `Storage`, then for `Notifier`, `Web`, the rest of `Relay` and the
   safety of its refinement, `TopArticles`, the settings and the message schemas.
7. The escaping of `HtmlView`, for texts of any length, then the counters and
   pages of `HtmlParser`.
8. Left: the digest exchange with storage and both subscribers composed.
