-------------------------- MODULE Algorithms_proofs --------------------------
(***************************************************************************)
(* Proofs about the algorithms that keep no state, for every input of the  *)
(* kind TLC enumerates and any sizes of its sets: digests are the best     *)
(* rows, no text in the environment makes a checked setting unusable, what *)
(* a producer writes its consumer reads, a text stays a text in a page,    *)
(* and counters and listings are read as they are shown.                   *)
(***************************************************************************)
EXTENDS MCAlgorithms, Ranking_proofs, TLAPS

-----------------------------------------------------------------------------
(* Settings                                                                *)

\* What std::stoul can be asked to read.
Texts == Int \union {Unset, Garbage}

LEMMA TruncateType ==
  ASSUME NEW n \in Int, NEW max \in Nat
  PROVE  Truncate(n, max) \in 0..max
BY SMT DEF Truncate

LEMMA DefaultType ==
  ASSUME NEW name \in Settings
  PROVE  Default[name] \in 1..UShortMax
BY ConfigurationAssumption

LEMMA TextCases ==
  ASSUME NEW raw \in Texts
  PROVE  raw = Unset \/ raw = Garbage \/ raw \in Int
BY DEF Texts

\* The catch clause and the fallback leave a uint32_t in every case.
LEMMA ReadType ==
  ASSUME NEW raw \in Texts, NEW fallback \in 0..UIntMax
  PROVE  ReadUint32Env(raw, fallback) \in 0..UIntMax
<1>1. CASE raw = Unset \/ ~Parses(raw)
  BY <1>1 DEF ReadUint32Env
<1>2. CASE raw # Unset /\ Parses(raw)
  <2>1. raw \in Int
    BY <1>2, TextCases DEF Parses
  <2>2. Stoul(raw) \in Int
    BY <2>1, TruncateType, ConfigurationAssumption, SMT DEF Stoul
  <2>3. Truncate(Stoul(raw), UIntMax) \in 0..UIntMax
    BY <2>2, TruncateType, ConfigurationAssumption
  <2> QED BY <1>2, <2>3 DEF ReadUint32Env
<1> QED BY <1>1, <1>2

\* LoadConfigFromEnv of every service: each setting that it checks is usable,
\* whatever its environment variable holds.
THEOREM LoadIsUsable ==
  ASSUME NEW name \in CheckedSettings, NEW raw \in Texts
  PROVE  Load(name, raw) \in Usable(name)
<1> DEFINE n == ReadUint32Env(raw, Default[name])
<1>0. name \in Settings
  BY Zenon DEF CheckedSettings, Settings
<1>1. Default[name] \in 1..UShortMax /\ UShortMax < UIntMax
      /\ UShortMax \in Nat /\ UIntMax \in Nat /\ ULongMax \in Nat
  BY <1>0, DefaultType, ConfigurationAssumption
<1>2. Default[name] \in 1..UIntMax /\ Default[name] \in 0..UIntMax
  BY <1>1, SMT
<1>3. n \in 0..UIntMax
  BY <1>2, ReadType
<1>4. CASE name \in NonZeroSettings
  <2>1. NonZero(raw, Default[name]) \in 1..UIntMax
    <3>1. n # 0 => n \in 1..UIntMax
      BY <1>1, <1>3, SMT
    <3> QED BY <1>2, <3>1 DEF NonZero
  <2>2. Load(name, raw) = NonZero(raw, Default[name])
    BY <1>4, Zenon DEF Load, NonZeroSettings, PlainSettings
  <2> QED BY <1>4, <2>1, <2>2 DEF Usable, NonZeroSettings, PlainSettings
<1>5. CASE name = "HTTP_PORT"
  <2>1. HttpPort(raw, Default[name]) \in 1..UShortMax
    BY <1>1, <1>3, SMT DEF HttpPort
  <2> QED BY <1>5, <2>1 DEF Load, Usable, NonZeroSettings, PlainSettings
<1>6. CASE name = "PARSER_PREFETCH"
  <2>1. Default[name] \in 1..PrefetchMax
    BY <1>1, <1>6, ConfigurationAssumption, SMT
  <2>2. Prefetch(raw, Default[name]) \in 1..PrefetchMax
    BY <2>1 DEF Prefetch
  <2> QED BY <1>6, <2>2 DEF Load, Usable, NonZeroSettings, PlainSettings
<1> QED BY <1>4, <1>5, <1>6 DEF CheckedSettings

\* A number that is small enough keeps its value.
LEMMA TruncateKeeps ==
  ASSUME NEW max \in Nat, NEW n \in 0..max
  PROVE  Truncate(n, max) = n
BY SMT DEF Truncate

\* What a setting is for a text that is a usable numeral, and for one that is
\* no numeral.
LEMMA LoadKeeps ==
  ASSUME NEW name \in Settings, NEW raw \in Texts
  PROVE  /\ raw \in {Unset, Garbage} => Load(name, raw) = Default[name]
         /\ raw \in Usable(name) => Load(name, raw) = raw
<1> DEFINE d == Default[name]
           n == ReadUint32Env(raw, d)
<1>1. /\ d \in 1..UShortMax /\ UShortMax < UIntMax /\ UIntMax < ULongMax
      /\ UShortMax \in Nat /\ UIntMax \in Nat /\ ULongMax \in Nat
      /\ PrefetchMax \in 1..UShortMax /\ Unset \notin Int /\ Garbage \notin Int
  BY DefaultType, ConfigurationAssumption
<1>2. ASSUME raw \in {Unset, Garbage}
      PROVE  n = d
  BY <1>2 DEF ReadUint32Env, Parses
<1>3. ASSUME raw \in 0..UIntMax
      PROVE  raw \in Int /\ Parses(raw) /\ raw # Unset /\ Stoul(raw) = raw /\ n = raw
  <2>1. raw \in Int /\ Parses(raw) /\ raw # Unset /\ raw \in 0..ULongMax
    BY <1>1, <1>3 DEF Parses
  <2>2. Stoul(raw) = raw
    BY <1>1, <2>1, TruncateKeeps DEF Stoul
  <2>3. Truncate(Stoul(raw), UIntMax) = raw
    BY <1>1, <1>3, <2>2, TruncateKeeps
  <2>4. QED
    BY <2>1, <2>2, <2>3 DEF ReadUint32Env
<1>4. d \in 0..UShortMax /\ Truncate(d, UShortMax) = d
  BY <1>1, TruncateKeeps
<1> HIDE DEF d, n
<1>5. CASE name \in NonZeroSettings
  <2>1. Load(name, raw) = IF n = 0 THEN d ELSE n
    <3>1. Load(name, raw) = NonZero(raw, d)
      BY <1>5, Zenon DEF Load, NonZeroSettings, PlainSettings, d
    <3>2. QED
      BY <3>1 DEF NonZero, n
  <2>2. Usable(name) = 1..UIntMax
    BY <1>5 DEF Usable, NonZeroSettings, PlainSettings
  <2>3. QED
    BY <1>1, <1>2, <1>3, <2>1, <2>2 DEF d
<1>6. CASE name \in PlainSettings
  <2>1. Load(name, raw) = n /\ Usable(name) = 0..UIntMax
    BY <1>6 DEF Load, Usable, NonZeroSettings, PlainSettings, d, n
  <2>2. QED
    BY <1>2, <1>3, <2>1 DEF d
<1>7. CASE name = "RABBITMQ_PORT"
  <2>1. Load(name, raw) = Truncate(n, UShortMax) /\ Usable(name) = 1..UShortMax
    BY <1>7 DEF Load, Usable, NonZeroSettings, PlainSettings, d, n
  <2>2. raw \in 1..UShortMax => raw \in 0..UIntMax /\ Truncate(raw, UShortMax) = raw
    BY <1>1, TruncateKeeps
  <2>3. QED
    BY <1>2, <1>3, <1>4, <2>1, <2>2 DEF d
<1>8. CASE name = "HTTP_PORT"
  <2>1. /\ Load(name, raw) = IF n = 0 \/ n > UShortMax THEN d ELSE n
        /\ Usable(name) = 1..UShortMax
    BY <1>8 DEF Load, Usable, HttpPort, NonZeroSettings, PlainSettings, d, n
  <2>2. raw \in 1..UShortMax => raw \in 0..UIntMax /\ raw # 0 /\ ~(raw > UShortMax)
    BY <1>1
  <2>3. QED
    BY <1>2, <1>3, <2>1, <2>2 DEF d
<1>9. CASE name = "PARSER_PREFETCH"
  <2>1. Load(name, raw) = Prefetch(raw, d) /\ Usable(name) = 1..PrefetchMax
    BY <1>9 DEF Load, Usable, NonZeroSettings, PlainSettings, d
  <2>2. raw \in {Unset, Garbage} => Prefetch(raw, d) = d
    BY DEF Prefetch, Parses
  <2>3. raw \in 1..PrefetchMax => raw \in 0..UIntMax
    BY <1>1
  <2>4. raw \in 1..PrefetchMax => Prefetch(raw, d) = raw
    BY <1>3, <2>3 DEF Prefetch
  <2>5. QED
    BY <2>1, <2>2, <2>4 DEF d
<1>10. QED
  BY <1>5, <1>6, <1>7, <1>8, <1>9 DEF Settings

\* A width that a second divides is a multiple of all that divide the second.
LEMMA NestedMultiple ==
  ASSUME NEW long \in Nat, NEW wide \in Nat, NEW narrow \in Nat,
         (long + 1) % (wide + 1) = 0, (wide + 1) % (narrow + 1) = 0
  PROVE  (long + 1) % (narrow + 1) = 0
<1> DEFINE L == long + 1
           W == wide + 1
           N == narrow + 1
           j == L \div W
           k == W \div N
<1>1. L \in Nat /\ W \in Nat /\ N \in Nat /\ W > 0 /\ N > 0
  OBVIOUS
<1>2. j \in Int /\ k \in Int /\ L = W * j /\ W = N * k
  BY <1>1
<1> HIDE DEF L, W, N, j, k
<1>3. L = N * (k * j)
  <2>1. (N * k) * j = N * (k * j)
    BY <1>1, <1>2
  <2>2. QED
    BY <1>2, <2>1
<1>4. L % N = 0
  <2> DEFINE m == k * j
  <2>1. m \in Int /\ L = N * m
    BY <1>2, <1>3
  <2> HIDE DEF m
  <2>2. QED
    BY <1>1, <2>1
<1>5. QED
  BY <1>4 DEF L, N

\* What is left of a number that is narrowed twice is what is left of it at once.
LEMMA NestedTruncation ==
  ASSUME NEW n \in Int, NEW wide \in Nat, NEW narrow \in Nat,
         (wide + 1) % (narrow + 1) = 0
  PROVE  Truncate(Truncate(n, wide), narrow) = Truncate(n, narrow)
<1> DEFINE W == wide + 1
           N == narrow + 1
           r == n % W
           q == n \div W
           k == W \div N
<1>1. W \in Nat /\ W > 0 /\ N \in Nat /\ N > 0
  OBVIOUS
<1>2. r \in Int /\ q \in Int /\ n = W * q + r
  BY <1>1
<1>3. k \in Int /\ W = N * k
  BY <1>1
<1> DEFINE rest == r % N
           whole == r \div N
<1> HIDE DEF W, N, r, q, k
<1>4. rest \in 0..(N - 1) /\ whole \in Int /\ r = N * whole + rest
  BY <1>1, <1>2
<1> HIDE DEF rest, whole
<1>5. n = N * (k * q + whole) + rest
  <2>1. n = (N * k) * q + (N * whole + rest)
    BY <1>2, <1>3, <1>4
  <2>2. (N * k) * q = N * (k * q)
    BY <1>1, <1>2, <1>3
  <2>3. QED
    BY <1>1, <1>2, <1>3, <1>4, <2>1, <2>2
<1>6. n % N = rest
  <2> DEFINE m == k * q + whole
  <2>1. m \in Int /\ n = N * m + rest
    BY <1>2, <1>3, <1>4, <1>5
  <2> HIDE DEF m
  <2>2. QED
    BY <1>1, <1>4, <2>1
<1>7. QED
  BY <1>6 DEF Truncate, rest, r, W, N

\* RABBITMQ_PORT is narrowed without a check: the texts that make it zero.
LEMMA PortIsZero ==
  ASSUME NEW raw \in Texts
  PROVE  Load("RABBITMQ_PORT", raw) = 0
           <=> raw \in (-ULongMax)..ULongMax /\ raw % (UShortMax + 1) = 0
<1> DEFINE d == Default["RABBITMQ_PORT"]
<1>1. /\ UShortMax \in Nat /\ UIntMax \in Nat /\ ULongMax \in Nat
      /\ Unset \notin Int /\ Garbage \notin Int
      /\ (UIntMax + 1) % (UShortMax + 1) = 0 /\ (ULongMax + 1) % (UIntMax + 1) = 0
  BY ConfigurationAssumption
<1>2. d \in 1..UShortMax /\ Truncate(d, UShortMax) = d
  <2>1. "RABBITMQ_PORT" \in Settings
    BY Zenon DEF Settings
  <2>2. d \in 1..UShortMax
    BY <2>1, DefaultType, Zenon
  <2>3. QED
    BY <1>1, <2>2, TruncateKeeps
<1> HIDE DEF d
<1>3. Load("RABBITMQ_PORT", raw) = Truncate(ReadUint32Env(raw, d), UShortMax)
  BY DEF Load, NonZeroSettings, PlainSettings, d
<1>4. CASE raw \in Int
  <2>1. raw # Unset /\ (Parses(raw) <=> raw \in (-ULongMax)..ULongMax)
    BY <1>1, <1>4 DEF Parses
  <2>2. CASE ~Parses(raw)
    <3>1. Load("RABBITMQ_PORT", raw) = d
      BY <1>2, <1>3, <2>2, Zenon DEF ReadUint32Env
    <3>2. d # 0
      BY <1>1, <1>2
    <3>3. QED
      BY <2>1, <2>2, <3>1, <3>2, Zenon
  <2>3. CASE Parses(raw)
    <3>1. Load("RABBITMQ_PORT", raw)
            = Truncate(Truncate(Truncate(raw, ULongMax), UIntMax), UShortMax)
      BY <1>3, <2>1, <2>3, Zenon DEF ReadUint32Env, Stoul
    <3>2. Truncate(raw, ULongMax) \in Int
      BY <1>1, <1>4, TruncateType, SMT
    <3>3. Truncate(Truncate(Truncate(raw, ULongMax), UIntMax), UShortMax)
            = Truncate(Truncate(raw, ULongMax), UShortMax)
      BY <1>1, <3>2, NestedTruncation, Zenon
    <3>4. (ULongMax + 1) % (UShortMax + 1) = 0
      BY <1>1, NestedMultiple, Zenon
    <3>5. Truncate(Truncate(raw, ULongMax), UShortMax) = Truncate(raw, UShortMax)
      BY <1>1, <1>4, <3>4, NestedTruncation, Zenon
    <3>6. QED
      BY <2>1, <2>3, <3>1, <3>3, <3>5, Zenon DEF Truncate
  <2>4. QED
    BY <2>2, <2>3
<1>5. CASE raw \in {Unset, Garbage}
  <2>1. Load("RABBITMQ_PORT", raw) = d
    BY <1>2, <1>3, <1>5 DEF ReadUint32Env, Parses
  <2>2. d # 0 /\ raw \notin (-ULongMax)..ULongMax
    BY <1>1, <1>2, <1>5
  <2>3. QED
    BY <2>1, <2>2, Zenon
<1>6. QED
  BY <1>4, <1>5 DEF Texts

-----------------------------------------------------------------------------
(* Jobs                                                                    *)

MessageJobs == UNION {Exchanges(schema) : schema \in Schemas}

Inputs == Rankings \union Loads \union Numbers \union Pages \union MessageJobs
            \union TextJobs

\* Each input is computed once, and stays.
JobInv == job \in Inputs /\ (done => result = Result)

LEMMA JobAlways == Spec => []JobInv
<1>1. Init => JobInv
  BY DEF Init, JobInv, Inputs, MessageJobs
<1>2. JobInv /\ [Compute]_vars => JobInv'
  <2>1. ASSUME JobInv, Compute PROVE JobInv'
    BY <2>1 DEF Compute, JobInv, Result
  <2>2. ASSUME JobInv, UNCHANGED vars PROVE JobInv'
    BY <2>2 DEF vars, JobInv, Result
  <2>3. QED
    BY <2>1, <2>2
<1>3. QED
  BY <1>1, <1>2, PTL DEF Spec

\* The kind of an input tells where it comes from.
LEMMA Kinds ==
  ASSUME JobInv
  PROVE  /\ job.kind = "ranking" => job \in Rankings
         /\ job.kind = "load" => job \in Loads
         /\ job.kind = "count" => job \in Numbers
         /\ job.kind = "page" => job \in Pages
         /\ job.kind = "message" => job \in MessageJobs
         /\ job.kind = "text" => job \in TextJobs
<1>1. \A j \in Rankings : j.kind = "ranking"
  BY DEF Rankings
<1>2. \A j \in Loads : j.kind = "load"
  BY DEF Loads
<1>3. \A j \in Numbers : j.kind = "count"
  BY DEF Numbers
<1>4. \A j \in Pages : j.kind = "page"
  BY DEF Pages
<1>5. \A j \in MessageJobs : j.kind = "message"
  BY DEF MessageJobs, Exchanges
<1>6. \A j \in TextJobs : j.kind = "text"
  BY DEF TextJobs
<1>7. QED
  BY <1>1, <1>2, <1>3, <1>4, <1>5, <1>6 DEF JobInv, Inputs

\* Whatever text an environment variable holds, each setting that is checked is
\* usable, and every setting keeps a usable numeral and falls back to its default
\* without one; RABBITMQ_PORT, which nothing checks, is zero for the multiples of
\* its width and for no other text (amqp_service.cpp:48).
THEOREM SettingsSound == Spec => []SettingsAreSound
<1>1. JobInv => SettingsAreSound
  <2> SUFFICES ASSUME JobInv, Done("load") PROVE SettingsAreSound
    BY DEF SettingsAreSound
  <2>1. job \in Loads
    BY Kinds DEF Done
  <2>2. job.raw \in Texts
    BY <2>1, ConfigurationAssumption DEF Loads, Texts
  <2>3. result = Result /\ job.kind = "load"
    BY DEF JobInv, Done
  <2>4. \A name \in Settings : result[name] = Load(name, job.raw)
    BY <2>3 DEF Result
  <2>5. CheckedSettings \subseteq Settings /\ "RABBITMQ_PORT" \in Settings
    BY Zenon DEF CheckedSettings, Settings
  <2>6. \A name \in CheckedSettings : result[name] \in Usable(name)
    BY <2>2, <2>4, <2>5, LoadIsUsable, Zenon
  <2>7. \A name \in Settings :
          /\ job.raw \in {Unset, Garbage} => result[name] = Default[name]
          /\ job.raw \in Usable(name) => result[name] = job.raw
    BY <2>2, <2>4, LoadKeeps, Zenon
  <2>8. result["RABBITMQ_PORT"] = 0
          <=> job.raw \in (-ULongMax)..ULongMax /\ job.raw % (UShortMax + 1) = 0
    BY <2>2, <2>4, <2>5, PortIsZero, Zenon
  <2>9. QED
    BY <2>6, <2>7, <2>8, Zenon DEF SettingsAreSound
<1>2. QED
  BY <1>1, JobAlways, PTL

-----------------------------------------------------------------------------
(* Messages                                                                *)

Types == {"text", "texts", "articles", "int64", "uint32", "double"}

LEMMA SchemaTypes ==
  ASSUME NEW schema \in Schemas, NEW m \in DOMAIN schema
  PROVE  schema[m] \in Types
<1>1. \A members : \A x \in members : Typed(members)[x] \in Types
  BY DEF Typed, Types
<1>2. \A members : DOMAIN Typed(members) = members
  BY DEF Typed
<1>3. QED
  BY <1>1, <1>2 DEF Schemas, RawArticlesMessage, ParsedArticle,
       ParsedArticlesMessage, DigestArticle, DigestReadyMessage

\* A member is of a kind its reader takes unless it is a double that is not
\* finite: what is not UTF-8 is not written at all.
LEMMA MemberAgrees ==
  ASSUME NEW type \in Types, NEW value \in Held(type), value # "other bytes"
  PROVE  Json(value) = Taken(type) <=> value \notin {"infinite", "NaN"}
<1>1. CASE type = "text"
  BY <1>1 DEF Held, Json, Taken
<1>2. CASE type = "double"
  BY <1>2 DEF Held, Json, Taken
<1>3. CASE type \in {"int64", "uint32"}
  BY <1>3 DEF Held, Json, Taken
<1>4. CASE type \in {"texts", "articles"}
  BY <1>4 DEF Held, Json, Taken
<1>5. QED
  BY <1>1, <1>2, <1>3, <1>4 DEF Types

\* The structs of a schema have its members, each with what it may hold.
LEMMA StructMembers ==
  ASSUME NEW schema \in Schemas, NEW struct \in Structs(schema)
  PROVE  /\ DOMAIN struct = DOMAIN schema
         /\ \A m \in DOMAIN schema : struct[m] \in Held(schema[m])
<1>1. PICK member \in DOMAIN schema :
        struct \in {[Ordinary(schema) EXCEPT ![member] = held] : held \in Held(schema[member])}
  BY DEF Structs
<1>2. PICK held \in Held(schema[member]) :
        struct = [Ordinary(schema) EXCEPT ![member] = held]
  BY <1>1
<1>3. DOMAIN Ordinary(schema) = DOMAIN schema
  BY DEF Ordinary
<1>4. \A m \in DOMAIN schema : Ordinary(schema)[m] \in Held(schema[m])
  BY DEF Ordinary, Held
<1>5. QED
  BY <1>2, <1>3, <1>4

\* Of every struct of every message: what dump() writes get() reads, unless a
\* member is missing or a score is not finite.
LEMMA ReadsWhatIsWritten ==
  ASSUME NEW schema \in Schemas, NEW struct \in Structs(schema), Dumps(struct),
         NEW missing \in SUBSET DOMAIN schema
  PROVE  LET dumped == Dump(struct)
             json   == [m \in DOMAIN dumped \ missing |-> dumped[m]]
         IN  Reads(schema, json)
               <=> missing = {} /\ \A m \in DOMAIN struct :
                                     struct[m] \notin {"infinite", "NaN"}
<1> DEFINE json == [m \in DOMAIN Dump(struct) \ missing |-> Dump(struct)[m]]
<1>1. DOMAIN struct = DOMAIN schema /\ DOMAIN Dump(struct) = DOMAIN schema
  BY StructMembers DEF Dump
<1>2. /\ DOMAIN json = DOMAIN schema \ missing
      /\ \A m \in DOMAIN json : json[m] = Json(struct[m])
  BY <1>1 DEF Dump
<1>3. \A m \in DOMAIN schema :
        Json(struct[m]) = Taken(schema[m]) <=> struct[m] \notin {"infinite", "NaN"}
  BY <1>1, StructMembers, SchemaTypes, MemberAgrees DEF Dumps
<1> HIDE DEF json
<1>4. Reads(schema, json) <=> missing = {} /\ \A m \in DOMAIN schema :
                                 struct[m] \notin {"infinite", "NaN"}
  BY <1>2, <1>3 DEF Reads
<1>5. QED
  BY <1>1, <1>4 DEF json

\* The wire contracts of the three hops agree, for every struct that TLC
\* enumerates and every member that may be missing.
THEOREM ContractsAgree == Spec => []MessagesAgree
<1>1. JobInv => MessagesAgree
  <2> SUFFICES ASSUME JobInv, Done("message"), Dumps(job.struct)
               PROVE  MessagesAgree
    BY DEF MessagesAgree
  <2>1. PICK schema \in Schemas : job \in Exchanges(schema)
    BY Kinds DEF Done, MessageJobs
  <2>2. /\ job.schema = schema /\ job.struct \in Structs(schema)
        /\ job.missing \subseteq DOMAIN schema
    BY <2>1 DEF Exchanges
  <2>3. result = Dump(job.struct)
    <3>1. result = Result /\ job.kind = "message"
      BY DEF JobInv, Done
    <3>2. QED
      BY <3>1 DEF Result
  <2>4. QED
    BY <2>2, <2>3, ReadsWhatIsWritten DEF MessagesAgree
<1>2. QED
  BY <1>1, JobAlways, PTL

-----------------------------------------------------------------------------
(* The ranking                                                             *)

LEMMA RowType ==
  ASSUME NEW row \in Row
  PROVE  /\ row.votes \in Int /\ row.bookmarks \in Int /\ row.comments \in Int
         /\ row.views \in Int /\ row.trace \in Int
<1>1. row.votes \in Counts /\ row.views \in Counts
  BY DEF Row
<1>2. row.bookmarks = 0 /\ row.comments = 1 /\ row.trace = 0
  BY DEF Row
<1>3. Counts \subseteq Int
  BY RowAssumption
<1>4. row.votes \in Int /\ row.views \in Int
  BY <1>1, <1>3, Zenon
<1>5. row.bookmarks \in Int /\ row.comments \in Int /\ row.trace \in Int
  BY <1>2
<1>6. QED
  BY <1>4, <1>5

\* The order of kTopSql is the order of the triples.
LEMMA BeforeIsOutranks ==
  ASSUME job \in Rankings, NEW a \in Articles, NEW b \in Articles,
         job.table[a] # NoRow, job.table[b] # NoRow,
         Before(WithId(job.table, a), WithId(job.table, b))
  PROVE  Outranks(a, b)
<1>1. job.table[a] \in Row /\ job.table[b] \in Row /\ a \in Int /\ b \in Int
  BY RowAssumption DEF Rankings
<1>2. /\ Score(WithId(job.table, a)) = Score(job.table[a])
      /\ Score(WithId(job.table, b)) = Score(job.table[b])
  BY DEF Score, WithId
<1>3. /\ WithId(job.table, a).votes = job.table[a].votes
      /\ WithId(job.table, b).votes = job.table[b].votes
      /\ WithId(job.table, a).article_id = a /\ WithId(job.table, b).article_id = b
  BY DEF WithId
<1>4. /\ Merit(a)[1] = Score(job.table[a]) /\ Merit(b)[1] = Score(job.table[b])
      /\ Merit(a)[2] = job.table[a].votes /\ Merit(b)[2] = job.table[b].votes
      /\ Merit(a)[3] = -a /\ Merit(b)[3] = -b
  BY DEF Merit
<1>5. CASE Merit(a)[1] > Merit(b)[1]
  <2>1. 1 \in 1..3 /\ 1..(1 - 1) = {}
    OBVIOUS
  <2>2. QED
    BY <1>5, <2>1 DEF Outranks
<1>6. CASE Merit(a)[1] = Merit(b)[1] /\ Merit(a)[2] > Merit(b)[2]
  <2>1. 2 \in 1..3 /\ 1..(2 - 1) = {1}
    OBVIOUS
  <2>2. QED
    BY <1>6, <2>1 DEF Outranks
<1>7. CASE Merit(a)[1] = Merit(b)[1] /\ Merit(a)[2] = Merit(b)[2] /\ a < b
  <2>1. 3 \in 1..3 /\ 1..(3 - 1) = {1, 2}
    OBVIOUS
  <2>2. Merit(a)[3] > Merit(b)[3]
    BY <1>1, <1>4, <1>7
  <2>3. QED
    BY <1>7, <2>1, <2>2 DEF Outranks
<1>8. QED
  BY <1>2, <1>3, <1>4, <1>5, <1>6, <1>7 DEF Before

\* A digest is the best articles of the period, for any table, weights and
\* limit: the better of two comes first, and none that is left out is better.
THEOREM DigestTop == Spec => []DigestIsTop
<1>1. JobInv => DigestIsTop
  <2> SUFFICES ASSUME JobInv, Done("ranking") PROVE DigestIsTop
    BY DEF DigestIsTop
  <2> DEFINE table  == job.table
             seen   == {a \in Articles : table[a] # NoRow /\ table[a].first_seen >= Cutoff}
             chosen == {result[i].article_id : i \in DOMAIN result}
             rows   == Eligible(table, Cutoff)
  <2>1. job \in Rankings
    BY Kinds DEF Done
  <2>2. table \in [Articles -> Row \union {NoRow}] /\ job.limit \in Nat
    BY <2>1, RowAssumption DEF Rankings
  <2>3. result = TopArticles(table, Cutoff, job.limit)
    <3>1. result = Result /\ job.kind = "ranking"
      BY DEF JobInv, Done
    <3>2. QED
      BY <3>1 DEF Result
  <2>4. IsTable(table)
    <3>1. \A a \in Articles : table[a] # NoRow => table[a] \in Row /\ a \in Int
      BY <2>2, RowAssumption
    <3>2. ASSUME NEW a \in Articles, table[a] # NoRow
          PROVE  WithId(table, a) \in RankedRows
      <4>1. table[a] \in Row /\ a \in Int
        BY <3>1, <3>2
      <4>2. /\ table[a].votes \in Int /\ table[a].bookmarks \in Int
            /\ table[a].comments \in Int /\ table[a].views \in Int
            /\ table[a].trace \in Int
        BY <4>1, RowType
      <4>3. QED
        BY <4>1, <4>2 DEF WithId, RankedRows
    <3>3. DOMAIN table = Articles
      BY <2>2
    <3>4. QED
      BY <3>2, <3>3, RowAssumption DEF IsTable
  <2>5. rows = {WithId(table, a) : a \in seen}
    BY <2>2 DEF Eligible, InWindow
  <2>6. \A a \in seen : WithId(table, a).article_id = a /\ WithId(table, a) \in rows
    BY <2>5 DEF WithId
  <2>7. \A r \in rows : r.article_id \in seen /\ r = WithId(table, r.article_id)
    BY <2>5, <2>6
  <2>8. Cardinality(rows) = Cardinality(seen)
    <3>1. DOMAIN table = Articles
      BY <2>2
    <3>2. seen = {a \in DOMAIN table : table[a] # NoRow /\ InWindow(table[a], Cutoff)}
      BY <3>1 DEF InWindow
    <3>3. QED
      BY <2>4, <3>2, EligibleCount
  <2>9. /\ result \in Seq(rows)
        /\ Len(result) = IF job.limit < Cardinality(rows) THEN job.limit
                                                          ELSE Cardinality(rows)
        /\ \A i, j \in DOMAIN result : i < j => Before(result[i], result[j])
        /\ \A r \in rows : \/ \E i \in DOMAIN result : r = result[i]
                           \/ \A i \in DOMAIN result : Before(result[i], r)
    BY <2>2, <2>3, <2>4, TopArticlesAreBest
  <2>10. \A i \in DOMAIN result : result[i] \in rows
    BY <2>9
  <2>11. \A r, q \in rows : Before(r, q) => Outranks(r.article_id, q.article_id)
    BY <2>1, <2>7, BeforeIsOutranks
  <2> HIDE DEF rows, seen, table
  <2>12. chosen \subseteq seen
    BY <2>7, <2>10
  <2>13. Len(result) = IF Cardinality(seen) < job.limit THEN Cardinality(seen)
                                                         ELSE job.limit
    <3>1. IsFiniteSet(seen) /\ Cardinality(seen) \in Nat
      BY FS_Subset, FS_CardinalityType, RowAssumption DEF seen
    <3>2. QED
      BY <2>2, <2>8, <2>9, <3>1
  <2>14. \A i, j \in DOMAIN result :
           i < j => Outranks(result[i].article_id, result[j].article_id)
    BY <2>9, <2>10, <2>11
  <2>15. \A a \in chosen, b \in seen \ chosen : Outranks(a, b)
    <3> SUFFICES ASSUME NEW i \in DOMAIN result, NEW b \in seen \ chosen
                 PROVE  Outranks(result[i].article_id, b)
      OBVIOUS
    <3>1. WithId(table, b) \in rows /\ WithId(table, b).article_id = b
      BY <2>6
    <3>2. ~ \E j \in DOMAIN result : WithId(table, b) = result[j]
      BY <3>1
    <3>3. Before(result[i], WithId(table, b))
      BY <2>9, <3>1, <3>2
    <3>4. QED
      BY <2>10, <2>11, <3>1, <3>3
  <2>16. QED
    BY <2>12, <2>13, <2>14, <2>15 DEF DigestIsTop, seen, table
<1>2. QED
  BY <1>1, JobAlways, PTL

-----------------------------------------------------------------------------
(* Texts in the markup                                                     *)

\* What the induction theorems of the library say of an operator, said of a set.
LEMMA LeastNumber ==
  ASSUME NEW S \in SUBSET Nat, S # {}
  PROVE  \E x \in S : \A y \in S : x <= y
<1> DEFINE below == {0..x : x \in S}
           smaller == StrictSubsetOrdering(Nat)
<1>1. below \subseteq FiniteSubsetsOf(Nat) /\ below # {}
  <2>1. \A x \in S : 0..x \in SUBSET Nat /\ IsFiniteSet(0..x)
    BY FS_Interval
  <2>2. QED
    BY <2>1 DEF FiniteSubsetsOf
<1>2. IsWellFoundedOn(smaller, FiniteSubsetsOf(Nat))
  BY FS_StrictSubsetOrderingWellFounded
<1> HIDE DEF below, smaller
<1>3. PICK least \in below : \A other \in below : <<other, least>> \notin smaller
  BY <1>1, <1>2, WFMin
<1>4. PICK x \in S : least = 0..x
  BY DEF below
<1>5. ASSUME NEW y \in S PROVE x <= y
  <2>1. ~(0..y \subseteq 0..x /\ 0..y # 0..x)
    <3>1. 0..y \in SUBSET Nat /\ 0..x \in SUBSET Nat
      OBVIOUS
    <3>2. 0..y \in below
      BY DEF below
    <3>3. <<0..y, 0..x>> \notin smaller
      BY <1>3, <1>4, <3>2
    <3>4. QED
      BY <3>1, <3>3, Zenon DEF smaller, StrictSubsetOrdering
  <2>2. CASE y < x
    <3>1. 0..y \subseteq 0..x /\ x \in 0..x /\ x \notin 0..y
      BY <2>2
    <3>2. QED
      BY <2>1, <3>1
  <2>3. QED
    BY <2>2
<1>6. QED
  BY <1>5

\* What holds for 1 and goes from each number to the next holds up to n.
LEMMA UpTo ==
  ASSUME NEW n \in Nat, NEW S, n >= 1 => 1 \in S,
         \A k \in 1..(n - 1) : k \in S => k + 1 \in S
  PROVE  1..n \subseteq S
<1> SUFFICES ASSUME (1..n) \ S # {} PROVE FALSE
  OBVIOUS
<1>1. PICK k \in (1..n) \ S : \A l \in (1..n) \ S : k <= l
  <2> DEFINE B == (1..n) \ S
  <2>1. B \in SUBSET Nat /\ B # {}
    OBVIOUS
  <2> HIDE DEF B
  <2>2. \E k \in B : \A l \in B : k <= l
    BY <2>1, LeastNumber
  <2>3. QED
    BY <2>2 DEF B
<1>2. k # 1
  BY <1>1
<1>3. k - 1 \in 1..(n - 1) /\ k - 1 \in 1..n /\ ~(k <= k - 1)
  BY <1>1, <1>2
<1>4. k - 1 \in S
  BY <1>1, <1>3
<1>5. QED
  BY <1>1, <1>3, <1>4

\* flat[i] is the first i parts, one after the other.
Joined(flat, parts, n) ==
  \A i \in 1..n : flat[i] = IF i = 1 THEN parts[i] ELSE flat[i - 1] \o parts[i]

\* FlattenSeq does what its recursive function says.
LEMMA FlattenJoins ==
  ASSUME NEW Char, NEW parts \in Seq(Seq(Char)), Len(parts) # 0
  PROVE  \E flat \in [1..Len(parts) -> Seq(Char)] :
           Joined(flat, parts, Len(parts)) /\ FlattenSeq(parts) = flat[Len(parts)]
<1> DEFINE n == Len(parts)
           Joins(k) == {f \in [1..k -> Seq(Char)] : Joined(f, parts, k)}
           S == {k \in 1..n : Joins(k) # {}}
<1>n. n \in Nat /\ n >= 1 /\ \A i \in 1..n : parts[i] \in Seq(Char)
  OBVIOUS
<1> HIDE DEF n
<1>1. 1 \in S
  <2>1. [i \in 1..1 |-> parts[1]] \in Joins(1)
    BY <1>n DEF Joined
  <2>2. QED
    BY <1>n, <2>1
<1>2. ASSUME NEW k \in 1..(n - 1), k \in S PROVE k + 1 \in S
  <2>1. PICK f \in [1..k -> Seq(Char)] : Joined(f, parts, k)
    BY <1>2
  <2> DEFINE g == [i \in 1..(k + 1) |-> IF i = k + 1 THEN f[k] \o parts[k + 1]
                                                     ELSE f[i]]
  <2>2. f[k] \o parts[k + 1] \in Seq(Char)
    BY <1>n, <2>1
  <2>3. g \in [1..(k + 1) -> Seq(Char)]
    BY <1>n, <2>2
  <2>4. Joined(g, parts, k + 1)
    <3>1. ASSUME NEW i \in 1..(k + 1)
          PROVE  g[i] = IF i = 1 THEN parts[i] ELSE g[i - 1] \o parts[i]
      <4>1. CASE i = k + 1
        <5>1. i # 1 /\ i - 1 = k /\ k \in 1..(k + 1) /\ k # k + 1
          BY <4>1
        <5>2. g[i] = f[k] \o parts[i] /\ g[i - 1] = f[k]
          BY <4>1, <5>1
        <5>3. QED
          BY <5>1, <5>2
      <4>2. CASE i # k + 1
        <5>1. i \in 1..k /\ g[i] = f[i]
          BY <4>2
        <5>2. i # 1 => i - 1 \in 1..(k + 1) /\ i - 1 # k + 1
          BY <4>2
        <5>3. i # 1 => g[i - 1] = f[i - 1]
          BY <5>2
        <5>4. QED
          BY <2>1, <5>1, <5>3 DEF Joined
      <4>3. QED
        BY <4>1, <4>2
    <3> HIDE DEF g
    <3>2. QED
      BY <3>1 DEF Joined
  <2>5. k + 1 \in 1..n
    BY <1>n
  <2> HIDE DEF g
  <2>6. QED
    BY <2>3, <2>4, <2>5
<1>3. n \in S
  <2> HIDE DEF S
  <2>1. 1..n \subseteq S
    BY <1>1, <1>2, <1>n, UpTo
  <2>2. QED
    BY <1>n, <2>1
<1>4. PICK f \in [1..n -> Seq(Char)] : Joined(f, parts, n)
  BY <1>3
<1> DEFINE Step(g) == [i \in 1..n |-> IF i = 1 THEN parts[i] ELSE g[i - 1] \o parts[i]]
<1>5. f = Step(f)
  BY <1>4 DEF Joined
<1> DEFINE flatten == CHOOSE g : g = Step(g)
<1>6. flatten = Step(flatten)
  BY <1>5
<1>7. FlattenSeq(parts) = flatten[n]
  BY <1>n DEF FlattenSeq, n
<1> HIDE DEF flatten
<1>8. Joined(flatten, parts, n)
  BY <1>6 DEF Joined
<1>9. flatten \in [1..n -> Seq(Char)]
  <2> DEFINE R == {k \in 1..n : flatten[k] \in Seq(Char)}
  <2>1. 1 \in R
    <3>1. 1 \in 1..n /\ parts[1] \in Seq(Char)
      BY <1>n
    <3>2. flatten[1] = parts[1]
      BY <1>8, <3>1 DEF Joined
    <3>3. QED
      BY <3>1, <3>2
  <2>2. ASSUME NEW k \in 1..(n - 1), k \in R PROVE k + 1 \in R
    <3>1. k + 1 \in 1..n /\ k + 1 # 1 /\ (k + 1) - 1 = k
      BY <1>n
    <3>2. flatten[k + 1] = flatten[k] \o parts[k + 1]
      BY <1>8, <3>1 DEF Joined
    <3>3. flatten[k] \in Seq(Char) /\ parts[k + 1] \in Seq(Char)
      BY <1>n, <2>2, <3>1
    <3>4. flatten[k] \o parts[k + 1] \in Seq(Char)
      BY <3>3
    <3>5. QED
      BY <3>1, <3>2, <3>4
  <2> HIDE DEF R
  <2>3. 1..n \subseteq R
    BY <1>n, <2>1, <2>2, UpTo
  <2>4. \A k \in 1..n : flatten[k] \in Seq(Char)
    BY <2>3 DEF R
  <2>5. flatten = [i \in 1..n |-> flatten[i]]
    BY <1>6
  <2>6. QED
    BY <2>4, <2>5
<1>10. QED
  BY <1>7, <1>8, <1>9 DEF n

\* Part i lies in the whole behind the first at[i] characters, each character
\* belongs to a part, and the parts follow one another.
Layout(at, parts, whole) ==
  LET Own(i) == 1..Len(parts[i]) IN
  /\ \A i \in 1..Len(parts) : \A j \in Own(i) :
       at[i] + j \in 1..Len(whole) /\ whole[at[i] + j] = parts[i][j]
  /\ \A p \in 1..Len(whole) :
       \E i \in 1..Len(parts) : \E j \in Own(i) : p = at[i] + j
  /\ \A i, l \in 1..Len(parts) : i < l => at[i] + Len(parts[i]) <= at[l]

LEMMA FlattenLayout ==
  ASSUME NEW Char, NEW parts \in Seq(Seq(Char)), Len(parts) # 0
  PROVE  /\ FlattenSeq(parts) \in Seq(Char)
         /\ \E at \in [1..Len(parts) -> Nat] : Layout(at, parts, FlattenSeq(parts))
<1> DEFINE n == Len(parts)
<1>n. n \in Nat /\ n >= 1 /\ 1 \in 1..n /\ n \in 1..n
  OBVIOUS
<1>p. \A i \in 1..n : parts[i] \in Seq(Char) /\ Len(parts[i]) \in Nat
  OBVIOUS
<1>1. PICK flat \in [1..n -> Seq(Char)] :
        Joined(flat, parts, n) /\ FlattenSeq(parts) = flat[n]
  BY FlattenJoins
<1> HIDE DEF n
<1>f. \A i \in 1..n : flat[i] \in Seq(Char) /\ Len(flat[i]) \in Nat
  BY <1>1
<1>2. flat[1] = parts[1]
  BY <1>1, <1>n DEF Joined
<1>3. ASSUME NEW k \in 1..(n - 1)
      PROVE  /\ k \in 1..n /\ k + 1 \in 1..n
             /\ Len(flat[k + 1]) = Len(flat[k]) + Len(parts[k + 1])
             /\ \A p \in 1..Len(flat[k]) : flat[k + 1][p] = flat[k][p]
             /\ \A j \in 1..Len(parts[k + 1]) :
                  flat[k + 1][Len(flat[k]) + j] = parts[k + 1][j]
  <2>1. k \in 1..n /\ k + 1 \in 1..n /\ k + 1 # 1 /\ (k + 1) - 1 = k
    BY <1>n
  <2>2. flat[k + 1] = flat[k] \o parts[k + 1]
    BY <1>1, <2>1 DEF Joined
  <2>3. flat[k] \in Seq(Char) /\ parts[k + 1] \in Seq(Char)
    BY <1>f, <1>p, <2>1
  <2>4. QED
    BY <2>1, <2>2, <2>3
<1> DEFINE at == [i \in 1..n |-> Len(flat[i]) - Len(parts[i])]
           Extends(i, k) == /\ Len(flat[i]) <= Len(flat[k])
                            /\ \A p \in 1..Len(flat[i]) : flat[k][p] = flat[i][p]
           Covered(p, k) == \E i \in 1..k : \E j \in 1..Len(parts[i]) : p = at[i] + j
\* Where a part is.
<1>4. ASSUME NEW i \in 1..n
      PROVE  /\ at[i] \in Nat /\ at[i] + Len(parts[i]) = Len(flat[i])
             /\ \A j \in 1..Len(parts[i]) : flat[i][at[i] + j] = parts[i][j]
             /\ i = 1 => at[i] = 0
             /\ i > 1 => i - 1 \in 1..n /\ at[i] = Len(flat[i - 1])
  <2>0. at[i] = Len(flat[i]) - Len(parts[i]) /\ Len(flat[i]) \in Nat /\ Len(parts[i]) \in Nat
    BY <1>f, <1>p
  <2> HIDE DEF at
  <2>1. CASE i = 1
    <3>1. flat[i] = parts[i] /\ at[i] = 0
      BY <1>2, <2>0, <2>1
    <3>2. \A j \in 1..Len(parts[i]) : at[i] + j = j
      BY <3>1
    <3>3. QED
      BY <2>0, <2>1, <3>1, <3>2
  <2>2. CASE i # 1
    <3>1. PICK k \in 1..(n - 1) : i = k + 1
      <4>1. i - 1 \in 1..(n - 1) /\ i = (i - 1) + 1
        BY <1>n, <2>2
      <4>2. QED
        BY <4>1
    <3>2. at[i] = Len(flat[k]) /\ i - 1 = k /\ k \in 1..n /\ Len(flat[k]) \in Nat
      <4>1. /\ k \in 1..n /\ Len(flat[k]) \in Nat
            /\ Len(flat[i]) = Len(flat[k]) + Len(parts[i])
        BY <1>3, <1>f, <3>1
      <4>2. QED
        BY <2>0, <3>1, <4>1
    <3>3. \A j \in 1..Len(parts[i]) : flat[i][at[i] + j] = parts[i][j]
      <4>1. \A j \in 1..Len(parts[i]) : flat[i][Len(flat[k]) + j] = parts[i][j]
        BY <1>3, <3>1
      <4>2. QED
        BY <3>2, <4>1
    <3>4. at[i] + Len(parts[i]) = Len(flat[i])
      BY <2>0
    <3>5. QED
      BY <2>2, <3>2, <3>3, <3>4
  <2>3. QED
    BY <2>1, <2>2
<1>a. at \in [1..n -> Nat]
  BY <1>4
<1> HIDE DEF at
\* What was written first stays where it is.
<1>5. \A k \in 1..n : \A i \in 1..k : Extends(i, k)
  <2> DEFINE S == {k \in 1..n : \A i \in 1..k : Extends(i, k)}
  <2>1. 1 \in S
    BY <1>n, <1>f
  <2>2. ASSUME NEW k \in 1..(n - 1), k \in S PROVE k + 1 \in S
    <3>1. /\ k \in 1..n /\ k + 1 \in 1..n
          /\ Len(flat[k]) \in Nat /\ Len(flat[k + 1]) \in Nat
          /\ Len(parts[k + 1]) \in Nat
      BY <1>3, <1>f, <1>p
    <3>2. Extends(k, k + 1)
      <4>1. \A p \in 1..Len(flat[k]) : flat[k + 1][p] = flat[k][p]
        BY <1>3
      <4>2. Len(flat[k]) <= Len(flat[k + 1])
        <5>1. Len(flat[k + 1]) = Len(flat[k]) + Len(parts[k + 1])
          BY <1>3
        <5>2. QED
          BY <3>1, <5>1
      <4>3. QED
        BY <4>1, <4>2
    <3>3. ASSUME NEW i \in 1..(k + 1) PROVE Extends(i, k + 1)
      <4>1. CASE i = k + 1
        <5>1. Len(flat[i]) <= Len(flat[k + 1]) /\ flat[i] = flat[k + 1]
          BY <3>1, <4>1
        <5>2. QED
          BY <5>1
      <4>2. CASE i # k + 1
        <5>1. i \in 1..k /\ i \in 1..n
          BY <1>n, <4>2
        <5>2. Extends(i, k) /\ Len(flat[i]) \in Nat
          BY <1>f, <2>2, <5>1
        <5>3. \A p \in 1..Len(flat[i]) : p \in 1..Len(flat[k])
          BY <3>1, <5>2
        <5>4. \A p \in 1..Len(flat[i]) : flat[k + 1][p] = flat[i][p]
          BY <3>2, <5>2, <5>3
        <5>5. QED
          BY <3>1, <3>2, <5>2, <5>4
      <4>3. QED
        BY <4>1, <4>2
    <3> HIDE DEF Extends
    <3>4. QED
      BY <3>1, <3>3
  <2> HIDE DEF S
  <2>3. 1..n \subseteq S
    BY <1>n, <2>1, <2>2, UpTo
  <2>4. QED
    BY <2>3 DEF S
\* Nothing else is written.
<1>6. \A k \in 1..n : \A p \in 1..Len(flat[k]) : Covered(p, k)
  <2> DEFINE S == {k \in 1..n : \A p \in 1..Len(flat[k]) : Covered(p, k)}
  <2>1. 1 \in S
    <3>1. at[1] = 0 /\ Len(flat[1]) = Len(parts[1]) /\ Len(parts[1]) \in Nat
      BY <1>n, <1>2, <1>4, <1>p
    <3>2. ASSUME NEW p \in 1..Len(flat[1]) PROVE Covered(p, 1)
      <4>1. 1 \in 1..1 /\ p \in 1..Len(parts[1]) /\ p = at[1] + p
        BY <3>1
      <4>2. QED
        BY <4>1
    <3>3. QED
      BY <1>n, <3>2
  <2>2. ASSUME NEW k \in 1..(n - 1), k \in S PROVE k + 1 \in S
    <3>1. /\ k \in 1..n /\ k + 1 \in 1..n
          /\ Len(flat[k]) \in Nat /\ Len(parts[k + 1]) \in Nat
          /\ Len(flat[k + 1]) = Len(flat[k]) + Len(parts[k + 1])
      BY <1>3, <1>f, <1>p
    <3>2. at[k + 1] = Len(flat[k])
      <4>1. k + 1 > 1 /\ (k + 1) - 1 = k
        BY <3>1
      <4>2. QED
        BY <1>4, <3>1, <4>1
    <3>3. ASSUME NEW p \in 1..Len(flat[k + 1]) PROVE Covered(p, k + 1)
      <4>1. CASE p <= Len(flat[k])
        <5>1. PICK i \in 1..k : \E j \in 1..Len(parts[i]) : p = at[i] + j
          <6>1. p \in 1..Len(flat[k])
            BY <3>1, <4>1
          <6>2. QED
            BY <2>2, <6>1
        <5>2. i \in 1..(k + 1)
          BY <3>1
        <5>3. QED
          BY <5>1, <5>2
      <4>2. CASE ~(p <= Len(flat[k]))
        <5>1. p - Len(flat[k]) \in 1..Len(parts[k + 1])
              /\ p = at[k + 1] + (p - Len(flat[k])) /\ k + 1 \in 1..(k + 1)
          BY <3>1, <3>2, <4>2
        <5>2. QED
          BY <5>1
      <4>3. QED
        BY <4>1, <4>2
    <3> HIDE DEF Covered
    <3>4. QED
      BY <3>1, <3>3
  <2> HIDE DEF S
  <2>3. 1..n \subseteq S
    BY <1>n, <2>1, <2>2, UpTo
  <2>4. QED
    BY <2>3 DEF S
<1>7. ASSUME NEW i \in 1..n, NEW j \in 1..Len(parts[i])
      PROVE  at[i] + j \in 1..Len(flat[n]) /\ flat[n][at[i] + j] = parts[i][j]
  <2>1. Extends(i, n) /\ Len(flat[i]) \in Nat /\ Len(flat[n]) \in Nat
    BY <1>n, <1>5, <1>f
  <2>2. at[i] + j \in 1..Len(flat[i]) /\ flat[i][at[i] + j] = parts[i][j]
    <3>1. at[i] \in Nat /\ Len(parts[i]) \in Nat /\ at[i] + Len(parts[i]) = Len(flat[i])
      BY <1>4, <1>p
    <3>2. flat[i][at[i] + j] = parts[i][j]
      BY <1>4
    <3>3. QED
      BY <3>1, <3>2
  <2>3. QED
    BY <2>1, <2>2
<1>8. ASSUME NEW i \in 1..n, NEW l \in 1..n, i < l
      PROVE  at[i] + Len(parts[i]) <= at[l]
  <2>1. l > 1 /\ l - 1 \in 1..n /\ i \in 1..(l - 1)
    BY <1>n, <1>8
  <2>2. at[l] = Len(flat[l - 1]) /\ at[i] + Len(parts[i]) = Len(flat[i])
    BY <1>4, <2>1
  <2>3. Extends(i, l - 1)
    BY <1>5, <2>1
  <2>4. QED
    BY <2>2, <2>3
<1>9. Layout(at, parts, flat[n])
  <2> HIDE DEF Extends
  <2>1. \A p \in 1..Len(flat[n]) : Covered(p, n)
    BY <1>n, <1>6
  <2>2. QED
    BY <1>7, <1>8, <2>1 DEF Layout, n
<1>10. QED
  BY <1>1, <1>9, <1>a, <1>f, <1>n DEF n

Special == {References[ref] : ref \in DOMAIN References}

\* The references stand for the special characters, and are none themselves.
LEMMA ReferencesOf ==
  /\ Special = {"&", "<", ">", "quote", "apostrophe"}
  /\ DOMAIN References \subseteq Characters /\ "&" \in Characters
  /\ DOMAIN References \cap Special = {}
<1>1. /\ DOMAIN References = {"amp;", "lt;", "gt;", "quot;", "#39;"}
      /\ References["amp;"] = "&" /\ References["lt;"] = "<"
      /\ References["gt;"] = ">" /\ References["quot;"] = "quote"
      /\ References["#39;"] = "apostrophe"
  BY DEF References
<1>2. Special = {References["amp;"], References["lt;"], References["gt;"],
                 References["quot;"], References["#39;"]}
  BY <1>1, Zenon DEF Special
<1>3. Special = {"&", "<", ">", "quote", "apostrophe"}
  BY <1>1, <1>2, Zenon
<1>4. DOMAIN References \subseteq Characters /\ "&" \in Characters
  BY <1>3, CharacterAssumption, Zenon DEF Special
<1>5. DOMAIN References \cap Special = {}
  <2>1. {"amp;", "lt;", "gt;", "quot;", "#39;"}
          \cap {"&", "<", ">", "quote", "apostrophe"} = {}
    OBVIOUS
  <2>2. QED
    BY <1>1, <1>3, <2>1, Zenon
<1>6. QED
  BY <1>3, <1>4, <1>5, Zenon

Plain(part, ch) == part = <<ch>> /\ ch \notin Special

Reference(part, ch) ==
  part[2] \in DOMAIN References /\ part = <<"&", part[2]>> /\ References[part[2]] = ch

LEMMA ShortSequences ==
  ASSUME NEW Char, NEW one \in Char, NEW two \in Char
  PROVE  /\ <<>> \in Seq(Char)
         /\ <<one>> \in Seq(Char)
         /\ <<one, two>> \in Seq(Char)
OBVIOUS

\* A character stands for itself or has a reference written for it.
LEMMA EscapedShape ==
  ASSUME NEW ch \in Characters
  PROVE  /\ Escaped(ch, Special) \in Seq(Characters)
         /\ \/ Plain(Escaped(ch, Special), ch)
            \/ Reference(Escaped(ch, Special), ch)
<1>1. CASE ch \in Special
  <2> DEFINE ref == CHOOSE ref \in DOMAIN References : References[ref] = ch
  <2>1. ref \in DOMAIN References /\ References[ref] = ch
    BY <1>1, Zenon DEF Special
  <2>2. Escaped(ch, Special) = <<"&", ref>>
    BY <1>1, Zenon DEF Escaped
  <2> HIDE DEF ref
  <2>3. ref \in Characters /\ "&" \in Characters
    BY <2>1, ReferencesOf, Zenon
  <2>4. <<"&", ref>> \in Seq(Characters) /\ <<"&", ref>>[2] = ref
    <3>1. <<"&", ref>> \in Seq(Characters)
      BY <2>3, ShortSequences, Zenon
    <3>2. <<"&", ref>>[2] = ref
      OBVIOUS
    <3>3. QED
      BY <3>1, <3>2
  <2>5. Reference(<<"&", ref>>, ch)
    BY <2>1, <2>4, Zenon DEF Reference
  <2>6. QED
    BY <2>2, <2>4, <2>5, Zenon
<1>2. CASE ch \notin Special
  <2>1. Escaped(ch, Special) = <<ch>>
    BY <1>2, Zenon DEF Escaped
  <2>2. <<ch>> \in Seq(Characters)
    BY ShortSequences, Zenon
  <2>3. QED
    BY <1>2, <2>1, <2>2, Zenon DEF Plain
<1>3. QED
  BY <1>1, <1>2

Opens(markup, i) ==
  markup[i] = "&" /\ i < Len(markup) /\ markup[i + 1] \in DOMAIN References

Starts(markup) == {i \in DOMAIN markup : ~(i > 1 /\ Opens(markup, i - 1))}

Place(markup, k) ==
  CHOOSE i \in Starts(markup) :
    Cardinality({l \in Starts(markup) : l <= i}) = k

\* Shown, with names for its parts.
LEMMA ShownPlaces ==
  ASSUME NEW markup
  PROVE  Shown(markup) =
           [k \in 1..Cardinality(Starts(markup)) |->
              IF Opens(markup, Place(markup, k))
                THEN References[markup[Place(markup, k) + 1]]
                ELSE markup[Place(markup, k)]]
BY DEF Shown, Starts, Place, Opens

\* The k-th of numbers that grow is the one with k of them up to it.
LEMMA CountUpTo ==
  ASSUME NEW n \in Nat, NEW pos \in [1..n -> Nat],
         \A i, l \in 1..n : i < l => pos[i] < pos[l]
  PROVE  LET S == {pos[i] : i \in 1..n} IN
         /\ Cardinality(S) = n
         /\ \A k \in 1..n : /\ Cardinality({p \in S : p <= pos[k]}) = k
                            /\ \A l \in 1..n : pos[l] <= pos[k] <=> l <= k
<1> DEFINE S == {pos[i] : i \in 1..n}
           UpToPos(k) == {pos[i] : i \in 1..k}
<1>1. \A k, l \in 1..n : pos[l] <= pos[k] <=> l <= k
  BY SMT
<1>2. ASSUME NEW k \in 0..n PROVE Cardinality(UpToPos(k)) = k
  <2> DEFINE f == [i \in 1..k |-> pos[i]]
             T == UpToPos(k)
  <2>1. f \in [1..k -> T]
    OBVIOUS
  <2>2. \A i, l \in 1..k : f[i] = f[l] => i = l
    BY <1>1
  <2>3. \A t \in T : \E i \in 1..k : f[i] = t
    OBVIOUS
  <2> HIDE DEF f, T
  <2>4. f \in Bijection(1..k, T)
    BY <2>1, <2>2, <2>3 DEF Bijection, Injection, IsInjective, Surjection
  <2>5. ExistsBijection(1..k, T) /\ k \in Nat
    BY <2>4 DEF ExistsBijection
  <2>6. Cardinality(T) = k
    BY <2>5, FS_CountingElements
  <2>7. QED
    BY <2>6 DEF T
<1>3. ASSUME NEW k \in 1..n PROVE {p \in S : p <= pos[k]} = UpToPos(k)
  BY <1>1
<1>4. S = UpToPos(n)
  OBVIOUS
<1> HIDE DEF UpToPos
<1>5. Cardinality(S) = n
  <2>1. n \in 0..n
    OBVIOUS
  <2>2. QED
    BY <1>2, <1>4, <2>1, Zenon
<1>6. ASSUME NEW k \in 1..n PROVE Cardinality({p \in S : p <= pos[k]}) = k
  <2>1. k \in 0..n
    OBVIOUS
  <2>2. QED
    BY <1>2, <1>3, <2>1, Zenon
<1>7. QED
  BY <1>1, <1>5, <1>6

\* Each part of the markup of a text, and where it is.
LEMMA EscapedLayout ==
  ASSUME NEW text \in Seq(Characters), Len(text) # 0
  PROVE  LET parts == [i \in DOMAIN text |-> Escaped(text[i], Special)] IN
         /\ parts \in Seq(Seq(Characters)) /\ Len(parts) = Len(text)
         /\ EscapeHtml(text) \in Seq(Characters)
         /\ \E at \in [1..Len(text) -> Nat] : Layout(at, parts, EscapeHtml(text))
<1> DEFINE parts == [i \in DOMAIN text |-> Escaped(text[i], Special)]
<1>1. parts \in Seq(Seq(Characters)) /\ Len(parts) = Len(text)
  <2>1. \A i \in 1..Len(text) : Escaped(text[i], Special) \in Seq(Characters)
    BY EscapedShape
  <2>2. QED
    BY <2>1
<1>2. EscapeHtml(text) = FlattenSeq(parts)
  BY DEF EscapeHtml, Special
<1> HIDE DEF parts
<1>3. QED
  BY <1>1, <1>2, FlattenLayout DEF parts

\* However a text is written, its markup is shown as the text and opens no
\* tag and ends no attribute (escapeHtml of html_view.cpp).
THEOREM EscapingIsFaithful ==
  ASSUME NEW text \in Seq(Characters)
  PROVE  /\ Shown(EscapeHtml(text)) = text
         /\ EscapeHtml(text) \in Seq(Characters)
         /\ \A p \in DOMAIN EscapeHtml(text) :
              EscapeHtml(text)[p] \notin {"<", ">", "quote", "apostrophe"}
<1> DEFINE markup == EscapeHtml(text)
           n == Len(text)
<1>1. CASE n = 0
  <2>1. text = <<>> /\ markup = <<>>
    <3>1. text = <<>>
      BY <1>1
    <3>2. [i \in DOMAIN text |-> Escaped(text[i], Special)] = <<>>
      BY <3>1
    <3>3. markup = FlattenSeq(<<>>)
      BY <3>2 DEF EscapeHtml, Special
    <3>4. QED
      BY <3>1, <3>3 DEF FlattenSeq
  <2>2. DOMAIN markup = {} /\ Starts(markup) = {}
    BY <2>1 DEF Starts
  <2>3. Cardinality(Starts(markup)) = 0
    BY <2>2, FS_EmptySet
  <2>4. Shown(markup) = <<>>
    BY <2>3, ShownPlaces
  <2>5. QED
    BY <2>1, <2>2, <2>4
<1>2. CASE n # 0
  <2> DEFINE parts == [i \in DOMAIN text |-> Escaped(text[i], Special)]
  <2>0. n \in Nat /\ DOMAIN text = 1..n
    OBVIOUS
  <2>1. /\ parts \in Seq(Seq(Characters)) /\ Len(parts) = n
        /\ markup \in Seq(Characters)
    BY <1>2, EscapedLayout
  <2>2. PICK at \in [1..n -> Nat] : Layout(at, parts, markup)
    BY <1>2, EscapedLayout
  <2>3. ASSUME NEW i \in 1..n
        PROVE  /\ parts[i] \in Seq(Characters) /\ text[i] \in Characters
               /\ Plain(parts[i], text[i]) \/ Reference(parts[i], text[i])
    <3>1. text[i] \in Characters /\ parts[i] = Escaped(text[i], Special)
      BY <2>0
    <3>2. QED
      BY <3>1, EscapedShape
  <2> HIDE DEF n, markup, parts
  <2>m. DOMAIN markup = 1..Len(markup) /\ Len(markup) \in Nat
    BY <2>1
\* The two ways a character is written.
  <2>4. ASSUME NEW i \in 1..n, Plain(parts[i], text[i])
        PROVE  /\ Len(parts[i]) = 1 /\ at[i] + 1 \in 1..Len(markup)
               /\ markup[at[i] + 1] = text[i] /\ text[i] \notin Special
    <3>1. Len(parts[i]) = 1 /\ parts[i][1] = text[i] /\ text[i] \notin Special
      BY <2>4 DEF Plain
    <3>2. i \in 1..Len(parts) /\ 1 \in 1..Len(parts[i])
      BY <2>1, <3>1
    <3>3. at[i] + 1 \in 1..Len(markup) /\ markup[at[i] + 1] = parts[i][1]
      BY <2>2, <3>2 DEF Layout
    <3>4. QED
      BY <3>1, <3>3
  <2>5. ASSUME NEW i \in 1..n, Reference(parts[i], text[i])
        PROVE  /\ Len(parts[i]) = 2
               /\ at[i] + 1 \in 1..Len(markup) /\ at[i] + 2 \in 1..Len(markup)
               /\ markup[at[i] + 1] = "&"
               /\ markup[at[i] + 2] \in DOMAIN References
               /\ References[markup[at[i] + 2]] = text[i]
    <3>1. /\ Len(parts[i]) = 2 /\ parts[i][1] = "&"
          /\ parts[i][2] \in DOMAIN References
          /\ References[parts[i][2]] = text[i]
      <4> DEFINE ref == parts[i][2]
      <4>1. /\ ref \in DOMAIN References /\ parts[i] = <<"&", ref>>
            /\ References[ref] = text[i]
        BY <2>5 DEF Reference
      <4> HIDE DEF ref
      <4>2. Len(parts[i]) = 2 /\ parts[i][1] = "&"
        BY <4>1
      <4>3. QED
        BY <4>1, <4>2 DEF ref
    <3>2. 1 \in 1..Len(parts[i]) /\ 2 \in 1..Len(parts[i])
      BY <3>1
    <3>3. /\ at[i] + 1 \in 1..Len(markup) /\ markup[at[i] + 1] = parts[i][1]
          /\ at[i] + 2 \in 1..Len(markup) /\ markup[at[i] + 2] = parts[i][2]
      BY <2>1, <2>2, <3>2 DEF Layout
    <3>4. QED
      BY <3>1, <3>3
  <2>6. ASSUME NEW p \in 1..Len(markup)
        PROVE  \E i \in 1..n :
                 \/ p = at[i] + 1
                 \/ p = at[i] + 2 /\ Reference(parts[i], text[i])
    <3>1. PICK i \in 1..n : \E j \in 1..Len(parts[i]) : p = at[i] + j
      BY <2>1, <2>2 DEF Layout
    <3>2. \/ Len(parts[i]) = 1
          \/ Len(parts[i]) = 2 /\ Reference(parts[i], text[i])
      BY <2>3, <2>4, <2>5
    <3>3. PICK j \in 1..Len(parts[i]) : p = at[i] + j
      BY <3>1
    <3>4. j = 1 \/ (j = 2 /\ Reference(parts[i], text[i]))
      <4>1. Len(parts[i]) = 1 => j = 1
        OBVIOUS
      <4>2. Len(parts[i]) = 2 => j = 1 \/ j = 2
        OBVIOUS
      <4>3. QED
        BY <3>2, <4>1, <4>2, Zenon
    <3>5. QED
      BY <3>3, <3>4
  <2>7. ASSUME NEW i \in 1..n, NEW l \in 1..n, i < l
        PROVE  /\ at[i] + 1 <= at[l]
               /\ Reference(parts[i], text[i]) => at[i] + 2 <= at[l]
    <3>1. at[i] + Len(parts[i]) <= at[l]
      BY <2>1, <2>2, <2>7 DEF Layout
    <3>2. Len(parts[i]) = 1 \/ Len(parts[i]) = 2
      BY <2>3, <2>4, <2>5
    <3>3. Reference(parts[i], text[i]) => Len(parts[i]) = 2
      BY <2>5
    <3>4. at[i] \in Nat /\ at[l] \in Nat
      OBVIOUS
    <3>5. at[i] + 1 <= at[l] /\ (Len(parts[i]) = 2 => at[i] + 2 <= at[l])
      <4>1. CASE Len(parts[i]) = 1
        BY <3>1, <3>4, <4>1
      <4>2. CASE Len(parts[i]) = 2
        BY <3>1, <3>4, <4>2
      <4>3. QED
        BY <3>2, <4>1, <4>2
    <3>6. QED
      BY <3>3, <3>5, Zenon
\* Where the markup has a reference.
  <2>8. ASSUME NEW p \in 1..Len(markup)
        PROVE  Opens(markup, p) <=>
                 \E i \in 1..n : p = at[i] + 1 /\ Reference(parts[i], text[i])
    <3>1. ASSUME NEW i \in 1..n, p = at[i] + 1, Reference(parts[i], text[i])
          PROVE  Opens(markup, p)
      <4>1. p + 1 = at[i] + 2 /\ p < Len(markup)
        BY <2>5, <2>m, <3>1
      <4>2. markup[p] = "&" /\ markup[p + 1] \in DOMAIN References
        BY <2>5, <3>1, <4>1
      <4>3. QED
        BY <4>1, <4>2 DEF Opens
    <3>2. ASSUME Opens(markup, p)
          PROVE  \E i \in 1..n : p = at[i] + 1 /\ Reference(parts[i], text[i])
      <4>1. markup[p] = "&" /\ "&" \in Special /\ "&" \notin DOMAIN References
        <5>1. markup[p] = "&"
          BY <3>2 DEF Opens
        <5>2. QED
          BY <5>1, ReferencesOf, Zenon
      <4>2. PICK i \in 1..n : \/ p = at[i] + 1
                              \/ p = at[i] + 2 /\ Reference(parts[i], text[i])
        BY <2>6
      <4>3. p # at[i] + 2 \/ ~Reference(parts[i], text[i])
        BY <2>5, <4>1
      <4>4. p = at[i] + 1
        BY <4>2, <4>3
      <4>5. ~Plain(parts[i], text[i])
        BY <2>4, <4>1, <4>4
      <4>6. QED
        BY <2>3, <4>4, <4>5
    <3>3. QED
      BY <3>1, <3>2
\* What is shown starts where a part starts.
  <2> DEFINE pos == [i \in 1..n |-> at[i] + 1]
  <2>9. Starts(markup) = {pos[i] : i \in 1..n}
    <3>1. ASSUME NEW i \in 1..n PROVE at[i] + 1 \in Starts(markup)
      <4>1. at[i] + 1 \in 1..Len(markup) /\ at[i] \in Nat
        BY <2>3, <2>4, <2>5
      <4>2. ASSUME at[i] > 0 PROVE ~Opens(markup, at[i])
        <5>1. at[i] \in 1..Len(markup)
          BY <2>m, <4>1, <4>2
        <5>2. ASSUME NEW l \in 1..n, at[i] = at[l] + 1, Reference(parts[l], text[l])
              PROVE  FALSE
          <6>1. i = l \/ i < l \/ l < i
            BY <2>0
          <6>2. at[l] \in Nat
            OBVIOUS
          <6>3. QED
            BY <2>7, <4>1, <5>2, <6>1, <6>2
        <5>3. QED
          BY <2>8, <5>1, <5>2
      <4>3. (at[i] + 1) - 1 = at[i] /\ (at[i] + 1 > 1 => at[i] > 0)
        BY <4>1
      <4>4. QED
        BY <2>m, <4>1, <4>2, <4>3 DEF Starts
    <3>2. ASSUME NEW p \in Starts(markup) PROVE \E i \in 1..n : p = at[i] + 1
      <4>1. p \in 1..Len(markup) /\ ~(p > 1 /\ Opens(markup, p - 1))
        BY <2>m DEF Starts
      <4>2. PICK i \in 1..n : \/ p = at[i] + 1
                              \/ p = at[i] + 2 /\ Reference(parts[i], text[i])
        BY <2>6, <4>1
      <4>3. ASSUME p = at[i] + 2, Reference(parts[i], text[i]) PROVE FALSE
        <5>1. at[i] + 1 \in 1..Len(markup) /\ Opens(markup, at[i] + 1)
          BY <2>5, <2>8, <4>3
        <5>2. p > 1 /\ p - 1 = at[i] + 1
          <6>1. at[i] \in Nat
            OBVIOUS
          <6>2. QED
            BY <4>3, <6>1
        <5>3. QED
          BY <4>1, <5>1, <5>2
      <4>4. QED
        BY <4>2, <4>3
    <3>3. QED
      BY <3>1, <3>2
  <2>10. /\ pos \in [1..n -> Nat]
         /\ \A i, l \in 1..n : i < l => pos[i] < pos[l]
    BY <2>0, <2>7
  <2>11. /\ Cardinality(Starts(markup)) = n
         /\ \A k \in 1..n :
              /\ Cardinality({p \in Starts(markup) : p <= pos[k]}) = k
              /\ pos[k] \in Starts(markup)
    <3> HIDE DEF pos
    <3>1. LET S == {pos[i] : i \in 1..n} IN
          /\ Cardinality(S) = n
          /\ \A k \in 1..n : Cardinality({p \in S : p <= pos[k]}) = k
      <4>1. LET S == {pos[i] : i \in 1..n} IN
            /\ Cardinality(S) = n
            /\ \A k \in 1..n : /\ Cardinality({p \in S : p <= pos[k]}) = k
                               /\ \A l \in 1..n : pos[l] <= pos[k] <=> l <= k
        BY <2>0, <2>10, CountUpTo
      <4>2. QED
        BY <4>1
    <3>2. QED
      BY <2>9, <3>1
  <2>12. ASSUME NEW k \in 1..n PROVE Place(markup, k) = pos[k]
    <3> HIDE DEF pos
    <3>1. \A p \in Starts(markup) :
            Cardinality({q \in Starts(markup) : q <= p}) = k => p = pos[k]
      BY <2>9, <2>11
    <3>2. QED
      BY <2>11, <3>1 DEF Place
  <2>13. ASSUME NEW k \in 1..n
         PROVE  (IF Opens(markup, Place(markup, k))
                   THEN References[markup[Place(markup, k) + 1]]
                   ELSE markup[Place(markup, k)]) = text[k]
    <3>1. Place(markup, k) = at[k] + 1 /\ at[k] \in Nat /\ (at[k] + 1) + 1 = at[k] + 2
      BY <2>12
    <3>2. CASE Reference(parts[k], text[k])
      <4>1. Opens(markup, at[k] + 1) /\ References[markup[at[k] + 2]] = text[k]
        BY <2>5, <2>8, <3>2
      <4>2. QED
        BY <3>1, <4>1
    <3>3. CASE Plain(parts[k], text[k])
      <4>1. markup[at[k] + 1] = text[k] /\ text[k] \notin Special
        BY <2>4, <3>3
      <4>2. ~Opens(markup, at[k] + 1)
        BY <4>1, ReferencesOf DEF Opens
      <4>3. QED
        BY <3>1, <4>1, <4>2
    <3>4. QED
      BY <2>3, <3>2, <3>3
  <2>14. Shown(markup) = text
    <3>1. Shown(markup) = [k \in 1..n |-> text[k]]
      BY <2>11, <2>13, ShownPlaces
    <3>2. QED
      BY <2>0, <3>1
  <2>15. ASSUME NEW p \in 1..Len(markup) PROVE markup[p] \notin Special \ {"&"}
    <3>1. PICK i \in 1..n : \/ p = at[i] + 1
                            \/ p = at[i] + 2 /\ Reference(parts[i], text[i])
      BY <2>6
    <3>2. CASE Reference(parts[i], text[i])
      <4>1. markup[p] = "&" \/ markup[p] \in DOMAIN References
        BY <2>5, <3>1, <3>2
      <4>2. QED
        BY <4>1, ReferencesOf, Zenon
    <3>3. CASE Plain(parts[i], text[i]) /\ p = at[i] + 1
      BY <2>4, <3>3
    <3>4. QED
      BY <2>3, <3>1, <3>2, <3>3
  <2>16. {"<", ">", "quote", "apostrophe"} \subseteq Special \ {"&"}
    <3>1. "&" \notin {"<", ">", "quote", "apostrophe"}
      OBVIOUS
    <3>2. QED
      BY <3>1, ReferencesOf, Zenon
  <2>17. \A p \in DOMAIN markup : markup[p] \notin {"<", ">", "quote", "apostrophe"}
    BY <2>m, <2>15, <2>16, Zenon
  <2>18. QED
    BY <2>1, <2>14, <2>17 DEF markup
<1>3. QED
  BY <1>1, <1>2

\* A title, url, hub, author or date that contains markup characters, or looks
\* like an escaped text already, is shown as it was written, and none of the
\* first three opens a tag, whatever their length and whatever other characters
\* there are (RenderArticle).
THEOREM TextStays == Spec => []TextStaysText
<1>1. JobInv => TextStaysText
  <2> SUFFICES ASSUME JobInv, Done("text") PROVE TextStaysText
    BY DEF TextStaysText
  <2>1. job \in TextJobs
    BY Kinds DEF Done
  <2>2. job.text \in Seq(Characters) /\ job.author \in Seq(Characters)
    <3>1. job.text \in SmallTexts /\ job.author \in {<<>>, <<">">>}
      BY <2>1 DEF TextJobs
    <3>2. ">" \in Characters
      BY ReferencesOf, CharacterAssumption, Zenon DEF Special
    <3>3. job.author \in Seq(Characters)
      BY <3>1, <3>2, ShortSequences, Zenon
    <3>4. \A n \in 0..MaxText : [1..n -> Characters] \subseteq Seq(Characters)
      OBVIOUS
    <3>5. QED
      BY <3>1, <3>3, <3>4 DEF SmallTexts
  <2>3. result = Rendered(job.text, job.author)
    <3>1. result = Result /\ job.kind = "text"
      BY DEF JobInv, Done
    <3>2. QED
      BY <3>1 DEF Result
  <2> DEFINE markup == EscapeHtml(job.text)
  <2>4. /\ result.link = <<markup, markup>> /\ result.hubs[1] = markup
        /\ result.byline = IF job.author = <<>> THEN NoPart
                           ELSE IF job.text = <<>> THEN <<EscapeHtml(job.author)>>
                           ELSE <<EscapeHtml(job.author), markup>>
    <3> HIDE DEF markup
    <3>1. RenderArticle([url |-> job.text, title |-> job.text, author |-> job.author,
                         published_at |-> job.text, hubs |-> <<job.text>>])
            = [link   |-> <<markup, markup>>,
               byline |-> IF job.author = <<>> THEN NoPart
                          ELSE IF job.text = <<>> THEN <<EscapeHtml(job.author)>>
                          ELSE <<EscapeHtml(job.author), markup>>,
               hubs   |-> IF <<job.text>> = <<>> THEN NoPart
                          ELSE [h \in DOMAIN <<job.text>> |-> EscapeHtml(<<job.text>>[h])]]
      BY DEF RenderArticle, markup
    <3>2. /\ <<job.text>> # <<>>
          /\ [h \in DOMAIN <<job.text>> |-> EscapeHtml(<<job.text>>[h])][1] = markup
      BY DEF markup
    <3>3. QED
      BY <2>3, <3>1, <3>2 DEF Rendered
  <2>5. /\ Shown(markup) = job.text
        /\ \A i \in DOMAIN markup : markup[i] \notin {"<", ">", "quote", "apostrophe"}
        /\ Shown(EscapeHtml(job.author)) = job.author
    BY <2>2, EscapingIsFaithful, Zenon
  <2>6. markup \in Seq(Characters) /\ EscapeHtml(job.author) \in Seq(Characters)
    BY <2>2, EscapingIsFaithful, Zenon
  <2> DEFINE author == EscapeHtml(job.author)
  <2> HIDE DEF markup, author
  <2>7. /\ author \in Seq(Characters)
        /\ result.byline = IF job.author = <<>> THEN NoPart
                           ELSE IF job.text = <<>> THEN <<author>>
                           ELSE <<author, markup>>
    BY <2>4, <2>6, Zenon DEF author
  <2>8. (result.byline = NoPart) <=> (job.author = <<>>)
    <3>1. <<author, markup>> \in Seq(Seq(Characters)) /\ <<author>> \in Seq(Seq(Characters))
      BY <2>6, <2>7
    <3>2. <<author, markup>> # NoPart /\ <<author>> # NoPart
      BY <3>1, CharacterAssumption, Zenon
    <3>3. QED
      BY <2>7, <3>2, Zenon
  <2>9. job.author # <<>> => result.byline[1] = author
    BY <2>7
  <2>10. job.author # <<>> /\ job.text # <<>> => result.byline[2] = markup
    BY <2>7
  <2>11. /\ job.author # <<>> => Shown(result.byline[1]) = job.author
         /\ job.author # <<>> /\ job.text # <<>> => Shown(result.byline[2]) = job.text
    BY <2>5, <2>9, <2>10, Zenon DEF author
  <2>12. \A m \in {result.link[1], result.link[2], result.hubs[1]} : m = markup
    BY <2>4
  <2>13. \A i \in DOMAIN markup : markup[i] \notin {"<", ">", "quote"}
    BY <2>5
  <2>14. QED
    BY <2>5, <2>8, <2>11, <2>12, <2>13, Zenon DEF TextStaysText
<1>2. QED
  BY <1>1, JobAlways, PTL

-----------------------------------------------------------------------------
(* Numbers                                                                 *)

\* The provers know no powers, but the library counts the subsets of a set.
LEMMA PowerCounts ==
  ASSUME NEW n \in Nat
  PROVE  /\ IsFiniteSet(SUBSET (1..n)) /\ Cardinality(SUBSET (1..n)) = 2^n
         /\ 2^n \in Nat /\ 2^n > 0
<1>1. IsFiniteSet(1..n) /\ Cardinality(1..n) = n
  BY FS_Interval
<1>2. IsFiniteSet(SUBSET (1..n)) /\ Cardinality(SUBSET (1..n)) = 2^n
  <2>1. /\ IsFiniteSet(SUBSET (1..n))
        /\ Cardinality(SUBSET (1..n)) = 2^Cardinality(1..n)
    BY <1>1, FS_SUBSET, Zenon
  <2>2. QED
    BY <1>1, <2>1, Zenon
<1> DEFINE size == Cardinality(SUBSET (1..n))
<1>3. size \in Nat /\ (size = 0 <=> SUBSET (1..n) = {})
  BY <1>2, FS_CardinalityType, FS_EmptySet, Zenon
<1>4. {} \in SUBSET (1..n)
  OBVIOUS
<1>5. size \in Nat /\ size # 0
  BY <1>3, <1>4, Zenon
<1> HIDE DEF size
<1>6. size > 0
  BY <1>5
<1>7. size = 2^n
  BY <1>2, Zenon DEF size
<1>8. QED
  BY <1>2, <1>5, <1>6, <1>7, Zenon

\* One bit more.
LEMMA PowerDoubles ==
  ASSUME NEW n \in Nat
  PROVE  2^(n + 1) = 2 * 2^n
<1> DEFINE old == SUBSET (1..n)
           new == {A \union {n + 1} : A \in old}
           f   == [A \in old |-> A \union {n + 1}]
<1>1. f \in Bijection(old, new)
  <2>1. f \in [old -> new]
    BY Zenon
  <2>2. ASSUME NEW A \in old, NEW B \in old, f[A] = f[B] PROVE A = B
    <3>1. n + 1 \notin A /\ n + 1 \notin B
      OBVIOUS
    <3>2. A \union {n + 1} = B \union {n + 1}
      BY <2>2, Zenon
    <3>3. A = (A \union {n + 1}) \ {n + 1} /\ B = (B \union {n + 1}) \ {n + 1}
      BY <3>1
    <3>4. QED
      BY <3>2, <3>3, Zenon
  <2>3. \A T \in new : \E A \in old : f[A] = T
    BY Zenon
  <2> HIDE DEF f, old, new
  <2>4. QED
    BY <2>1, <2>2, <2>3, Zenon DEF Bijection, Injection, IsInjective, Surjection
<1>2. SUBSET (1..(n + 1)) = old \union new
  <2>1. ASSUME NEW B \in SUBSET (1..(n + 1)) PROVE B \in old \union new
    <3>1. CASE n + 1 \in B
      <4>1. B \ {n + 1} \in old /\ B = (B \ {n + 1}) \union {n + 1}
        BY <3>1
      <4>2. QED
        BY <4>1, Zenon
    <3>2. CASE n + 1 \notin B
      BY <3>2
    <3>3. QED
      BY <3>1, <3>2
  <2>2. \A A \in old : A \subseteq 1..(n + 1) /\ A \union {n + 1} \subseteq 1..(n + 1)
    OBVIOUS
  <2>3. old \union new \subseteq SUBSET (1..(n + 1))
    BY <2>2
  <2> HIDE DEF old, new
  <2>4. QED
    BY <2>1, <2>3
<1>3. old \intersect new = {}
  OBVIOUS
<1> HIDE DEF old, new, f
<1>4. IsFiniteSet(old) /\ Cardinality(old) = 2^n /\ 2^n \in Nat
  BY PowerCounts, Zenon DEF old
<1>5. IsFiniteSet(new) /\ Cardinality(new) = Cardinality(old)
  BY <1>1, <1>4, FS_Bijection, Zenon DEF ExistsBijection
<1>6. Cardinality(old \union new) = Cardinality(old) + Cardinality(new) - 0
  <2>1. Cardinality(old \intersect new) = 0
    BY <1>3, FS_EmptySet, Zenon
  <2>2. Cardinality(old \union new)
          = Cardinality(old) + Cardinality(new) - Cardinality(old \intersect new)
    BY <1>4, <1>5, FS_Union, Zenon
  <2>3. QED
    BY <2>1, <2>2, Zenon
<1>7. n + 1 \in Nat
  OBVIOUS
<1>8. Cardinality(SUBSET (1..(n + 1))) = 2^(n + 1)
  BY <1>7, PowerCounts, Zenon
<1> DEFINE p == 2^n
           q == 2^(n + 1)
<1>9. p \in Nat /\ q = p + p - 0
  BY <1>2, <1>4, <1>5, <1>6, <1>8, Zenon
<1> HIDE DEF p, q
<1>10. q = 2 * p
  BY <1>9
<1>11. QED
  BY <1>10 DEF p, q

\* A power of two is above its exponent: enough bits hold any number.
LEMMA PowerGrows ==
  ASSUME NEW n \in Nat
  PROVE  2^n > n
<1> DEFINE S == {k \in 1..n : 2^k > k}
<1>1. n >= 1 => 1 \in S
  OBVIOUS
<1>2. ASSUME NEW k \in 1..(n - 1), k \in S PROVE k + 1 \in S
  <2>1. 2^k \in Nat /\ 2^(k + 1) = 2 * 2^k /\ 2^k > k
    BY <1>2, PowerCounts, PowerDoubles
  <2> DEFINE p == 2^k
             q == 2^(k + 1)
  <2>2. p \in Nat /\ q = 2 * p /\ p > k
    BY <2>1, Zenon
  <2> HIDE DEF p, q
  <2>3. q > k + 1 /\ k + 1 \in 1..n
    BY <2>2
  <2>4. QED
    BY <2>3 DEF q
<1> HIDE DEF S
<1>3. 1..n \subseteq S
  BY <1>1, <1>2, UpTo
<1>4. CASE n = 0
  BY <1>4
<1>5. CASE n # 0
  BY <1>3, <1>5 DEF S
<1>6. QED
  BY <1>4, <1>5

\* Two shifts are one.
LEMMA PowerAdds ==
  ASSUME NEW m \in Nat, NEW n \in Nat
  PROVE  2^(m + n) = 2^m * 2^n
<1> DEFINE S == {k \in 1..(n + 1) : 2^(m + (k - 1)) = 2^m * 2^(k - 1)}
           p == 2^m
<1>p. p \in Nat
  BY PowerCounts, Zenon
<1>1. 1 \in S
  <2>1. 2^(m + 0) = 2^m * 2^0
    <3>1. m + 0 = m /\ 2^0 = 1
      OBVIOUS
    <3>2. 2^(m + 0) = p /\ 2^m * 2^0 = p * 1
      BY <3>1, Zenon
    <3>3. p * 1 = p
      BY <1>p, SMT
    <3>4. QED
      BY <3>2, <3>3, Zenon
  <2>2. 1 \in 1..(n + 1) /\ 1 - 1 = 0
    OBVIOUS
  <2>3. QED
    BY <2>1, <2>2, Zenon
<1>2. ASSUME NEW k \in 1..((n + 1) - 1), k \in S PROVE k + 1 \in S
  <2> DEFINE a == m + (k - 1)
             q == 2^(k - 1)
  <2>1. /\ a \in Nat /\ k - 1 \in Nat /\ a + 1 = m + ((k + 1) - 1)
        /\ (k - 1) + 1 = (k + 1) - 1 /\ k + 1 \in 1..(n + 1)
    OBVIOUS
  <2>2. 2^(a + 1) = 2 * 2^a /\ 2^((k - 1) + 1) = 2 * q /\ q \in Nat
    <3> HIDE DEF a
    <3>1. QED
      BY <2>1, PowerCounts, PowerDoubles, Zenon
  <2>3. 2^a = p * q
    BY <1>2, Zenon
  <2>4. 2^(m + ((k + 1) - 1)) = 2 * (p * q) /\ 2^((k + 1) - 1) = 2 * q
    BY <2>1, <2>2, <2>3, Zenon
  <2> HIDE DEF p, q
  <2>5. 2 * (p * q) = p * (2 * q)
    BY <1>p, <2>2, SMT
  <2>6. QED
    BY <2>1, <2>4, <2>5, Zenon DEF p
<1> HIDE DEF S
<1>3. 1..(n + 1) \subseteq S
  <2>1. n + 1 \in Nat
    OBVIOUS
  <2>2. QED
    BY <1>1, <1>2, <2>1, UpTo
<1>4. n + 1 \in S
  BY <1>3
<1>5. (n + 1) - 1 = n
  OBVIOUS
<1>6. QED
  BY <1>4, <1>5, Zenon DEF S

\* Rounding is by half at most, and leaves a whole number alone.
LEMMA NearestIsNear ==
  ASSUME NEW n \in Nat, NEW d \in Nat \ {0}
  PROVE  /\ Nearest(n, d) \in Nat
         /\ 2 * (Nearest(n, d) * d - n) <= d /\ 2 * (n - Nearest(n, d) * d) <= d
         /\ \A v \in Nat : n = v * d => Nearest(n, d) = v
<1> DEFINE q == n \div d
           r == n % d
<1>1. q \in Nat /\ r \in 0..(d - 1) /\ n = d * q + r
  BY SMT
<1>2. Nearest(n, d) = IF 2 * r > d \/ (2 * r = d /\ q % 2 = 1) THEN q + 1 ELSE q
  BY Zenon DEF Nearest
<1> HIDE DEF q, r
<1>3. CASE Nearest(n, d) = q /\ 2 * r <= d
  <2>1. q * d - n = -r
    BY <1>1, SMT
  <2>2. QED
    <3>1. \A v \in Nat : n = v * d => v = q
      <4> SUFFICES ASSUME NEW v \in Nat, v * d = d * q + r PROVE v = q
        BY <1>1
      <4>1. CASE v >= q + 1
        <5>1. v * d >= (q + 1) * d /\ (q + 1) * d = d * q + d
          BY <1>1, <4>1, SMT
        <5>2. QED
          BY <1>1, <5>1, SMT
      <4>2. CASE v <= q - 1
        <5>1. v * d <= (q - 1) * d /\ (q - 1) * d = d * q - d
          BY <1>1, <4>2, SMT
        <5>2. QED
          BY <1>1, <5>1, SMT
      <4>3. QED
        BY <1>1, <4>1, <4>2, SMT
    <3>2. QED
      BY <1>1, <1>3, <2>1, <3>1
<1>4. CASE Nearest(n, d) = q + 1 /\ 2 * r >= d
  <2>1. (q + 1) * d - n = d - r
    BY <1>1, SMT
  <2>2. ASSUME NEW v \in Nat, n = v * d PROVE FALSE
    <3>0. v * d = d * q + r
      BY <1>1, <2>2
    <3>1. r > 0 /\ r < d
      BY <1>1, <1>4
    <3>2. CASE v >= q + 1
      <4>1. v * d >= (q + 1) * d /\ (q + 1) * d = d * q + d
        BY <1>1, <3>2, SMT
      <4>2. QED
        BY <1>1, <3>0, <3>1, <4>1, SMT
    <3>3. CASE v <= q
      <4>1. v * d <= q * d /\ q * d = d * q
        BY <1>1, <3>3, SMT
      <4>2. QED
        BY <1>1, <3>0, <3>1, <4>1, SMT
    <3>4. QED
      BY <1>1, <3>2, <3>3
  <2>3. QED
    BY <1>1, <1>4, <2>1, <2>2
<1>5. QED
  BY <1>1, <1>2, <1>3, <1>4

\* The product of two numbers that are not negative, as a fact the arithmetic
\* below needs all the time.
LEMMA TimesGrows ==
  ASSUME NEW a \in Int, NEW b \in Int, NEW c \in Nat, a <= b
  PROVE  a * c <= b * c
BY SMT

\* The double next to N / D is R / P: half a unit away at most, a unit being
\* small against the number, and the number itself when that is whole.
Near(x, R, P) ==
  /\ 2 * (R * x.den - x.num * P) <= x.den
  /\ 2 * (x.num * P - R * x.den) <= x.den
  /\ x.num # 0 => 2^MantissaBits * x.den <= 2 * (x.num * P)
  /\ \A v \in Nat : x.num = v * x.den => R = v * P

\* Double (the rounding of std::stod and of a product) is the double next to a
\* number, for every fraction and every number of bits.
THEOREM DoubleIsNear ==
  ASSUME NEW x \in [num : Nat, den : Nat \ {0}]
  PROVE  \E R \in Nat, P \in Nat \ {0} :
           Double(x) = [num |-> R, den |-> P] /\ Near(x, R, P)
<1> DEFINE N == x.num
           D == x.den
<1>x. N \in Nat /\ D \in Nat \ {0} /\ x = [num |-> N, den |-> D]
  OBVIOUS
<1>1. CASE N = 0
  <2>1. Double(x) = [num |-> N, den |-> D]
    BY <1>x, <1>1, Zenon DEF Double
  <2>2. Near(x, N, D)
    <3>1. 2 * (N * D - N * D) <= D
      BY <1>x, SMT
    <3>2. \A v \in Nat : N = v * D => N = v * D
      OBVIOUS
    <3>3. QED
      BY <1>1, <3>1, <3>2 DEF Near
  <2>3. QED
    BY <1>x, <2>1, <2>2, Zenon
<1>2. CASE N # 0
  <2> DEFINE Normal(e) == N * 2^e >= 2^(MantissaBits - 1) * D
             top       == MantissaBits + D
             exponent  == CHOOSE e \in 0..top :
                            Normal(e) /\ (e = 0 \/ ~Normal(e - 1))
             half      == 2^(MantissaBits - 1)
             P         == 2^exponent
  <2>1. Double(x) = [num |-> Nearest(N * P, D), den |-> P]
    BY <1>2, Zenon DEF Double
  <2>2. half \in Nat /\ 2^MantissaBits = 2 * half
    <3>1. MantissaBits - 1 \in Nat /\ (MantissaBits - 1) + 1 = MantissaBits
      BY HtmlParserAssumption
    <3>2. QED
      BY <3>1, PowerCounts, PowerDoubles, Zenon
  <2>3. top \in 0..top /\ Normal(top)
    <3>1. /\ MantissaBits - 1 \in Nat /\ D + 1 \in Nat
          /\ (MantissaBits - 1) + (D + 1) = top /\ top \in Nat
      BY <1>x, HtmlParserAssumption
    <3>2. 2^top = half * 2^(D + 1)
      <4> HIDE DEF top
      <4>1. QED
        BY <3>1, PowerAdds, Zenon
    <3> DEFINE far == 2^(D + 1)
    <3>3. far \in Nat /\ far > D + 1
      BY <3>1, PowerCounts, PowerGrows, Zenon
    <3>4. N * 2^top = N * (half * far)
      BY <3>2, Zenon
    <3> HIDE DEF far, half
    <3>5. far * half >= D * half /\ D * half = half * D /\ half * far = far * half
      <4>1. D <= far
        BY <1>x, <3>3
      <4>2. QED
        BY <1>x, <2>2, <3>3, <4>1, SMT
    <3> DEFINE product == half * far
    <3>6. product \in Nat /\ product >= half * D
      BY <2>2, <3>3, <3>5, SMT
    <3>7. N * product >= product
      <4> HIDE DEF product, N, D
      <4>1. N >= 1
        BY <1>x, <1>2
      <4>2. 1 * product <= N * product
        BY <1>x, <3>6, <4>1, TimesGrows
      <4>3. QED
        BY <3>6, <4>2, SMT
    <3>8. N * (half * far) >= half * D
      <4> DEFINE left == N * product
                 right == half * D
      <4>1. left \in Int /\ right \in Int
        BY <1>x, <2>2, <3>6, SMT
      <4>2. left >= product /\ product >= right
        BY <3>6, <3>7, Zenon
      <4> HIDE DEF left, right, product
      <4>3. left >= right
        BY <3>6, <4>1, <4>2
      <4>4. QED
        BY <4>3, Zenon DEF left, right, product
    <3>9. QED
      BY <3>1, <3>4, <3>8 DEF half
  <2>4. \E e \in 0..top : Normal(e) /\ (e = 0 \/ ~Normal(e - 1))
    <3> DEFINE S == {e \in 0..top : Normal(e)}
    <3> HIDE DEF Normal
    <3>1. S \in SUBSET Nat /\ S # {}
      BY <2>3
    <3>2. PICK e \in S : \A k \in S : e <= k
      <4> HIDE DEF S
      <4>1. QED
        BY <3>1, LeastNumber, Zenon
    <3>3. e \in 0..top /\ Normal(e)
      BY <3>2
    <3>4. e # 0 => e - 1 \in 0..top /\ ~(e <= e - 1)
      <4>1. top \in Nat
        BY <1>x, HtmlParserAssumption
      <4> HIDE DEF top, Normal
      <4>2. QED
        BY <3>3, <4>1
    <3>5. e # 0 => ~Normal(e - 1)
      BY <3>2, <3>4
    <3>6. QED
      BY <3>3, <3>5
  <2>5. exponent \in 0..top /\ Normal(exponent)
    <3> HIDE DEF Normal, top
    <3>1. QED
      BY <2>4, Zenon
  <2>6. P \in Nat \ {0} /\ N * P >= half * D
    <3>1. exponent \in Nat
      BY <2>5
    <3>2. P \in Nat /\ P > 0
      BY <3>1, PowerCounts, Zenon
    <3>3. N * P >= half * D
      BY <2>5, Zenon
    <3> HIDE DEF P
    <3>4. QED
      BY <3>2, <3>3
  <2> HIDE DEF P, exponent, half, Normal, top, N, D
  <2>7. N * P \in Nat
    BY <1>x, <2>6, SMT
  <2> DEFINE R == Nearest(N * P, D)
  <2>8. /\ R \in Nat /\ 2 * (R * D - N * P) <= D /\ 2 * (N * P - R * D) <= D
        /\ \A v \in Nat : N * P = v * D => R = v
    BY <1>x, <2>7, NearestIsNear
  <2>9. \A v \in Nat : N = v * D => R = v * P
    <3> SUFFICES ASSUME NEW v \in Nat, N = v * D PROVE R = v * P
      OBVIOUS
    <3>1. N * P = (v * P) * D /\ v * P \in Nat
      BY <1>x, <2>6, SMT
    <3>2. QED
      BY <2>8, <3>1
  <2>10. 2^MantissaBits * D <= 2 * (N * P)
    <3>1. (2 * half) * D = 2 * (half * D) /\ half * D \in Nat
      BY <1>x, <2>2, SMT
    <3>2. 2 * (half * D) <= 2 * (N * P)
      <4> DEFINE a == half * D
                 b == N * P
      <4>1. a \in Nat /\ b \in Nat /\ a <= b
        BY <2>6, <2>7, <3>1
      <4> HIDE DEF a, b
      <4>2. 2 * a <= 2 * b
        BY <4>1
      <4>3. QED
        BY <4>2 DEF a, b
    <3>3. QED
      BY <2>2, <3>1, <3>2, Zenon
  <2>11. Near(x, R, P)
    <3> HIDE DEF R
    <3>1. QED
      BY <2>8, <2>9, <2>10, Zenon DEF Near, N, D
  <2>12. QED
    BY <2>1, <2>6, <2>8, <2>11, Zenon
<1>3. QED
  BY <1>1, <1>2

\* Two roundings and a product are off by less than a tenth, while the numbers
\* leave four bits and a half of a double free (H is 2^MantissaBits).
LEMMA RoundingsAreSmall ==
  ASSUME NEW N \in Nat \ {0}, NEW m \in Nat \ {0}, NEW H \in Nat,
         NEW Q \in Nat, NEW P \in Nat \ {0}, NEW R \in Nat, NEW S \in Nat \ {0},
         21 * ((N + 1) * m) <= 10 * H,
         2 * (Q * 10 - N * P) <= 10, 2 * (N * P - Q * 10) <= 10,
         H * 10 <= 2 * (N * P),
         2 * (R * P - (Q * m) * S) <= P, 2 * ((Q * m) * S - R * P) <= P,
         H * P <= 2 * ((Q * m) * S)
  PROVE  10 * R - (N * m) * S < S /\ (N * m) * S - 10 * R < S
<1> DEFINE A   == N * m
           T   == S * P
           AT  == A * T
           mS  == m * S
           mT  == m * T
           HT  == H * T
           HP  == H * P
           HmS == H * mS
           NP  == N * P
           QmS == (Q * m) * S
           RP  == R * P
<1>1. /\ A \in Nat /\ T \in Nat \ {0} /\ mS \in Nat \ {0} /\ AT \in Nat /\ mT \in Nat
      /\ HT \in Nat /\ HP \in Nat /\ HmS \in Nat /\ NP \in Nat /\ QmS \in Nat /\ RP \in Nat
  <2>1. A \in Nat /\ NP \in Nat /\ RP \in Nat /\ HP \in Nat
    BY SMT
  <2>2. T \in Nat /\ T # 0 /\ mS \in Nat /\ mS # 0
    <3>1. S * P >= 1 * P /\ m * S >= 1 * S
      BY SMT
    <3>2. S * P \in Nat /\ m * S \in Nat
      BY SMT
    <3>3. QED
      BY <3>1, <3>2
  <2> HIDE DEF A, T, mS
  <2>3. AT \in Nat /\ mT \in Nat /\ HT \in Nat /\ HmS \in Nat
    BY <2>1, <2>2, SMT
  <2>4. QmS \in Nat
    <3>1. Q * m \in Nat
      BY SMT
    <3>2. QED
      BY <3>1, SMT
  <2>5. QED
    BY <2>1, <2>2, <2>3, <2>4
<1>2. 21 * A + 21 * m <= 10 * H
  <2>1. (N + 1) * m = N * m + m
    BY SMT
  <2>2. QED
    BY <1>1, <2>1
<1>3. P >= 11
  <2>1. A >= N
    <3>1. N * 1 <= N * m
      BY SMT
    <3>2. QED
      BY <3>1
  <2>2. 5 * H <= NP
    BY <1>1
  <2>3. 21 * N + 21 <= 2 * NP
    <3> HIDE DEF A, NP
    <3>1. QED
      BY <1>1, <1>2, <2>1, <2>2
  <2>4. ASSUME P <= 10 PROVE FALSE
    <3>1. N * P <= N * 10
      BY <2>4, SMT
    <3>2. QED
      BY <1>1, <2>3, <3>1
  <2>5. QED
    BY <2>4
\* The unit of the first rounding, scaled, is small; so is that of the second.
<1>4. 5 * HmS <= AT
  <2>1. 5 * H <= NP
    BY <1>1
  <2>2. (5 * H) * mS <= NP * mS
    <3> HIDE DEF NP, mS
    <3>1. 5 * H \in Int
      OBVIOUS
    <3>2. QED
      BY <1>1, <2>1, <3>1, TimesGrows
  <2>3. (5 * H) * mS = 5 * HmS
    <3> HIDE DEF mS
    <3>1. QED
      BY <1>1, SMT
  <2>4. NP * mS = AT
    <3>1. (N * P) * (m * S) = (N * m) * (S * P)
      BY SMT
    <3>2. QED
      BY <3>1
  <2>5. QED
    BY <2>2, <2>3, <2>4, Zenon
<1>5. 10 * HP <= 2 * AT + 10 * mS
  <2>1. HP <= 2 * QmS
    OBVIOUS
  <2>2. 10 * Q <= NP + 5
    BY <1>1
  <2>3. (10 * Q) * mS <= (NP + 5) * mS
    <3> HIDE DEF NP, mS
    <3>1. 10 * Q \in Int /\ NP + 5 \in Int
      BY <1>1
    <3>2. QED
      BY <1>1, <2>2, <3>1, TimesGrows
  <2>4. (NP + 5) * mS = AT + 5 * mS
    <3>1. (N * P) * (m * S) = (N * m) * (S * P)
      BY SMT
    <3>2. NP * mS = AT
      BY <3>1
    <3> HIDE DEF NP, mS, AT
    <3>3. (NP + 5) * mS = NP * mS + 5 * mS
      BY <1>1, SMT
    <3>4. QED
      BY <3>2, <3>3
  <2>5. (10 * Q) * mS = 10 * QmS
    <3>1. (10 * Q) * (m * S) = 10 * ((Q * m) * S)
      BY SMT
    <3>2. QED
      BY <3>1
  <2>6. 10 * QmS <= AT + 5 * mS
    BY <2>3, <2>4, <2>5, Zenon
  <2> HIDE DEF HP, QmS, AT, mS
  <2>7. QED
    BY <1>1, <2>1, <2>6
<1>6. 21 * AT + 21 * mT <= 10 * HT
  <2>1. (21 * A + 21 * m) * T <= (10 * H) * T
    <3> HIDE DEF A, T
    <3>1. 21 * A + 21 * m \in Int /\ 10 * H \in Int /\ T \in Nat
      BY <1>1
    <3>2. QED
      BY <1>2, <3>1, TimesGrows
  <2>2. (21 * A + 21 * m) * T = 21 * AT + 21 * mT /\ (10 * H) * T = 10 * HT
    <3> HIDE DEF A, T
    <3>1. QED
      BY <1>1, SMT
  <2>3. QED
    BY <2>1, <2>2, Zenon
<1>7. 11 * mS <= mT
  <2>1. 11 * mS <= P * mS
    <3> HIDE DEF mS
    <3>1. QED
      BY <1>1, <1>3, TimesGrows
  <2>2. P * (m * S) = m * (S * P)
    BY SMT
  <2>3. QED
    BY <2>1, <2>2, Zenon
<1>8. 5 * P + 5 * mS < T
  <2> SUFFICES ASSUME T <= 5 * P + 5 * mS PROVE FALSE
    <3> HIDE DEF T, mS
    <3>1. QED
      BY <1>1
  <2>1. T * (2 * H) <= (5 * P + 5 * mS) * (2 * H)
    <3> HIDE DEF T, mS
    <3>1. 5 * P + 5 * mS \in Int /\ 2 * H \in Nat
      BY <1>1
    <3>2. QED
      BY <1>1, <3>1, TimesGrows
  <2>2. T * (2 * H) = 2 * HT /\ (5 * P + 5 * mS) * (2 * H) = 10 * HP + 10 * HmS
    <3> HIDE DEF T, mS
    <3>1. QED
      BY <1>1, SMT
  <2>3. 2 * HT <= 10 * HP + 10 * HmS
    BY <2>1, <2>2, Zenon
  <2> HIDE DEF A, T, AT, mS, mT, HT, HP, HmS
  <2>4. QED
    BY <1>1, <1>4, <1>5, <1>6, <1>7, <2>3
\* Both roundings together, P times.
<1> DEFINE tenR == (10 * R) * P
           tenQ == (10 * Q) * mS
<1>9. /\ tenR - AT <= 5 * P + 5 * mS /\ AT - tenR <= 5 * P + 5 * mS
      /\ tenR \in Int
  <2>1. tenR = 10 * RP /\ tenQ = 10 * QmS /\ tenR \in Int /\ tenQ \in Int
    <3>1. (10 * R) * P = 10 * (R * P) /\ (10 * Q) * (m * S) = 10 * ((Q * m) * S)
      BY SMT
    <3>2. tenR = 10 * RP /\ tenQ = 10 * QmS
      BY <3>1, Zenon
    <3> HIDE DEF RP, QmS, tenR, tenQ
    <3>3. QED
      BY <1>1, <3>2
  <2>2. 2 * RP - 2 * QmS <= P /\ 2 * QmS - 2 * RP <= P
    BY <1>1
  <2>3. (10 * Q) * mS <= (NP + 5) * mS /\ NP * mS <= (10 * Q + 5) * mS
    <3>1. 10 * Q <= NP + 5 /\ NP <= 10 * Q + 5
      BY <1>1
    <3> HIDE DEF NP, mS
    <3>2. 10 * Q \in Int /\ NP + 5 \in Int /\ 10 * Q + 5 \in Int
      BY <1>1
    <3>3. QED
      BY <1>1, <3>1, <3>2, TimesGrows
  <2>4. (NP + 5) * mS = AT + 5 * mS /\ NP * mS = AT
    <3>1. (N * P) * (m * S) = (N * m) * (S * P)
      BY SMT
    <3>2. NP * mS = AT
      BY <3>1
    <3> HIDE DEF NP, mS, AT
    <3>3. (NP + 5) * mS = NP * mS + 5 * mS
      BY <1>1, SMT
    <3>4. QED
      BY <3>2, <3>3
  <2>5. (10 * Q + 5) * mS = tenQ + 5 * mS
    <3> HIDE DEF mS
    <3>1. QED
      BY <1>1, SMT
  <2>6. tenQ <= AT + 5 * mS /\ AT <= tenQ + 5 * mS
    BY <2>3, <2>4, <2>5, Zenon
  <2> HIDE DEF tenR, tenQ, AT, mS, RP, QmS
  <2>7. QED
    BY <1>1, <2>1, <2>2, <2>6
<1>10. tenR - AT < T /\ AT - tenR < T
  <2> HIDE DEF tenR, AT, T, mS
  <2>1. QED
    BY <1>1, <1>8, <1>9
\* Divided by P.
<1> DEFINE AS == A * S
           over == 10 * R - AS
<1>11. over \in Int /\ over * P = tenR - AT
  <2>1. AS \in Int
    <3> HIDE DEF A
    <3>1. QED
      BY <1>1, SMT
  <2>2. AS * P = AT
    <3>1. ((N * m) * S) * P = (N * m) * (S * P)
      BY SMT
    <3>2. QED
      BY <3>1
  <2> HIDE DEF AS, AT, A
  <2>3. (10 * R - AS) * P = (10 * R) * P - AS * P
    BY <2>1, SMT
  <2>4. QED
    BY <2>1, <2>2, <2>3
<1>12. over < S
  <2> SUFFICES ASSUME S <= over PROVE FALSE
    <3> HIDE DEF over
    <3>1. QED
      BY <1>11
  <2> HIDE DEF over, tenR, AT
  <2>1. S * P <= over * P
    BY <1>11, TimesGrows
  <2>2. QED
    BY <1>1, <1>9, <1>10, <1>11, <2>1
<1>13. -over < S
  <2> SUFFICES ASSUME S <= -over PROVE FALSE
    <3> HIDE DEF over
    <3>1. QED
      BY <1>11
  <2> HIDE DEF over, tenR, AT
  <2>1. S * P <= (-over) * P /\ (-over) * P = -(over * P)
    BY <1>11, TimesGrows, SMT
  <2>2. QED
    BY <1>1, <1>9, <1>10, <1>11, <2>1
<1>14. AS \in Int
  <2> HIDE DEF A
  <2>1. QED
    BY <1>1, SMT
<1>15. QED
  <2>1. over = 10 * R - AS /\ AS = (N * m) * S
    OBVIOUS
  <2> HIDE DEF over, AS
  <2>2. 10 * R - AS < S /\ AS - 10 * R < S
    BY <1>11, <1>12, <1>13, <1>14, <2>1
  <2>3. QED
    BY <2>1, <2>2, Zenon

\* What static_cast<int64_t> leaves of the product.
LEMMA TruncationIsClose ==
  ASSUME NEW A \in Nat, NEW R \in Nat, NEW S \in Nat \ {0},
         10 * R - A * S < S, A * S - 10 * R < S
  PROVE  /\ R \div S = A \div 10 \/ R \div S = A \div 10 - 1
         /\ A % 10 # 0 => R \div S = A \div 10
<1> DEFINE c == R \div S
           r == R % S
           s == A \div 10
           u == A % 10
           g == c - s
<1>1. /\ c \in Nat /\ r \in 0..(S - 1) /\ R = S * c + r
      /\ s \in Nat /\ u \in 0..9 /\ A = 10 * s + u
  BY SMT
<1> HIDE DEF c, r, s, u
<1>2. 10 * R - A * S = (10 * g - u) * S + 10 * r /\ g \in Int
  BY <1>1, SMT
<1>3. g <= 0
  <2> SUFFICES ASSUME g >= 1 PROVE FALSE
    BY <1>2
  <2>1. 1 * S <= (10 * g - u) * S
    <3>1. 1 <= 10 * g - u /\ 10 * g - u \in Int
      BY <1>1, <1>2
    <3>2. QED
      BY <3>1, TimesGrows
  <2>2. QED
    <3> DEFINE k == (10 * g - u) * S
    <3>1. k \in Int
      BY <1>1, <1>2, SMT
    <3> HIDE DEF k
    <3>2. S <= k /\ 10 * R - A * S = k + 10 * r
      BY <1>2, <2>1 DEF k
    <3>3. QED
      BY <1>1, <3>1, <3>2
<1>4. 10 * g - u > -11
  <2> SUFFICES ASSUME 10 * g - u <= -11 PROVE FALSE
    BY <1>1, <1>2
  <2>1. (10 * g - u) * S <= (-11) * S
    <3>1. 10 * g - u \in Int
      BY <1>1, <1>2
    <3>2. QED
      BY <3>1, TimesGrows
  <2>2. QED
    <3> DEFINE k == (10 * g - u) * S
    <3>1. k \in Int
      BY <1>1, <1>2, SMT
    <3> HIDE DEF k
    <3>2. k <= (-11) * S /\ 10 * R - A * S = k + 10 * r
      BY <1>2, <2>1 DEF k
    <3>3. QED
      BY <1>1, <3>1, <3>2
<1>5. g >= -1 /\ (u # 0 => g >= 0)
  BY <1>1, <1>2, <1>4
<1>6. c = s \/ (c = s - 1 /\ u = 0)
  BY <1>1, <1>3, <1>5
<1>7. QED
  BY <1>6 DEF c, s, u

-----------------------------------------------------------------------------
(* Counters                                                                *)

\* One part more is joined at the end.
LEMMA FlattenAppend ==
  ASSUME NEW Char, NEW parts \in Seq(Seq(Char)), NEW part \in Seq(Char)
  PROVE  FlattenSeq(Append(parts, part)) = FlattenSeq(parts) \o part
<1> DEFINE more == Append(parts, part)
           n    == Len(parts)
<1>1. /\ n \in Nat /\ more \in Seq(Seq(Char)) /\ Len(more) = n + 1 /\ Len(more) # 0
      /\ more[n + 1] = part /\ \A i \in 1..n : more[i] = parts[i]
  OBVIOUS
<1>2. PICK g \in [1..Len(more) -> Seq(Char)] :
        Joined(g, more, Len(more)) /\ FlattenSeq(more) = g[Len(more)]
  <2> HIDE DEF more
  <2>1. QED
    BY <1>1, FlattenJoins
<1> HIDE DEF more, n
<1>3. CASE n = 0
  <2>1. g[1] = part /\ FlattenSeq(more) = part
    BY <1>1, <1>2, <1>3 DEF Joined
  <2>2. parts = <<>>
    BY <1>3 DEF n
  <2>3. FlattenSeq(parts) = <<>>
    BY <2>2 DEF FlattenSeq
  <2>4. QED
    BY <2>1, <2>3 DEF more
<1>4. CASE n # 0
  <2>1. PICK f \in [1..n -> Seq(Char)] :
          Joined(f, parts, n) /\ FlattenSeq(parts) = f[n]
    BY <1>4, FlattenJoins DEF n
  <2> DEFINE S == {k \in 1..n : g[k] = f[k]}
  <2>2. 1 \in S
    <3>1. 1 \in 1..n /\ 1 \in 1..(n + 1)
      BY <1>1, <1>4
    <3>2. f[1] = parts[1] /\ g[1] = more[1]
      BY <1>1, <1>2, <2>1, <3>1 DEF Joined
    <3>3. QED
      BY <1>1, <3>1, <3>2
  <2>3. ASSUME NEW k \in 1..(n - 1), k \in S PROVE k + 1 \in S
    <3>1. k + 1 \in 1..n /\ k + 1 \in 1..(n + 1) /\ k + 1 # 1 /\ (k + 1) - 1 = k
      BY <1>1
    <3>2. f[k + 1] = f[k] \o parts[k + 1] /\ g[k + 1] = g[k] \o more[k + 1]
      BY <1>1, <1>2, <2>1, <3>1 DEF Joined
    <3>3. QED
      BY <1>1, <2>3, <3>1, <3>2
  <2> HIDE DEF S
  <2>4. 1..n \subseteq S
    BY <1>1, <2>2, <2>3, UpTo
  <2>5. g[n] = f[n]
    BY <1>1, <1>4, <2>4 DEF S
  <2>6. g[n + 1] = g[n] \o more[n + 1]
    <3>1. n + 1 \in 1..(n + 1) /\ n + 1 # 1 /\ (n + 1) - 1 = n
      BY <1>1, <1>4
    <3>2. QED
      BY <1>1, <1>2, <3>1 DEF Joined
  <2>7. QED
    BY <1>1, <1>2, <2>1, <2>5, <2>6 DEF more
<1>5. QED
  BY <1>3, <1>4

\* push_back adds characters of a text.
LEMMA KeptType ==
  ASSUME NEW Char, "." \in Char, NEW c \in Char
  PROVE  Kept(c) \in Seq(Char)
<1>1. Kept(c) = <<c>> \/ Kept(c) = <<".">> \/ Kept(c) = <<>>
  BY Zenon DEF Kept
<1>2. QED
  BY <1>1, ShortSequences, Zenon

\* ParseCount goes through a text character by character.
LEMMA CleanedAppend ==
  ASSUME NEW Char, "." \in Char, NEW raw \in Seq(Char), NEW c \in Char
  PROVE  Cleaned(Append(raw, c)) = Cleaned(raw) \o Kept(c)
<1> DEFINE parts == [i \in DOMAIN raw |-> Kept(raw[i])]
           more  == Append(raw, c)
<1>1. parts \in Seq(Seq(Char))
  <2>1. \A i \in 1..Len(raw) : Kept(raw[i]) \in Seq(Char)
    BY KeptType
  <2>2. QED
    BY <2>1
<1>2. Kept(c) \in Seq(Char)
  BY KeptType
<1>3. [i \in DOMAIN more |-> Kept(more[i])] = Append(parts, Kept(c))
  OBVIOUS
<1>4. Cleaned(more) = FlattenSeq(Append(parts, Kept(c)))
  BY <1>3, Zenon DEF Cleaned
<1>5. Cleaned(raw) = FlattenSeq(parts)
  BY Zenon DEF Cleaned
<1> HIDE DEF parts, more
<1>6. QED
  BY <1>1, <1>2, <1>4, <1>5, FlattenAppend, Zenon DEF more

NumeralCharacters == {"0", "1", "2", "3", "4", "5", "6", "7", "8", "9"}

\* Each digit has its numeral, and nothing else is one.
LEMMA NumeralFacts ==
  /\ \A d \in 0..9 : /\ Numerals[d + 1] \in NumeralCharacters
                     /\ IsNumeral(Numerals[d + 1]) /\ Value(Numerals[d + 1]) = d
  /\ \A c : IsNumeral(c) <=> c \in NumeralCharacters
<1>1. \A i, j \in 1..10 : Numerals[i] = Numerals[j] => i = j
  BY SMT DEF Numerals
<1>2. ASSUME NEW d \in 0..9
      PROVE  /\ Numerals[d + 1] \in NumeralCharacters
             /\ IsNumeral(Numerals[d + 1]) /\ Value(Numerals[d + 1]) = d
  <2>1. d + 1 \in 1..10
    OBVIOUS
  <2>2. Numerals[d + 1] \in NumeralCharacters
    BY SMT DEF Numerals, NumeralCharacters
  <2>3. IsNumeral(Numerals[d + 1])
    BY <2>1, Zenon DEF IsNumeral
  <2>4. \A v \in 0..9 : Numerals[v + 1] = Numerals[d + 1] => v = d
    <3>1. \A v \in 0..9 : v + 1 \in 1..10 /\ (v + 1 = d + 1 => v = d)
      OBVIOUS
    <3>2. QED
      BY <1>1, <2>1, <3>1, Zenon
  <2>5. QED
    BY <2>2, <2>3, <2>4, Zenon DEF Value
<1>3. ASSUME NEW c PROVE IsNumeral(c) <=> c \in NumeralCharacters
  <2>1. /\ Numerals[1] = "0" /\ Numerals[2] = "1" /\ Numerals[3] = "2"
        /\ Numerals[4] = "3" /\ Numerals[5] = "4" /\ Numerals[6] = "5"
        /\ Numerals[7] = "6" /\ Numerals[8] = "7" /\ Numerals[9] = "8"
        /\ Numerals[10] = "9"
    BY DEF Numerals
  <2>2. \A d \in 1..10 : \/ d = 1 \/ d = 2 \/ d = 3 \/ d = 4 \/ d = 5
                         \/ d = 6 \/ d = 7 \/ d = 8 \/ d = 9 \/ d = 10
    OBVIOUS
  <2>3. /\ 1 \in 1..10 /\ 2 \in 1..10 /\ 3 \in 1..10 /\ 4 \in 1..10 /\ 5 \in 1..10
        /\ 6 \in 1..10 /\ 7 \in 1..10 /\ 8 \in 1..10 /\ 9 \in 1..10 /\ 10 \in 1..10
    OBVIOUS
  <2>4. IsNumeral(c) => c \in NumeralCharacters
    <3> SUFFICES ASSUME IsNumeral(c) PROVE c \in NumeralCharacters
      OBVIOUS
    <3>1. PICK d \in 1..10 : Numerals[d] = c
      BY Zenon DEF IsNumeral
    <3>2. QED
      BY <2>1, <2>2, <3>1, Zenon DEF NumeralCharacters
  <2>5. c \in NumeralCharacters => IsNumeral(c)
    BY <2>1, <2>3, Zenon DEF IsNumeral, NumeralCharacters
  <2>6. QED
    BY <2>4, <2>5
<1>4. QED
  BY <1>2, <1>3

\* amount[k] is the number that the first k characters write.
Amounts(text, amount) ==
  /\ amount \in [0..Len(text) -> Nat]
  /\ amount[0] = 0
  /\ \A k \in 1..Len(text) :
       amount[k] = IF IsNumeral(text[k]) THEN 10 * amount[k - 1] + Value(text[k])
                                         ELSE amount[k - 1]

\* Read does what its recursive function says.
LEMMA ReadIsAmount ==
  ASSUME NEW Char, NEW text \in Seq(Char), NEW amount, Amounts(text, amount)
  PROVE  Read(text) = amount
<1> DEFINE n == Len(text)
           Step(g) == [k \in 0..n |->
                         IF k = 0 THEN 0
                         ELSE IF IsNumeral(text[k]) THEN 10 * g[k - 1] + Value(text[k])
                         ELSE g[k - 1]]
           read == CHOOSE g : g = Step(g)
<1>n. n \in Nat
  OBVIOUS
<1>1. amount = Step(amount)
  <2>1. amount = [k \in 0..n |-> amount[k]]
    BY DEF Amounts
  <2>2. \A k \in 0..n : amount[k] = Step(amount)[k]
    <3>1. ASSUME NEW k \in 0..n PROVE amount[k] = Step(amount)[k]
      <4>1. CASE k = 0
        BY <4>1 DEF Amounts
      <4>2. CASE k # 0
        <5>1. k \in 1..n
          BY <4>2
        <5>2. QED
          BY <4>2, <5>1 DEF Amounts
      <4>3. QED
        BY <4>1, <4>2
    <3>2. QED
      BY <3>1
  <2>3. Step(amount) = [k \in 0..n |-> Step(amount)[k]]
    BY Zenon
  <2> HIDE DEF Step
  <2>4. QED
    BY <2>1, <2>2, <2>3
<1>2. read = Step(read)
  <2> HIDE DEF Step
  <2>1. QED
    BY <1>1, Zenon
<1>3. Read(text) = read
  BY Zenon DEF Read
<1> HIDE DEF read
<1>4. /\ read = [k \in 0..n |-> read[k]] /\ read[0] = 0
      /\ \A k \in 1..n :
           read[k] = IF IsNumeral(text[k]) THEN 10 * read[k - 1] + Value(text[k])
                                           ELSE read[k - 1]
  <2>1. \A k \in 0..n : read[k] = Step(read)[k]
    BY <1>2, Zenon
  <2>2. 0 \in 0..n /\ \A k \in 1..n : k \in 0..n /\ k # 0
    BY <1>n
  <2>3. DOMAIN read = 0..n /\ read = [k \in DOMAIN read |-> read[k]]
    <3>1. DOMAIN Step(read) = 0..n
      BY Zenon
    <3>2. Step(read) = [k \in DOMAIN Step(read) |-> Step(read)[k]]
      BY Zenon
    <3> HIDE DEF Step
    <3>3. QED
      BY <1>2, <3>1, <3>2, Zenon
  <2>4. QED
    BY <2>1, <2>2, <2>3
<1> DEFINE S == {k \in 1..(n + 1) : read[k - 1] = amount[k - 1]}
<1>5. 1 \in S
  BY <1>n, <1>4 DEF Amounts
<1>6. ASSUME NEW k \in 1..((n + 1) - 1), k \in S PROVE k + 1 \in S
  <2>1. k \in 1..n /\ k + 1 \in 1..(n + 1) /\ (k + 1) - 1 = k
    BY <1>n
  <2>2. read[k - 1] = amount[k - 1]
    BY <1>6
  <2>3. read[k] = amount[k]
    BY <1>4, <2>1, <2>2 DEF Amounts
  <2>4. QED
    BY <2>1, <2>3
<1> HIDE DEF S
<1>7. 1..(n + 1) \subseteq S
  <2>1. n + 1 \in Nat
    BY <1>n
  <2>2. QED
    BY <1>5, <1>6, <2>1, UpTo
<1>8. \A k \in 0..n : read[k] = amount[k]
  <2>1. \A k \in 0..n : k + 1 \in 1..(n + 1) /\ (k + 1) - 1 = k
    BY <1>n
  <2>2. QED
    BY <1>7, <2>1 DEF S
<1>9. amount = [k \in 0..n |-> amount[k]]
  BY DEF Amounts
<1>10. QED
  BY <1>3, <1>4, <1>8, <1>9

\* A text of numerals that writes n.
Figures(text, n) ==
  /\ text \in Seq(NumeralCharacters) /\ Len(text) # 0
  /\ \E amount : Amounts(text, amount) /\ amount[Len(text)] = n

\* One numeral more.
LEMMA FiguresAppend ==
  ASSUME NEW text, NEW n \in Nat, Figures(text, n), NEW d \in 0..9
  PROVE  Figures(Append(text, Numerals[d + 1]), 10 * n + d)
<1> DEFINE c    == Numerals[d + 1]
           more == Append(text, c)
           l    == Len(text)
<1>1. c \in NumeralCharacters /\ IsNumeral(c) /\ Value(c) = d
  BY NumeralFacts, Zenon
<1> HIDE DEF c
<1>2. /\ l \in Nat /\ more \in Seq(NumeralCharacters) /\ Len(more) = l + 1
      /\ more[l + 1] = c /\ \A i \in 1..l : more[i] = text[i]
  BY <1>1 DEF Figures
<1>3. PICK amount : Amounts(text, amount) /\ amount[l] = n
  BY Zenon DEF Figures
<1> HIDE DEF more, l
<1>4. /\ amount \in [0..l -> Nat] /\ amount[0] = 0
      /\ \A k \in 1..l :
           amount[k] = IF IsNumeral(text[k]) THEN 10 * amount[k - 1] + Value(text[k])
                                             ELSE amount[k - 1]
  BY <1>3 DEF Amounts, l
<1> DEFINE next == [k \in 0..(l + 1) |-> IF k = l + 1 THEN 10 * n + d ELSE amount[k]]
<1>5. Amounts(more, next)
  <2>1. next \in [0..(l + 1) -> Nat] /\ next[0] = 0
    BY <1>2, <1>4
  <2>2. ASSUME NEW k \in 1..(l + 1)
        PROVE  next[k] = IF IsNumeral(more[k]) THEN 10 * next[k - 1] + Value(more[k])
                                               ELSE next[k - 1]
    <3>1. CASE k = l + 1
      <4>1. next[k] = 10 * n + d /\ next[k - 1] = n
        BY <1>2, <1>3, <3>1
      <4>2. IsNumeral(more[k]) /\ Value(more[k]) = d
        BY <1>1, <1>2, <3>1, Zenon
      <4>3. QED
        BY <4>1, <4>2
    <3>2. CASE k # l + 1
      <4>1. k \in 1..l /\ next[k] = amount[k] /\ next[k - 1] = amount[k - 1]
        BY <1>2, <3>2
      <4>2. QED
        BY <1>2, <1>4, <4>1
    <3>3. QED
      BY <3>1, <3>2
  <2> HIDE DEF next
  <2>3. QED
    BY <1>2, <2>1, <2>2 DEF Amounts
<1>6. next[l + 1] = 10 * n + d /\ l + 1 # 0
  BY <1>2
<1> HIDE DEF next
<1>7. QED
  BY <1>2, <1>5, <1>6, Zenon DEF Figures, more, c

\* A numeral alone.
LEMMA FiguresOne ==
  ASSUME NEW d \in 0..9
  PROVE  Figures(<<Numerals[d + 1]>>, d)
<1> DEFINE c == Numerals[d + 1]
           amount == [k \in 0..1 |-> IF k = 0 THEN 0 ELSE d]
<1>1. c \in NumeralCharacters /\ IsNumeral(c) /\ Value(c) = d
  BY NumeralFacts, Zenon
<1> HIDE DEF c
<1>2. <<c>> \in Seq(NumeralCharacters) /\ Len(<<c>>) = 1 /\ <<c>>[1] = c
  BY <1>1
<1>3. amount \in [0..1 -> Nat] /\ amount[0] = 0 /\ amount[1] = d
  OBVIOUS
<1> HIDE DEF amount
<1>4. Amounts(<<c>>, amount)
  <2>1. \A k \in 1..1 : k = 1 /\ k - 1 = 0
    OBVIOUS
  <2>2. IsNumeral(<<c>>[1]) /\ amount[1] = 10 * amount[0] + Value(<<c>>[1])
    <3>1. d = 10 * 0 + d
      OBVIOUS
    <3>2. QED
      BY <1>1, <1>2, <1>3, <3>1, Zenon
  <2>3. QED
    BY <1>2, <1>3, <2>1, <2>2 DEF Amounts
<1>5. QED
  BY <1>2, <1>3, <1>4 DEF Figures, c

\* Digits does what its recursive function says.
LEMMA DigitsUnfold ==
  \A n \in 0..MaxWhole :
    Digits[n] = IF n < 10 THEN <<Numerals[n + 1]>>
                ELSE Digits[n \div 10] \o <<"nbsp", Numerals[(n % 10) + 1]>>
<1> DEFINE Char == {"nbsp"} \union NumeralCharacters
           One(n) == <<Numerals[n + 1]>>
           Two(n) == <<"nbsp", Numerals[(n % 10) + 1]>>
           Written10(f, k) == \A n \in 0..k :
                           f[n] = IF n < 10 THEN One(n) ELSE f[n \div 10] \o Two(n)
           S == {k \in 1..(MaxWhole + 1) :
                   \E f \in [0..(k - 1) -> Seq(Char)] : Written10(f, k - 1)}
<1>m. MaxWhole \in Nat
  BY NumberAssumption
<1>1. ASSUME NEW n \in Nat
      PROVE  /\ n < 10 => One(n) \in Seq(Char)
             /\ Two(n) \in Seq(Char)
             /\ n >= 10 => n \div 10 \in 0..(n - 1)
  <2>1. n < 10 => One(n) \in Seq(Char)
    <3>1. n < 10 => Numerals[n + 1] \in Char
      BY NumeralFacts
    <3> HIDE DEF Char
    <3>2. QED
      BY <3>1
  <2>2. Two(n) \in Seq(Char)
    <3>1. n % 10 \in 0..9
      BY SMT
    <3>2. Numerals[(n % 10) + 1] \in Char /\ "nbsp" \in Char
      BY <3>1, NumeralFacts, Zenon
    <3> HIDE DEF Char
    <3>3. QED
      BY <3>2, ShortSequences, Zenon
  <2>3. n >= 10 => n \div 10 \in 0..(n - 1)
    BY SMT
  <2>4. QED
    BY <2>1, <2>2, <2>3, Zenon
<1> HIDE DEF Char, One, Two
<1>2. 1 \in S
  <2> DEFINE f == [n \in 0..0 |-> One(n)]
  <2>1. f \in [0..0 -> Seq(Char)] /\ Written10(f, 0)
    BY <1>1
  <2> HIDE DEF f
  <2>2. 1 \in 1..(MaxWhole + 1) /\ 1 - 1 = 0
    BY <1>m
  <2>3. QED
    BY <2>1, <2>2
<1>3. ASSUME NEW k \in 1..((MaxWhole + 1) - 1), k \in S PROVE k + 1 \in S
  <2>1. PICK f \in [0..(k - 1) -> Seq(Char)] : Written10(f, k - 1)
    BY <1>3
  <2> DEFINE value == IF k < 10 THEN One(k) ELSE f[k \div 10] \o Two(k)
             g == [n \in 0..k |-> IF n = k THEN value ELSE f[n]]
  <2>n. k \in Nat
    BY <1>m
  <2>2. k \in Nat /\ (k >= 10 => k \div 10 \in 0..(k - 1))
    BY <1>1, <2>n, Zenon
  <2>3. value \in Seq(Char)
    <3>1. CASE k < 10
      BY <1>1, <2>2, <3>1
    <3>2. CASE ~(k < 10)
      <4>a. k >= 10
        BY <2>n, <3>2
      <4>b. k \div 10 \in 0..(k - 1)
        BY <2>2, <4>a, Zenon
      <4>1. f[k \div 10] \in Seq(Char) /\ Two(k) \in Seq(Char)
        BY <1>1, <2>n, <2>1, <4>b, Zenon
      <4>2. QED
        BY <3>2, <4>1
    <3>3. QED
      BY <3>1, <3>2
  <2>4. g \in [0..k -> Seq(Char)]
    <3> HIDE DEF value
    <3>1. QED
      BY <2>2, <2>3
  <2>5. Written10(g, k)
    <3>1. ASSUME NEW n \in 0..k
          PROVE  g[n] = IF n < 10 THEN One(n) ELSE g[n \div 10] \o Two(n)
      <4>n. n \in Nat
        OBVIOUS
      <4>1. n >= 10 => n \div 10 \in 0..(n - 1)
        BY <1>1, <4>n, Zenon
      <4>2. n >= 10 => n \div 10 \in 0..k /\ n \div 10 # k
        <5> DEFINE half == n \div 10
        <5> HIDE DEF half
        <5>1. n >= 10 => half \in 0..k /\ half # k
          BY <2>2, <4>1 DEF half
        <5>2. QED
          BY <5>1 DEF half
      <4>3. n >= 10 => g[n \div 10] = f[n \div 10]
        BY <4>2, Zenon
      <4>4. CASE n = k
        <5>1. g[n] = value
          BY <4>4
        <5>2. QED
          BY <2>2, <4>3, <4>4, <5>1
      <4>5. CASE n # k
        <5>1. n \in 0..(k - 1) /\ g[n] = f[n]
          BY <2>2, <4>5
        <5>2. f[n] = IF n < 10 THEN One(n) ELSE f[n \div 10] \o Two(n)
          BY <2>1, <5>1
        <5> HIDE DEF g
        <5>3. QED
          BY <4>3, <5>1, <5>2
      <4>6. QED
        BY <4>4, <4>5
    <3> HIDE DEF g
    <3>2. QED
      BY <3>1
  <2>6. k + 1 \in 1..(MaxWhole + 1) /\ (k + 1) - 1 = k
    BY <1>m
  <2> HIDE DEF g, Written10
  <2>7. QED
    BY <2>4, <2>5, <2>6
<1>4. MaxWhole + 1 \in S
  <2> HIDE DEF S
  <2>1. MaxWhole + 1 \in Nat /\ MaxWhole + 1 \in 1..(MaxWhole + 1)
    BY <1>m
  <2>2. 1..(MaxWhole + 1) \subseteq S
    BY <1>2, <1>3, <2>1, UpTo
  <2>3. QED
    BY <2>1, <2>2
<1>5. PICK f \in [0..MaxWhole -> Seq(Char)] : Written10(f, MaxWhole)
  <2>1. (MaxWhole + 1) - 1 = MaxWhole
    BY <1>m
  <2> HIDE DEF Written10
  <2>2. QED
    BY <1>4, <2>1
<1> DEFINE Step(h) == [n \in 0..MaxWhole |->
                         IF n < 10 THEN One(n) ELSE h[n \div 10] \o Two(n)]
<1>6. f = Step(f)
  <2>1. f = [n \in 0..MaxWhole |-> f[n]]
    OBVIOUS
  <2>2. QED
    BY <1>5, <2>1
<1>7. Digits = CHOOSE h : h = Step(h)
  BY Zenon DEF Digits, One, Two
<1>8. Digits = Step(Digits)
  <2> HIDE DEF Step
  <2>1. QED
    BY <1>6, <1>7, Zenon
<1>9. ASSUME NEW n \in 0..MaxWhole
      PROVE  Digits[n] = IF n < 10 THEN One(n) ELSE Digits[n \div 10] \o Two(n)
  BY <1>8, Zenon
<1>10. QED
  BY <1>9, Zenon DEF One, Two

\* What is joined is a text of the same characters.
LEMMA FlattenType ==
  ASSUME NEW Char, NEW parts \in Seq(Seq(Char))
  PROVE  FlattenSeq(parts) \in Seq(Char)
<1>1. CASE Len(parts) = 0
  <2>1. parts = <<>>
    BY <1>1
  <2>2. FlattenSeq(<<>>) = <<>>
    BY DEF FlattenSeq
  <2>3. <<>> \in Seq(Char)
    OBVIOUS
  <2>4. QED
    BY <2>1, <2>2, <2>3
<1>2. CASE Len(parts) # 0
  BY <1>2, FlattenLayout, Zenon
<1>3. QED
  BY <1>1, <1>2

\* What is kept of no character, and of one.
LEMMA CleanedFirst ==
  ASSUME NEW Char, "." \in Char
  PROVE  /\ Cleaned(<<>>) = <<>>
         /\ \A c \in Char : Cleaned(<<c>>) = Kept(c)
         /\ \A raw \in Seq(Char) : Cleaned(raw) \in Seq(Char)
<1>1. Cleaned(<<>>) = <<>>
  <2>1. [i \in DOMAIN <<>> |-> Kept(<<>>[i])] = <<>>
    OBVIOUS
  <2>2. FlattenSeq(<<>>) = <<>>
    BY DEF FlattenSeq
  <2>3. QED
    BY <2>1, <2>2, Zenon DEF Cleaned
<1>2. ASSUME NEW c \in Char PROVE Cleaned(<<c>>) = Kept(c)
  <2>1. <<>> \in Seq(Char) /\ Append(<<>>, c) = <<c>>
    OBVIOUS
  <2>2. Cleaned(<<c>>) = <<>> \o Kept(c)
    BY <1>1, <2>1, CleanedAppend
  <2>3. Kept(c) \in Seq(Char)
    BY KeptType
  <2> DEFINE k == Kept(c)
  <2> HIDE DEF k
  <2>4. k \in Seq(Char) => <<>> \o k = k
    OBVIOUS
  <2>5. QED
    BY <2>2, <2>3, <2>4 DEF k
<1>3. ASSUME NEW raw \in Seq(Char) PROVE Cleaned(raw) \in Seq(Char)
  <2> DEFINE parts == [i \in DOMAIN raw |-> Kept(raw[i])]
  <2>1. parts \in Seq(Seq(Char))
    <3>1. \A i \in 1..Len(raw) : Kept(raw[i]) \in Seq(Char)
      BY KeptType
    <3>2. QED
      BY <3>1
  <2> HIDE DEF parts
  <2>2. QED
    BY <2>1, FlattenType, Zenon DEF Cleaned, parts
<1>4. QED
  BY <1>1, <1>2, <1>3

\* Every character is kept or not on its own.
LEMMA CleanedJoins ==
  ASSUME NEW Char, "." \in Char, NEW a \in Seq(Char), NEW b \in Seq(Char)
  PROVE  Cleaned(a \o b) = Cleaned(a) \o Cleaned(b)
<1> DEFINE n == Len(b)
           Part(k) == SubSeq(b, 1, k)
           S == {k \in 1..(n + 1) :
                   Cleaned(a \o Part(k - 1)) = Cleaned(a) \o Cleaned(Part(k - 1))}
<1>n. n \in Nat
  OBVIOUS
<1>e. Cleaned(<<>>) = <<>>
  BY CleanedFirst
<1>c. ASSUME NEW text \in Seq(Char) PROVE Cleaned(text) \in Seq(Char)
  BY CleanedFirst
<1>1. 1 \in S
  <2>1. Part(0) = <<>> /\ a \o <<>> = a
    OBVIOUS
  <2>2. Cleaned(a) \o <<>> = Cleaned(a)
    BY <1>c
  <2>3. 1 \in 1..(n + 1) /\ 1 - 1 = 0
    BY <1>n
  <2> HIDE DEF Part
  <2>4. QED
    BY <1>e, <2>1, <2>2, <2>3
<1>2. ASSUME NEW k \in 1..((n + 1) - 1), k \in S PROVE k + 1 \in S
  <2>1. k \in 1..n /\ k + 1 \in 1..(n + 1) /\ (k + 1) - 1 = k
    BY <1>n
  <2>2. /\ Part(k - 1) \in Seq(Char) /\ b[k] \in Char
        /\ Part(k) = Append(Part(k - 1), b[k])
    BY <2>1
  <2> HIDE DEF Part
  <2>3. /\ a \o Part(k - 1) \in Seq(Char)
        /\ a \o Append(Part(k - 1), b[k]) = Append(a \o Part(k - 1), b[k])
    BY <2>2
  <2>4. Cleaned(a \o Part(k)) = Cleaned(a \o Part(k - 1)) \o Kept(b[k])
    BY <2>2, <2>3, CleanedAppend, Zenon
  <2>5. Cleaned(Part(k)) = Cleaned(Part(k - 1)) \o Kept(b[k])
    BY <2>2, CleanedAppend, Zenon
  <2>6. Kept(b[k]) \in Seq(Char) /\ Cleaned(a) \in Seq(Char)
        /\ Cleaned(Part(k - 1)) \in Seq(Char)
    BY <1>c, <2>2, KeptType
  <2>7. (Cleaned(a) \o Cleaned(Part(k - 1))) \o Kept(b[k])
          = Cleaned(a) \o (Cleaned(Part(k - 1)) \o Kept(b[k]))
    <3> DEFINE x == Cleaned(a)
               y == Cleaned(Part(k - 1))
               z == Kept(b[k])
    <3>1. x \in Seq(Char) /\ y \in Seq(Char) /\ z \in Seq(Char)
      BY <2>6
    <3> HIDE DEF x, y, z
    <3>2. (x \o y) \o z = x \o (y \o z)
      BY <3>1
    <3>3. QED
      BY <3>2 DEF x, y, z
  <2>8. Cleaned(a \o Part(k - 1)) = Cleaned(a) \o Cleaned(Part(k - 1))
    BY <1>2
  <2>9. QED
    BY <2>1, <2>4, <2>5, <2>7, <2>8
<1> HIDE DEF S
<1>3. n + 1 \in S
  <2>1. n + 1 \in Nat /\ n + 1 \in 1..(n + 1)
    BY <1>n
  <2>2. QED
    BY <1>1, <1>2, <2>1, UpTo
<1>4. Part(n) = b /\ (n + 1) - 1 = n
  BY <1>n
<1> HIDE DEF Part
<1>5. QED
  BY <1>3, <1>4 DEF S

\* The characters of a counter but the letters.
PlainCharacters == NumeralCharacters \union {"-", ".", ",", "nbsp"}

\* What push_back adds of each character that Habr writes.
LEMMA KeptCharacters ==
  /\ \A c \in NumeralCharacters : Kept(c) = <<c>>
  /\ Kept("-") = <<"-">> /\ Kept(".") = <<".">> /\ Kept(",") = <<".">>
  /\ Kept("nbsp") = <<>> /\ Kept(" ") = <<>>
  /\ \A c \in Thousands \union Millions : Kept(c) = <<>>
<1>1. \A c \in NumeralCharacters : Kept(c) = <<c>>
  BY NumeralFacts, Zenon DEF Kept
<1>2. \A c : c \notin NumeralCharacters => ~IsNumeral(c)
  BY NumeralFacts, Zenon
<1>3. /\ "," \notin NumeralCharacters /\ "," # "-" /\ "," # "."
      /\ "nbsp" \notin NumeralCharacters /\ "nbsp" \notin {"-", ".", ","}
      /\ " " \notin NumeralCharacters /\ " " \notin {"-", ".", ","}
  BY SMT DEF NumeralCharacters
<1>4. \A c \in Thousands \union Millions : c \notin NumeralCharacters \union {"-", ".", ","}
  <2> DEFINE other == NumeralCharacters \union {"-", ".", ","}
  <2>1. "K" \notin other /\ "k" \notin other /\ "K (Cyrillic)" \notin other
    BY SMT DEF NumeralCharacters
  <2>2. "M" \notin other /\ "m" \notin other /\ "M (Cyrillic)" \notin other
    BY SMT DEF NumeralCharacters
  <2> HIDE DEF other
  <2>3. QED
    BY <2>1, <2>2, Zenon DEF Thousands, Millions, other
<1>5. QED
  BY <1>1, <1>2, <1>3, <1>4, Zenon DEF Kept

\* The spaces between thousands are dropped, and the digits write the number.
LEMMA DigitsAreFigures ==
  ASSUME NEW n \in 0..MaxWhole
  PROVE  /\ Digits[n] \in Seq(PlainCharacters)
         /\ Figures(Cleaned(Digits[n]), n)
<1> DEFINE Right(k) == /\ Digits[k] \in Seq(PlainCharacters)
                       /\ Figures(Cleaned(Digits[k]), k)
           Wrong == {k \in 0..MaxWhole : ~Right(k)}
<1>m. MaxWhole \in Nat
  BY NumberAssumption
<1> HIDE DEF Right
<1>1. SUFFICES ASSUME Wrong # {} PROVE FALSE
  BY DEF Right
<1>2. PICK k \in Wrong : \A l \in Wrong : k <= l
  <2> HIDE DEF Wrong
  <2>1. Wrong \in SUBSET Nat
    BY <1>m DEF Wrong
  <2>2. QED
    BY <1>1, <2>1, LeastNumber
<1>3. k \in 0..MaxWhole /\ k \in Nat /\ ~Right(k)
  BY <1>m, <1>2
<1>4. \A l \in 0..MaxWhole : l < k => Right(l)
  BY <1>m, <1>2, <1>3
<1> HIDE DEF Wrong
<1>p. "." \in PlainCharacters /\ "nbsp" \in PlainCharacters
      /\ NumeralCharacters \subseteq PlainCharacters
  BY Zenon DEF PlainCharacters
<1>5. CASE k < 10
  <2>1. k \in 0..9
    BY <1>3, <1>5
  <2> DEFINE c == Numerals[k + 1]
  <2>2. Digits[k] = <<c>>
    BY <1>3, <1>5, DigitsUnfold, Zenon
  <2>3. c \in NumeralCharacters /\ c \in PlainCharacters
    BY <1>p, <2>1, NumeralFacts, Zenon
  <2>4. Cleaned(<<c>>) = <<c>>
    BY <1>p, <2>3, CleanedFirst, KeptCharacters, Zenon
  <2>5. Figures(<<c>>, k)
    BY <2>1, FiguresOne
  <2>6. <<c>> \in Seq(PlainCharacters)
    BY <2>3, ShortSequences, Zenon
  <2>7. QED
    BY <1>3, <2>2, <2>4, <2>5, <2>6, Zenon DEF Right
<1>6. CASE ~(k < 10)
  <2> DEFINE h == k \div 10
             d == k % 10
             c == Numerals[d + 1]
             front == Digits[h]
  <2>1. h \in Nat /\ h < k /\ d \in 0..9 /\ k = 10 * h + d
    BY <1>3, <1>6
  <2>2. Digits[k] = front \o <<"nbsp", c>>
    BY <1>3, <1>6, DigitsUnfold, Zenon
  <2>3. c \in NumeralCharacters /\ c \in PlainCharacters
    BY <1>p, <2>1, NumeralFacts, Zenon
  <2>4. front \in Seq(PlainCharacters) /\ Figures(Cleaned(front), h)
    <3> HIDE DEF h
    <3>1. h \in 0..MaxWhole
      BY <1>m, <1>3, <2>1
    <3>2. QED
      BY <1>4, <2>1, <3>1 DEF Right
  <2>5. Figures(Append(Cleaned(front), c), k)
    <3> HIDE DEF h, d, front
    <3>1. Figures(Append(Cleaned(front), c), 10 * h + d)
      BY <2>1, <2>4, FiguresAppend DEF c
    <3>2. QED
      BY <2>1, <3>1
  <2> HIDE DEF h, d, c, front
  <2>6. Cleaned(front) \in Seq(PlainCharacters)
    BY <1>p, <2>4, CleanedFirst, Zenon
  <2>7. Cleaned(Append(front, "nbsp")) = Cleaned(front)
    <3>1. Cleaned(Append(front, "nbsp")) = Cleaned(front) \o <<>>
      BY <1>p, <2>4, CleanedAppend, KeptCharacters
    <3>2. \A text \in Seq(PlainCharacters) : text \o <<>> = text
      OBVIOUS
    <3>3. QED
      BY <2>6, <3>1, <3>2
  <2>8. Cleaned(Append(Append(front, "nbsp"), c)) = Cleaned(front) \o <<c>>
    <3>1. Append(front, "nbsp") \in Seq(PlainCharacters)
      BY <1>p, <2>4
    <3>2. QED
      BY <1>p, <2>3, <2>7, <3>1, CleanedAppend, KeptCharacters
  <2>9. /\ front \o <<"nbsp", c>> = Append(Append(front, "nbsp"), c)
        /\ front \o <<"nbsp", c>> \in Seq(PlainCharacters)
    BY <1>p, <2>3, <2>4
  <2>10. Cleaned(front) \o <<c>> = Append(Cleaned(front), c)
    <3> DEFINE text == Cleaned(front)
    <3> HIDE DEF text
    <3>1. text \in Seq(PlainCharacters)
      BY <2>6 DEF text
    <3>2. text \o <<c>> = Append(text, c)
      BY <2>3, <3>1
    <3>3. QED
      BY <3>2 DEF text
  <2>11. QED
    BY <1>3, <2>2, <2>5, <2>8, <2>9, <2>10 DEF Right
<1>7. QED
  BY <1>5, <1>6

\* Facts about short sequences, for the provers.
LEMMA AppendTwo ==
  ASSUME NEW Char, NEW front \in Seq(Char), NEW p \in Char, NEW c \in Char
  PROVE  /\ Append(Append(front, p), c) = front \o <<p, c>>
         /\ Append(front, c) = front \o <<c>>
OBVIOUS

\* A text of two characters.
LEMMA PairOf ==
  ASSUME NEW Char, NEW p \in Char, NEW c \in Char
  PROVE  /\ <<p>> \in Seq(Char) /\ <<p, c>> \in Seq(Char)
         /\ Append(<<p>>, c) = <<p, c>> /\ <<p>> \o <<c>> = <<p, c>>
<1>1. /\ <<p>> \in Seq(Char) /\ <<p, c>> \in Seq(Char) /\ <<>> \in Seq(Char)
      /\ Append(<<>>, p) = <<p>>
  OBVIOUS
<1>2. Append(Append(<<>>, p), c) = <<>> \o <<p, c>>
  <2>1. \A front \in Seq(Char) : Append(Append(front, p), c) = front \o <<p, c>>
    BY AppendTwo
  <2>2. QED
    BY <1>1, <2>1
<1>3. \A text \in Seq(Char) : <<>> \o text = text
  OBVIOUS
<1>4. Append(<<p>>, c) = <<p>> \o <<c>>
  BY <1>1, AppendTwo, Zenon
<1>5. QED
  BY <1>1, <1>2, <1>3, <1>4, Zenon

\* Where the characters of two texts are in their concatenation.
LEMMA JoinAt ==
  ASSUME NEW Char, NEW a \in Seq(Char), NEW b \in Seq(Char)
  PROVE  /\ a \o b \in Seq(Char) /\ Len(a \o b) = Len(a) + Len(b)
         /\ \A i \in 1..Len(a) : (a \o b)[i] = a[i]
         /\ \A i \in 1..Len(b) : (a \o b)[Len(a) + i] = b[i]
OBVIOUS

\* The empty text.
LEMMA Nothing ==
  ASSUME NEW Char
  PROVE  /\ <<>> \in Seq(Char) /\ <<>> \o <<>> = <<>> /\ <<>> # <<"-">>
         /\ \A text \in Seq(Char) : <<>> \o text = text /\ text \o <<>> = text
OBVIOUS

Letters == Thousands \union Millions

LetterCharacters == PlainCharacters \union {" "} \union Letters

\* No sign, digit or space is taken for a letter.
LEMMA PlainIsNoLetter == \A c \in PlainCharacters \union {" "} : c \notin Letters
<1>1. /\ "-" \notin Letters /\ "." \notin Letters /\ "," \notin Letters
      /\ "nbsp" \notin Letters /\ " " \notin Letters
  BY SMT DEF Letters, Thousands, Millions
<1>2. /\ "0" \notin Letters /\ "1" \notin Letters /\ "2" \notin Letters
      /\ "3" \notin Letters /\ "4" \notin Letters /\ "5" \notin Letters
      /\ "6" \notin Letters /\ "7" \notin Letters /\ "8" \notin Letters
      /\ "9" \notin Letters
  BY SMT DEF Letters, Thousands, Millions
<1>3. QED
  BY <1>1, <1>2, Zenon DEF PlainCharacters, NumeralCharacters

\* What a number is written with between its sign and its letter.
Decimals(number) ==
  IF number.tenths = <<>> THEN <<>>
  ELSE <<number.tenths[2], Numerals[number.tenths[1] + 1]>>

Suffix(number) == IF number.suffix = "" THEN <<>> ELSE <<" ", number.suffix>>

\* The decimals that are kept.
Fraction(number) ==
  IF number.tenths = <<>> THEN <<>> ELSE <<".", Numerals[number.tenths[1] + 1]>>

Scale(number) == IF number.suffix \in Thousands THEN Kilo
                 ELSE IF number.suffix \in Millions THEN Mega ELSE 1

\* A comma and a point are kept as a point, and the digit after it.
LEMMA CleanedDecimals ==
  ASSUME NEW number \in Numbers
  PROVE  /\ Decimals(number) \in Seq(PlainCharacters)
         /\ Cleaned(Decimals(number)) = Fraction(number)
         /\ number.tenths # <<>> => /\ number.tenths[1] \in 0..9
                                    /\ number.tenths[2] \in {".", ","}
<1>1. number.tenths \in {<<>>} \union (0..9) \X {".", ","}
  BY DEF Numbers
<1>p. "." \in PlainCharacters /\ NumeralCharacters \subseteq PlainCharacters
      /\ "," \in PlainCharacters
  BY Zenon DEF PlainCharacters
<1>2. CASE number.tenths = <<>>
  <2>1. Decimals(number) = <<>> /\ Fraction(number) = <<>>
    BY <1>2, Zenon DEF Decimals, Fraction
  <2>2. Cleaned(<<>>) = <<>> /\ <<>> \in Seq(PlainCharacters)
    BY <1>p, CleanedFirst, Nothing, Zenon
  <2>3. QED
    BY <1>2, <2>1, <2>2, Zenon
<1>3. CASE number.tenths # <<>>
  <2> DEFINE t == number.tenths[1]
             p == number.tenths[2]
             c == Numerals[t + 1]
  <2>1. t \in 0..9 /\ p \in {".", ","}
    BY <1>1, <1>3
  <2>2. Decimals(number) = <<p, c>> /\ Fraction(number) = <<".", c>>
    BY <1>3, Zenon DEF Decimals, Fraction
  <2>3. c \in NumeralCharacters
    BY <2>1, NumeralFacts, Zenon
  <2> HIDE DEF c
  <2>4. c \in PlainCharacters /\ p \in PlainCharacters
    BY <1>p, <2>1, <2>3, Zenon
  <2>5. Kept(p) = <<".">> /\ Kept(c) = <<c>>
    BY <2>1, <2>3, KeptCharacters, Zenon
  <2> HIDE DEF p
  <2>6. <<p>> \in Seq(PlainCharacters) /\ Append(<<p>>, c) = <<p, c>>
        /\ <<p, c>> \in Seq(PlainCharacters)
    BY <2>4, PairOf, Zenon
  <2>7. Cleaned(<<p, c>>) = <<".">> \o <<c>>
    BY <1>p, <2>4, <2>5, <2>6, CleanedFirst, CleanedAppend
  <2>8. <<".">> \o <<c>> = <<".", c>>
    BY <1>p, <2>4, PairOf, Zenon
  <2>9. QED
    BY <2>1, <2>2, <2>6, <2>7, <2>8, Zenon DEF p
<1>4. QED
  BY <1>2, <1>3

\* Nothing is kept of a letter, which stands for the multiplier.
LEMMA CleanedSuffix ==
  ASSUME NEW number \in Numbers
  PROVE  /\ Suffix(number) \in Seq(LetterCharacters)
         /\ Cleaned(Suffix(number)) = <<>>
         /\ \/ Suffix(number) = <<>> /\ Scale(number) = 1
            \/ \E s \in Letters : /\ Suffix(number) = <<" ", s>>
                                    /\ Scale(number) = IF s \in Thousands THEN Kilo ELSE Mega
<1>1. number.suffix \in Letters \union {""}
  BY DEF Numbers, Letters
<1>p. "." \in LetterCharacters /\ " " \in LetterCharacters /\ Letters \subseteq LetterCharacters
  BY Zenon DEF LetterCharacters, PlainCharacters
<1>n. "" \notin Letters
  BY SMT DEF Letters, Thousands, Millions
<1>2. CASE number.suffix = ""
  <2>1. Suffix(number) = <<>> /\ Scale(number) = 1
    BY <1>2, <1>n, Zenon DEF Suffix, Scale, Letters
  <2>2. Cleaned(<<>>) = <<>> /\ <<>> \in Seq(LetterCharacters)
    BY <1>p, CleanedFirst, Nothing, Zenon
  <2>3. QED
    BY <2>1, <2>2, Zenon
<1>3. CASE number.suffix # ""
  <2> DEFINE s == number.suffix
  <2>1. s \in Letters /\ s \in LetterCharacters
    BY <1>1, <1>3, <1>p, Zenon
  <2>2. Suffix(number) = <<" ", s>>
    BY <1>3, Zenon DEF Suffix
  <2>3. Scale(number) = IF s \in Thousands THEN Kilo ELSE Mega
    BY <2>1, Zenon DEF Scale, Letters
  <2>4. Kept(" ") = <<>> /\ Kept(s) = <<>>
    BY <2>1, KeptCharacters, Zenon DEF Letters
  <2> HIDE DEF s
  <2>5. <<" ">> \in Seq(LetterCharacters) /\ Append(<<" ">>, s) = <<" ", s>>
        /\ <<" ", s>> \in Seq(LetterCharacters)
    BY <1>p, <2>1, PairOf, Zenon
  <2>6. Cleaned(<<" ", s>>) = <<>> \o <<>>
    <3>1. Cleaned(<<" ">>) = <<>>
      BY <1>p, <2>4, CleanedFirst, Zenon
    <3>2. Cleaned(Append(<<" ">>, s)) = Cleaned(<<" ">>) \o Kept(s)
      BY <1>p, <2>1, <2>5, CleanedAppend, Zenon
    <3>3. QED
      BY <2>4, <2>5, <3>1, <3>2, Zenon
  <2>7. <<>> \o <<>> = <<>>
    BY Nothing, Zenon
  <2>8. QED
    BY <2>1, <2>2, <2>3, <2>5, <2>6, <2>7, Zenon
<1>4. QED
  BY <1>1, <1>2, <1>3

\* What ParseCount makes of a number: its sign, its figures, its decimals, and
\* the multiplier that its letter stands for.
LEMMA CleanedNumber ==
  ASSUME NEW number \in Numbers
  PROVE  /\ \E text : /\ Figures(text, number.whole)
                      /\ Cleaned(Written(number))
                           = number.sign \o (text \o Fraction(number))
         /\ Multiplier(Written(number)) = Scale(number)
<1> DEFINE sign == number.sign
           digits == Digits[number.whole]
           decimals == Decimals(number)
           suffix == Suffix(number)
           plain == (sign \o digits) \o decimals
<1>1. /\ sign \in {<<>>, <<"-">>} /\ number.whole \in 0..MaxWhole
  BY DEF Numbers
<1>p. "." \in PlainCharacters /\ "-" \in PlainCharacters
      /\ "." \in LetterCharacters /\ PlainCharacters \subseteq LetterCharacters
      /\ " " \in LetterCharacters /\ Letters \subseteq LetterCharacters
  BY Zenon DEF LetterCharacters, PlainCharacters
<1>2. Written(number) = plain \o suffix
  BY Zenon DEF Written, Decimals, Suffix
<1>3. digits \in Seq(PlainCharacters) /\ Figures(Cleaned(digits), number.whole)
  BY <1>1, DigitsAreFigures
<1>4. sign \in Seq(PlainCharacters) /\ Cleaned(sign) = sign
  <2>1. <<"-">> \in Seq(PlainCharacters) /\ <<>> \in Seq(PlainCharacters)
    BY <1>p, ShortSequences
  <2>2. Cleaned(<<>>) = <<>> /\ Cleaned(<<"-">>) = <<"-">>
    BY <1>p, CleanedFirst, KeptCharacters, Zenon
  <2>3. QED
    BY <1>1, <2>1, <2>2, Zenon
<1>5. decimals \in Seq(PlainCharacters) /\ Cleaned(decimals) = Fraction(number)
  BY CleanedDecimals, Zenon
<1>6. suffix \in Seq(LetterCharacters) /\ Cleaned(suffix) = <<>>
  BY CleanedSuffix, Zenon
<1> HIDE DEF sign, digits, decimals, suffix
<1>7. sign \o digits \in Seq(PlainCharacters) /\ plain \in Seq(PlainCharacters)
      /\ plain \in Seq(LetterCharacters)
  <2>1. sign \o digits \in Seq(PlainCharacters) /\ plain \in Seq(PlainCharacters)
    BY <1>3, <1>4, <1>5
  <2>2. Seq(PlainCharacters) \subseteq Seq(LetterCharacters)
    <3>1. ASSUME NEW A, NEW B, A \subseteq B PROVE Seq(A) \subseteq Seq(B)
      BY <3>1
    <3>2. QED
      BY <1>p, <3>1, Zenon
  <2>3. QED
    BY <2>1, <2>2
<1>8. Cleaned(Written(number)) = sign \o (Cleaned(digits) \o Fraction(number))
  <2>1. Cleaned(plain \o suffix) = Cleaned(plain) \o <<>>
    <3> HIDE DEF plain
    <3>1. QED
      BY <1>p, <1>6, <1>7, CleanedJoins, Zenon
  <2>2. Cleaned(plain) = Cleaned(sign \o digits) \o Fraction(number)
    BY <1>p, <1>5, <1>7, CleanedJoins
  <2>3. Cleaned(sign \o digits) = sign \o Cleaned(digits)
    BY <1>p, <1>3, <1>4, CleanedJoins
  <2> DEFINE x == Cleaned(digits)
             y == Fraction(number)
  <2>4. x \in Seq(PlainCharacters) /\ y \in Seq(PlainCharacters)
    BY <1>p, <1>3, <1>5, CleanedFirst, Zenon
  <2> HIDE DEF x, y
  <2>5. ((sign \o x) \o y) \o <<>> = sign \o (x \o y)
    BY <1>4, <2>4
  <2>6. QED
    BY <1>2, <2>1, <2>2, <2>3, <2>5, Zenon DEF x, y
<1>9. Multiplier(Written(number)) = Scale(number)
  <2> HIDE DEF plain
  <2> DEFINE raw == plain \o suffix
             letters == {i \in DOMAIN raw : raw[i] \in Letters}
             n == Len(plain)
  <2>1. n \in Nat /\ \A i \in 1..n : plain[i] \notin Letters
    <3>1. n \in Nat /\ \A i \in 1..n : plain[i] \in PlainCharacters
      BY <1>7
    <3>2. QED
      BY <3>1, PlainIsNoLetter, Zenon
  <2>2. Multiplier(raw) = IF letters = {} THEN 1
                          ELSE IF raw[Max(letters)] \in Thousands THEN Kilo ELSE Mega
    BY Zenon DEF Multiplier, Letters
  <2>3. CASE suffix = <<>> /\ Scale(number) = 1
    <3>1. raw = plain /\ DOMAIN plain = 1..n
      BY <1>7, <2>3
    <3>2. letters = {}
      BY <2>1, <3>1
    <3>3. QED
      BY <1>2, <2>2, <2>3, <3>2
  <2>4. ASSUME NEW s \in Letters, suffix = <<" ", s>>,
               Scale(number) = IF s \in Thousands THEN Kilo ELSE Mega
        PROVE  Multiplier(Written(number)) = Scale(number)
    <3>1. /\ DOMAIN raw = 1..(n + 2) /\ raw[n + 2] = s /\ raw[n + 1] = " "
          /\ \A i \in 1..n : raw[i] = plain[i]
      <4> DEFINE space == " "
                 tail  == <<space, s>>
      <4> HIDE DEF space
      <4>1. tail \in Seq(LetterCharacters) /\ Len(tail) = 2 /\ tail[1] = space /\ tail[2] = s
        <5>1. space \in LetterCharacters /\ s \in LetterCharacters
          BY <1>p, Zenon DEF space
        <5>2. QED
          BY <5>1
      <4> HIDE DEF tail
      <4>2. /\ DOMAIN (plain \o tail) = 1..(n + 2) /\ (plain \o tail)[n + 2] = s
            /\ (plain \o tail)[n + 1] = space
            /\ \A i \in 1..n : (plain \o tail)[i] = plain[i]
        <5>1. plain \in Seq(LetterCharacters)
          BY <1>7
        <5>2. QED
          <6>1. Len(tail) = 2 /\ 1 \in 1..Len(tail) /\ 2 \in 1..Len(tail)
            BY <4>1
          <6>t. tail \in Seq(LetterCharacters)
            BY <4>1
          <6>2. /\ plain \o tail \in Seq(LetterCharacters) /\ Len(plain \o tail) = n + 2
                /\ (plain \o tail)[n + 1] = tail[1] /\ (plain \o tail)[n + 2] = tail[2]
                /\ \A i \in 1..n : (plain \o tail)[i] = plain[i]
            <7>1. /\ plain \o tail \in Seq(LetterCharacters)
                  /\ Len(plain \o tail) = n + Len(tail)
                  /\ \A i \in 1..n : (plain \o tail)[i] = plain[i]
                  /\ \A i \in 1..Len(tail) : (plain \o tail)[n + i] = tail[i]
              <8> HIDE DEF plain
              <8>1. QED
                BY <5>1, <6>t, JoinAt
            <7>2. QED
              BY <6>1, <7>1, Zenon
          <6>3. QED
            BY <4>1, <6>2
      <4>3. raw = plain \o tail
        BY <2>4, Zenon DEF tail, space
      <4> HIDE DEF raw
      <4>4. QED
        BY <4>2, <4>3, Zenon DEF space
    <3> HIDE DEF raw
    <3>2. letters = {n + 2}
      <4>1. " " \notin Letters
        BY PlainIsNoLetter, Zenon
      <4>2. \A i \in 1..(n + 2) : i \in 1..n \/ i = n + 1 \/ i = n + 2
        BY <2>1
      <4>3. n + 2 \in 1..(n + 2)
        BY <2>1
      <4>4. QED
        BY <2>1, <2>4, <3>1, <4>1, <4>2, <4>3, Zenon
    <3> HIDE DEF letters
    <3>3. Max(letters) = n + 2
      BY <2>1, <3>2 DEF Max
    <3>4. Multiplier(raw) = IF s \in Thousands THEN Kilo ELSE Mega
      BY <2>2, <3>1, <3>2, <3>3, Zenon
    <3>5. QED
      BY <1>2, <2>4, <3>4 DEF raw
  <2>5. QED
    BY <2>3, <2>4, CleanedSuffix, Zenon DEF suffix
<1>10. QED
  BY <1>3, <1>8, <1>9, Zenon DEF sign

\* Max is the member that no other exceeds.
LEMMA MaxIs ==
  ASSUME NEW S \in SUBSET Nat, NEW m \in S, \A y \in S : y <= m
  PROVE  Max(S) = m
<1>1. \A x \in S : (\A y \in S : x >= y) => x = m
  <2>1. \A x \in S : x >= m /\ x <= m => x = m
    OBVIOUS
  <2>2. QED
    BY <2>1
<1>2. \A y \in S : m >= y
  OBVIOUS
<1>3. QED
  BY <1>1, <1>2, Zenon DEF Max

\* std::stod reads a text with one point at most, and no sign, to its end.
LEMMA StodReads ==
  ASSUME NEW Char, NEW text \in Seq(Char), NEW amount, Amounts(text, amount),
         \A i \in 1..Len(text) : text[i] # "-",
         NEW dots, dots = {i \in 1..Len(text) : text[i] = "."},
         Cardinality(dots) <= 1
  PROVE  Stod(text) = [num |-> amount[Len(text)],
                       den |-> 10^(IF dots = {} THEN 0 ELSE Len(text) - Max(dots))]
<1> DEFINE Dots(k) == {i \in 1..k : text[i] = "."}
           ends == {k \in 0..Len(text) : /\ Cardinality(Dots(k)) <= 1
                                         /\ \A i \in 1..k : text[i] # "-"}
           read == Max(ends)
<1>1. Stod(text) = [num |-> Read(text)[read],
                    den |-> 10^(IF Dots(read) = {} THEN 0 ELSE read - Max(Dots(read)))]
  BY Zenon DEF Stod
<1> DEFINE n == Len(text)
<1>n. n \in Nat
  OBVIOUS
<1>2. n \in ends /\ ends \subseteq 0..n
  BY <1>n
<1> HIDE DEF ends
<1>3. read = n
  <2> HIDE DEF n
  <2>1. ends \in SUBSET Nat /\ \A y \in ends : y <= n
    BY <1>n, <1>2
  <2>2. QED
    BY <1>2, <2>1, MaxIs, Zenon
<1> HIDE DEF read
<1>4. Dots(n) = dots
  OBVIOUS
<1>5. Read(text) = amount
  BY ReadIsAmount
<1> HIDE DEF Dots, n
<1>6. QED
  BY <1>1, <1>3, <1>4, <1>5, Zenon DEF n

\* A sign and a point are no digits.
LEMMA SignsAreNoNumerals ==
  "-" \notin NumeralCharacters /\ "." \notin NumeralCharacters /\ "." # "-"
BY SMT DEF NumeralCharacters

\* What std::stod makes of digits.
LEMMA StodWhole ==
  ASSUME NEW text, NEW n \in Nat, Figures(text, n)
  PROVE  Stod(text) = [num |-> n, den |-> 1]
<1>1. text \in Seq(NumeralCharacters)
  BY Zenon DEF Figures
<1>2. PICK amount : Amounts(text, amount) /\ amount[Len(text)] = n
  BY Zenon DEF Figures
<1>3. \A i \in 1..Len(text) : text[i] # "-" /\ text[i] # "."
  <2>1. \A i \in 1..Len(text) : text[i] \in NumeralCharacters
    BY <1>1
  <2>2. QED
    BY <2>1, SignsAreNoNumerals, Zenon
<1> DEFINE dots == {i \in 1..Len(text) : text[i] = "."}
<1>4. dots = {}
  BY <1>3
<1> HIDE DEF dots
<1>5. Cardinality(dots) <= 1
  <2>1. Cardinality({}) = 0
    BY FS_EmptySet
  <2>2. QED
    BY <1>4, <2>1
<1>6. Stod(text) = [num |-> amount[Len(text)],
                    den |-> 10^(IF dots = {} THEN 0 ELSE Len(text) - Max(dots))]
  BY <1>1, <1>2, <1>3, <1>5, StodReads, Zenon DEF dots
<1>7. 10^0 = 1
  OBVIOUS
<1>8. QED
  BY <1>2, <1>4, <1>6, <1>7, Zenon

\* What std::stod makes of digits, a point and a digit.
LEMMA StodDecimal ==
  ASSUME NEW text, NEW n \in Nat, Figures(text, n), NEW d \in 0..9
  PROVE  Stod(text \o <<".", Numerals[d + 1]>>) = [num |-> 10 * n + d, den |-> 10]
<1> DEFINE Char == NumeralCharacters \union {"."}
           c == Numerals[d + 1]
           dot == "."
           decimal == <<dot, c>>
           all == text \o decimal
           l == Len(text)
<1>1. text \in Seq(NumeralCharacters)
  BY Zenon DEF Figures
<1>2. PICK amount : Amounts(text, amount) /\ amount[l] = n
  BY Zenon DEF Figures
<1>c. c \in NumeralCharacters /\ IsNumeral(c) /\ Value(c) = d /\ ~IsNumeral(dot)
      /\ c \in Char /\ dot \in Char /\ c # dot /\ c # "-" /\ dot # "-"
  BY NumeralFacts, SignsAreNoNumerals, Zenon
<1>3. text \in Seq(Char) /\ l \in Nat /\ \A i \in 1..l : text[i] \in NumeralCharacters
  <2>1. ASSUME NEW A, NEW B, A \subseteq B PROVE Seq(A) \subseteq Seq(B)
    BY <2>1
  <2>2. NumeralCharacters \subseteq Char
    BY Zenon
  <2> HIDE DEF Char
  <2>3. QED
    BY <1>1, <2>1, <2>2
<1> HIDE DEF Char, c, dot
<1>4. decimal \in Seq(Char) /\ Len(decimal) = 2 /\ decimal[1] = dot /\ decimal[2] = c
  BY <1>c
<1> HIDE DEF decimal
<1>5. /\ all \in Seq(Char) /\ Len(all) = l + 2 /\ all[l + 1] = dot /\ all[l + 2] = c
      /\ \A i \in 1..l : all[i] = text[i]
  <2>1. /\ all \in Seq(Char) /\ Len(all) = l + Len(decimal)
        /\ \A i \in 1..l : all[i] = text[i]
        /\ \A i \in 1..Len(decimal) : all[l + i] = decimal[i]
    <3>1. text \in Seq(Char) /\ decimal \in Seq(Char)
      BY <1>3, <1>4
    <3>2. QED
      BY <3>1, JoinAt
  <2>2. 1 \in 1..Len(decimal) /\ 2 \in 1..Len(decimal)
    BY <1>4
  <2> HIDE DEF all
  <2>3. QED
    BY <1>4, <2>1, <2>2, Zenon
<1> HIDE DEF all, l
<1>a. /\ amount \in [0..l -> Nat] /\ amount[0] = 0
      /\ \A k \in 1..l :
           amount[k] = IF IsNumeral(text[k]) THEN 10 * amount[k - 1] + Value(text[k])
                                             ELSE amount[k - 1]
  BY <1>2 DEF Amounts, l
<1> DEFINE next == [k \in 0..(l + 2) |-> IF k = l + 2 THEN 10 * n + d
                                         ELSE IF k = l + 1 THEN n ELSE amount[k]]
<1>6. Amounts(all, next)
  <2>1. next \in [0..(l + 2) -> Nat] /\ next[0] = 0
    BY <1>3, <1>a
  <2>2. ASSUME NEW k \in 1..(l + 2)
        PROVE  next[k] = IF IsNumeral(all[k]) THEN 10 * next[k - 1] + Value(all[k])
                                              ELSE next[k - 1]
    <3>1. CASE k = l + 2
      <4>1. next[k] = 10 * n + d /\ next[k - 1] = n
        BY <1>3, <3>1
      <4>2. IsNumeral(all[k]) /\ Value(all[k]) = d
        BY <1>c, <1>5, <3>1, Zenon
      <4>3. QED
        BY <4>1, <4>2
    <3>2. CASE k = l + 1
      <4>1. next[k] = n /\ next[k - 1] = n
        BY <1>2, <1>3, <3>2
      <4>2. ~IsNumeral(all[k])
        BY <1>c, <1>5, <3>2, Zenon
      <4>3. QED
        BY <4>1, <4>2
    <3>3. CASE k # l + 1 /\ k # l + 2
      <4>1. k \in 1..l /\ next[k] = amount[k] /\ next[k - 1] = amount[k - 1]
        BY <1>3, <3>3
      <4>2. QED
        BY <1>5, <1>a, <4>1
    <3>4. QED
      BY <3>1, <3>2, <3>3
  <2> HIDE DEF next
  <2>3. QED
    BY <1>5, <2>1, <2>2 DEF Amounts
<1>7. next[l + 2] = 10 * n + d
  BY <1>3
<1> HIDE DEF next
<1>8. \A i \in 1..Len(all) : i \in 1..l \/ i = l + 1 \/ i = l + 2
  BY <1>3, <1>5
<1>9. \A i \in 1..Len(all) : all[i] # "-"
  BY <1>3, <1>5, <1>8, <1>c, SignsAreNoNumerals, Zenon
<1> DEFINE dots == {i \in 1..Len(all) : all[i] = "."}
<1>10. dots = {l + 1}
  <2>1. \A i \in 1..l : all[i] # "."
    BY <1>3, <1>5, SignsAreNoNumerals, Zenon
  <2>2. all[l + 1] = "." /\ all[l + 2] # "."
    BY <1>5, <1>c, Zenon DEF dot
  <2>3. l + 1 \in 1..Len(all)
    BY <1>3, <1>5
  <2>4. QED
    BY <1>8, <2>1, <2>2, <2>3, Zenon
<1> HIDE DEF dots
<1>11. Cardinality(dots) <= 1 /\ Max(dots) = l + 1 /\ dots # {}
  <2>1. Cardinality({l + 1}) = 1
    BY FS_Singleton
  <2>2. QED
    BY <1>3, <1>10, <2>1 DEF Max
<1>12. Stod(all) = [num |-> next[Len(all)],
                    den |-> 10^(IF dots = {} THEN 0 ELSE Len(all) - Max(dots))]
  <2>1. dots = {i \in 1..Len(all) : all[i] = "."} /\ all \in Seq(Char)
    BY <1>5 DEF dots
  <2>2. Cardinality(dots) <= 1
    BY <1>11
  <2>3. QED
    BY <1>6, <1>9, <2>1, <2>2, StodReads, Zenon
<1>13. (IF dots = {} THEN 0 ELSE Len(all) - Max(dots)) = 1
  BY <1>3, <1>5, <1>11
<1>14. 10^1 = 10
  OBVIOUS
<1>15. Stod(all) = [num |-> 10 * n + d, den |-> 10]
  BY <1>5, <1>7, <1>12, <1>13, <1>14, Zenon
<1>16. QED
  BY <1>15, Zenon DEF all, decimal, dot, c

\* The product of doubles that ParseCount truncates.
Scaled(x, m) == [x EXCEPT !.num = @ * m]
Product(x, m) == Double(Scaled(Double(x), m))

NearProduct(N, D, m, product) ==
  \E Q, R \in Nat, P, S \in Nat \ {0} :
    /\ Near([num |-> N, den |-> D], Q, P)
    /\ Near([num |-> Q * m, den |-> P], R, S)
    /\ product = [num |-> R, den |-> S]

\* Each of the two doubles is next to what it stands for.
LEMMA ProductIsNear ==
  ASSUME NEW N \in Nat, NEW D \in Nat \ {0}, NEW m \in Nat
  PROVE  NearProduct(N, D, m, Product([num |-> N, den |-> D], m))
<1> DEFINE x == [num |-> N, den |-> D]
<1>1. x \in [num : Nat, den : Nat \ {0}]
  OBVIOUS
<1> HIDE DEF x
<1>2. PICK Q \in Nat, P \in Nat \ {0} :
        Double(x) = [num |-> Q, den |-> P] /\ Near(x, Q, P)
  BY <1>1, DoubleIsNear, Zenon
<1> DEFINE y == [num |-> Q * m, den |-> P]
<1>3. y \in [num : Nat, den : Nat \ {0}]
  <2>1. Q * m \in Nat
    BY SMT
  <2>2. QED
    BY <2>1
<1>4. Scaled(Double(x), m) = y
  <2>1. Scaled([num |-> Q, den |-> P], m) = y
    BY DEF Scaled
  <2>2. QED
    BY <1>2, <2>1, Zenon
<1> HIDE DEF y
<1>5. PICK R \in Nat, S \in Nat \ {0} :
        Double(y) = [num |-> R, den |-> S] /\ Near(y, R, S)
  BY <1>3, DoubleIsNear, Zenon
<1>6. Product(x, m) = [num |-> R, den |-> S]
  BY <1>4, <1>5, Zenon DEF Product
<1>7. QED
  BY <1>2, <1>5, <1>6, Zenon DEF NearProduct, x, y

\* A number without decimals is scaled without loss.
LEMMA WholeProduct ==
  ASSUME NEW N \in Nat, NEW D \in Nat \ {0}, NEW m \in Nat, NEW v \in Nat, N = v * D,
         NEW product, product = Product([num |-> N, den |-> D], m)
  PROVE  product.num \div product.den = v * m
<1>1. PICK Q, R \in Nat, P, S \in Nat \ {0} :
        /\ Near([num |-> N, den |-> D], Q, P)
        /\ Near([num |-> Q * m, den |-> P], R, S)
        /\ product = [num |-> R, den |-> S]
  <2>1. NearProduct(N, D, m, product)
    BY ProductIsNear, Zenon
  <2>2. QED
    BY <2>1, Zenon DEF NearProduct
<1>2. \A w \in Nat : N = w * D => Q = w * P
  BY <1>1 DEF Near
<1>3. Q = v * P
  BY <1>2, Zenon
<1>4. \A w \in Nat : Q * m = w * P => R = w * S
  BY <1>1 DEF Near
<1>5. v * m \in Nat /\ Q * m = (v * m) * P
  <2>1. v * m \in Nat
    BY SMT
  <2>2. (v * P) * m = (v * m) * P
    BY SMT
  <2>3. QED
    BY <1>3, <2>1, <2>2, Zenon
<1>6. R = (v * m) * S
  BY <1>4, <1>5, Zenon
<1> DEFINE a == v * m
<1>7. ASSUME NEW b \in Nat PROVE (b * S) \div S = b
  BY SMT
<1>8. R \div S = v * m
  BY <1>5, <1>6, <1>7, Zenon
<1>9. product.num = R /\ product.den = S
  <2>1. product = [num |-> R, den |-> S]
    BY <1>1, Zenon
  <2>2. QED
    BY <2>1
<1>10. QED
  BY <1>8, <1>9, Zenon

\* A number with a decimal loses one at most, and none when what is scaled has
\* a decimal left.
LEMMA DecimalProduct ==
  ASSUME NEW N \in Nat \ {0}, NEW m \in Nat \ {0},
         21 * ((N + 1) * m) <= 10 * 2^MantissaBits,
         NEW product, product = Product([num |-> N, den |-> 10], m),
         NEW A, A = N * m
  PROVE  /\ \/ product.num \div product.den = A \div 10
            \/ product.num \div product.den = A \div 10 - 1
         /\ A % 10 # 0 => product.num \div product.den = A \div 10
<1>1. PICK Q, R \in Nat, P, S \in Nat \ {0} :
        /\ Near([num |-> N, den |-> 10], Q, P)
        /\ Near([num |-> Q * m, den |-> P], R, S)
        /\ product = [num |-> R, den |-> S]
  <2>1. N \in Nat /\ 10 \in Nat \ {0} /\ m \in Nat
    OBVIOUS
  <2>2. QED
    <3>1. NearProduct(N, 10, m, product)
      BY <2>1, ProductIsNear, Zenon
    <3>2. QED
      BY <3>1, Zenon DEF NearProduct
<1> DEFINE H == 2^MantissaBits
<1>h. H \in Nat /\ H >= 2
  <2>1. MantissaBits \in Nat /\ MantissaBits >= 1
    BY HtmlParserAssumption
  <2>2. 2^MantissaBits \in Nat /\ 2^MantissaBits > MantissaBits
    BY <2>1, PowerCounts, PowerGrows
  <2> HIDE DEF H
  <2>3. H \in Nat /\ H > MantissaBits
    BY <2>2 DEF H
  <2>4. QED
    BY <2>1, <2>3
<1>b. 21 * ((N + 1) * m) <= 10 * H
  OBVIOUS
<1>2. /\ 2 * (Q * 10 - N * P) <= 10 /\ 2 * (N * P - Q * 10) <= 10
      /\ H * 10 <= 2 * (N * P)
  <2>1. N # 0
    OBVIOUS
  <2> HIDE DEF H
  <2>2. QED
    BY <1>1, <2>1, Zenon DEF Near, H
<1> HIDE DEF H
<1>3. Q # 0
  <2> DEFINE NP == N * P
  <2>1. NP \in Int
    BY SMT
  <2> HIDE DEF NP
  <2>2. 2 * (NP - Q * 10) <= 10 /\ H * 10 <= 2 * NP
    BY <1>2 DEF NP
  <2>3. QED
    BY <1>h, <2>1, <2>2
<1>4. Q * m # 0
  BY <1>3, SMT
<1>5. /\ 2 * (R * P - (Q * m) * S) <= P /\ 2 * ((Q * m) * S - R * P) <= P
      /\ H * P <= 2 * ((Q * m) * S)
  BY <1>1, <1>4, Zenon DEF Near, H
<1>6. 10 * R - (N * m) * S < S /\ (N * m) * S - 10 * R < S
  BY <1>b, <1>2, <1>5, <1>h, RoundingsAreSmall, Zenon
<1>7. A \in Nat
  BY SMT
<1>8. /\ R \div S = A \div 10 \/ R \div S = A \div 10 - 1
      /\ A % 10 # 0 => R \div S = A \div 10
  BY <1>6, <1>7, TruncationIsClose, Zenon
<1>9. product.num = R /\ product.den = S
  <2>1. product = [num |-> R, den |-> S]
    BY <1>1, Zenon
  <2>2. QED
    BY <2>1
<1>10. QED
  BY <1>8, <1>9, Zenon

Tenth(number) == IF number.tenths = <<>> THEN 0 ELSE number.tenths[1]

\* What the text of a number is without its sign, as a fraction.
Exact(number) ==
  IF number.tenths = <<>> THEN [num |-> number.whole, den |-> 1]
  ELSE [num |-> 10 * number.whole + number.tenths[1], den |-> 10]

\* ParseCount takes the sign off and hands std::stod the rest.
LEMMA ExactRead ==
  ASSUME NEW number \in Numbers, NEW raw, raw = Written(number)
  PROVE  LET text     == Cleaned(raw)
             negative == text # <<>> /\ text[1] = "-"
         IN  /\ negative <=> number.sign # <<>>
             /\ Stod(IF negative THEN Tail(text) ELSE text) = Exact(number)
<1> DEFINE text == Cleaned(raw)
           negative == text # <<>> /\ text[1] = "-"
           Char == PlainCharacters
<1>1. PICK figures : /\ Figures(figures, number.whole)
                     /\ text = number.sign \o (figures \o Fraction(number))
  BY CleanedNumber, Zenon
<1> DEFINE rest == figures \o Fraction(number)
<1>w. number.whole \in Nat /\ number.sign \in {<<>>, <<"-">>}
  <2>1. number.whole \in 0..MaxWhole /\ MaxWhole \in Nat
    BY NumberAssumption DEF Numbers
  <2>2. number.sign \in {<<>>, <<"-">>}
    BY DEF Numbers
  <2>3. QED
    BY <2>1, <2>2
<1>2. figures \in Seq(Char) /\ Len(figures) # 0 /\ figures[1] \in NumeralCharacters
  <2>1. figures \in Seq(NumeralCharacters) /\ Len(figures) # 0
    BY <1>1, Zenon DEF Figures
  <2>2. ASSUME NEW A, NEW B, A \subseteq B PROVE Seq(A) \subseteq Seq(B)
    BY <2>2
  <2>3. NumeralCharacters \subseteq Char
    BY Zenon DEF PlainCharacters
  <2>4. figures[1] \in NumeralCharacters
    BY <2>1
  <2>5. QED
    BY <2>1, <2>2, <2>3, <2>4, Zenon
<1>3. Stod(rest) = Exact(number)
  <2>1. CASE number.tenths = <<>>
    <3>1. Fraction(number) = <<>> /\ Exact(number) = [num |-> number.whole, den |-> 1]
      BY <2>1, Zenon DEF Fraction, Exact
    <3>2. rest = figures
      BY <1>2, <3>1, Nothing, Zenon
    <3>3. QED
      BY <1>1, <1>w, <3>1, <3>2, StodWhole, Zenon
  <2>2. CASE number.tenths # <<>>
    <3>1. number.tenths[1] \in 0..9
      BY <2>2, CleanedDecimals, Zenon
    <3>2. Fraction(number) = <<".", Numerals[number.tenths[1] + 1]>>
      BY <2>2, Zenon DEF Fraction
    <3>3. Exact(number) = [num |-> 10 * number.whole + number.tenths[1], den |-> 10]
      BY <2>2, Zenon DEF Exact
    <3>4. QED
      BY <1>1, <1>w, <3>1, <3>2, <3>3, StodDecimal, Zenon
  <2>3. QED
    BY <2>1, <2>2
<1>4. rest \in Seq(Char) /\ rest # <<>> /\ rest[1] = figures[1]
  <2>1. Fraction(number) \in Seq(Char)
    <3>1. "." \in Char
      BY Zenon DEF PlainCharacters
    <3>2. QED
      BY <3>1, CleanedDecimals, CleanedFirst, Zenon
  <2>2. /\ rest \in Seq(Char) /\ Len(rest) = Len(figures) + Len(Fraction(number))
        /\ \A i \in 1..Len(figures) : rest[i] = figures[i]
    BY <1>2, <2>1, JoinAt
  <2>3. 1 \in 1..Len(figures) /\ Len(figures) + Len(Fraction(number)) # 0
    BY <1>2, <2>1
  <2> HIDE DEF rest
  <2>4. Len(rest) # 0 /\ rest[1] = figures[1]
    BY <2>2, <2>3, Zenon
  <2>5. QED
    BY <2>2, <2>4
<1>5. text = number.sign \o rest
  BY <1>1, Zenon
<1> HIDE DEF rest, text
<1>6. CASE number.sign = <<>>
  <2>1. text = rest
    BY <1>4, <1>5, <1>6, Nothing, Zenon
  <2>2. ~negative
    BY <1>2, <1>4, <2>1, SignsAreNoNumerals, Zenon
  <2>3. QED
    BY <1>3, <1>6, <2>1, <2>2, Zenon DEF text
<1>7. CASE number.sign # <<>>
  <2> DEFINE minus == "-"
  <2>m. minus \in Char
    BY Zenon DEF PlainCharacters
  <2> HIDE DEF minus
  <2>1. text = <<minus>> \o rest
    BY <1>5, <1>7, <1>w, Zenon DEF minus
  <2>2. ASSUME NEW s \in Seq(Char)
        PROVE  <<minus>> \o s # <<>> /\ (<<minus>> \o s)[1] = minus
               /\ Tail(<<minus>> \o s) = s
    BY <2>m
  <2>3. text # <<>> /\ text[1] = minus /\ Tail(text) = rest
    BY <1>4, <2>1, <2>2, Zenon
  <2>4. QED
    BY <1>3, <1>7, <2>3, Zenon DEF text, minus
<1>8. QED
  BY <1>6, <1>7

\* The bounds on what is written leave room for the digits that decide.
LEMMA NumbersFit ==
  ASSUME NEW v \in 0..MaxWhole, NEW t \in 0..9, NEW m \in {1, Kilo, Mega}
  PROVE  /\ m \in Nat \ {0}
         /\ v < 2^MantissaBits * 1 /\ v * m < 2^MantissaBits * 1
         /\ 10 * v + t < 2^MantissaBits * 10 /\ (10 * v + t) * m < 2^MantissaBits * 10
         /\ 21 * (((10 * v + t) + 1) * m) <= 10 * 2^MantissaBits
<1> DEFINE H == 2^MantissaBits
           w == MaxWhole + 1
           top == w * Mega
           N == 10 * v + t
<1>1. /\ MaxWhole \in Nat /\ w \in Nat \ {0} /\ v \in Nat /\ v + 1 <= w
      /\ N \in Nat /\ N + 1 <= 10 * w
  BY NumberAssumption
<1>2. m \in Nat \ {0} /\ Mega \in Nat \ {0} /\ m <= Mega
  BY HtmlParserAssumption, NumberAssumption
<1>h. H \in Nat
  BY HtmlParserAssumption, PowerCounts
<1>3. 21 * top <= H
  <2>1. 21 * w * Mega <= H
    BY NumberAssumption, Zenon
  <2>2. 21 * w * Mega = 21 * (w * Mega)
    <3> HIDE DEF w
    <3>1. QED
      BY <1>1, <1>2, SMT
  <2>3. QED
    BY <2>1, <2>2, Zenon
<1> HIDE DEF H, w, N
<1>4. /\ (v + 1) * m <= w * m /\ w * m <= top
      /\ (N + 1) * m <= (10 * w) * m
  <2>1. (v + 1) * m <= w * m
    BY <1>1, <1>2, TimesGrows
  <2>2. m * w <= Mega * w
    BY <1>1, <1>2, TimesGrows
  <2>3. m * w = w * m /\ Mega * w = w * Mega
    BY <1>1, <1>2, SMT
  <2>4. 10 * w \in Int
    BY <1>1
  <2>5. (N + 1) * m <= (10 * w) * m
    BY <1>1, <1>2, <2>4, TimesGrows
  <2>6. QED
    BY <2>1, <2>2, <2>3, <2>5, Zenon
<1> DEFINE vm == v * m
           Nm == N * m
           wm == w * m
<1>5. /\ (v + 1) * m = vm + m /\ (N + 1) * m = Nm + m /\ (10 * w) * m = 10 * wm
      /\ vm \in Nat /\ Nm \in Nat /\ wm \in Nat /\ top \in Nat
  BY <1>1, <1>2, SMT
<1>6. v <= vm /\ N <= Nm
  <2>1. 1 * v <= m * v /\ 1 * N <= m * N
    BY <1>1, <1>2, TimesGrows
  <2>2. m * v = v * m /\ m * N = N * m /\ 1 * v = v /\ 1 * N = N
    BY <1>1, <1>2, SMT
  <2>3. QED
    BY <2>1, <2>2, Zenon
<1> HIDE DEF vm, Nm, wm, top
<1>7. /\ vm + m <= wm /\ wm <= top /\ Nm + m <= 10 * wm
  BY <1>4, <1>5, Zenon DEF wm
<1>8. /\ v < H * 1 /\ vm < H * 1 /\ N < H * 10 /\ Nm < H * 10
      /\ 21 * (Nm + m) <= 10 * H
  BY <1>1, <1>2, <1>3, <1>5, <1>6, <1>7, <1>h
<1>9. QED
  BY <1>2, <1>5, <1>8, Zenon DEF H, N, vm, Nm

\* The amount that Habr shows, without what comes after the decimal point.
ShownCount(number) == ((10 * number.whole + Tenth(number)) * Scale(number)) \div 10

Close(number, counted) ==
  \/ counted = ShownCount(number)
  \/ counted = ShownCount(number) - 1 /\ Tenth(number) # 0 /\ Scale(number) # 1

\* The truncated product is close to what Habr shows.
LEMMA ExactProduct ==
  ASSUME NEW number \in Numbers,
         NEW product, product = Product(Exact(number), Scale(number))
  PROVE  /\ product.num \div product.den \in Int
         /\ Close(number, product.num \div product.den)
<1> DEFINE v == number.whole
           t == Tenth(number)
           m == Scale(number)
           c == product.num \div product.den
<1>1. v \in 0..MaxWhole /\ t \in 0..9 /\ m \in {1, Kilo, Mega}
  <2>1. v \in 0..MaxWhole
    BY DEF Numbers
  <2>2. t \in 0..9
    <3>1. number.tenths # <<>> => number.tenths[1] \in 0..9
      BY CleanedDecimals, Zenon
    <3>2. 0 \in 0..9
      OBVIOUS
    <3>3. QED
      BY <3>1, <3>2, Zenon DEF Tenth
  <2>3. m \in {1, Kilo, Mega}
    BY Zenon DEF Scale
  <2>4. QED
    BY <2>1, <2>2, <2>3
<1>2. v \in Nat /\ m \in Nat \ {0} /\ MaxWhole \in Nat
  <2>1. MaxWhole \in Nat
    BY NumberAssumption
  <2>2. v \in Nat
    BY <1>1, <2>1
  <2>3. QED
    BY <1>1, <2>1, <2>2, NumbersFit, Zenon
<1>3. \/ t = 0 /\ \E D \in Nat \ {0} : Exact(number) = [num |-> v * D, den |-> D]
      \/ Exact(number) = [num |-> 10 * v + t, den |-> 10]
  <2>1. CASE number.tenths = <<>>
    <3>1. t = 0 /\ Exact(number) = [num |-> v, den |-> 1]
      BY <2>1, Zenon DEF Tenth, Exact
    <3>2. v * 1 = v /\ 1 \in Nat \ {0}
      BY <1>2
    <3>3. QED
      BY <3>1, <3>2, Zenon
  <2>2. CASE number.tenths # <<>>
    BY <2>2, Zenon DEF Tenth, Exact
  <2>3. QED
    BY <2>1, <2>2
<1> HIDE DEF v, t, m
<1>4. ASSUME t = 0, NEW D \in Nat \ {0}, Exact(number) = [num |-> v * D, den |-> D]
      PROVE  c \in Int /\ Close(number, c)
  <2>1. v * D \in Nat /\ m \in Nat
    BY <1>2, SMT
  <2>2. c = v * m
    <3>1. product = Product([num |-> v * D, den |-> D], m)
      BY <1>4, Zenon DEF m
    <3>2. ASSUME NEW N \in Nat, N = v * D, product = Product([num |-> N, den |-> D], m)
          PROVE  product.num \div product.den = v * m
      BY <1>2, <2>1, <3>2, WholeProduct
    <3>3. QED
      BY <2>1, <3>1, <3>2, Zenon
  <2> HIDE DEF c
  <2>3. ((10 * v + 0) * m) \div 10 = v * m /\ v * m \in Int
    <3>1. (10 * v + 0) * m = 10 * (v * m) /\ v * m \in Nat
      BY <1>2, SMT
    <3>2. ASSUME NEW b \in Nat PROVE (10 * b) \div 10 = b
      OBVIOUS
    <3>3. v * m \in Int
      BY <3>1
    <3>4. QED
      BY <3>1, <3>2, <3>3, Zenon
  <2>4. QED
    BY <1>4, <2>2, <2>3, Zenon DEF Close, ShownCount, v, t, m
<1>5. ASSUME Exact(number) = [num |-> 10 * v + t, den |-> 10]
      PROVE  c \in Int /\ Close(number, c)
  <2> DEFINE N == 10 * v + t
  <2>1. CASE t = 0
    <3>1. 10 * v + t = v * 10 /\ 10 \in Nat \ {0}
      BY <1>2, <2>1
    <3>2. QED
      BY <1>4, <1>5, <2>1, <3>1, Zenon
  <2>2. CASE t # 0
    <3>1. N \in Nat \ {0} /\ N % 10 = t
      BY <1>1, <1>2, <2>2
    <3>2. 21 * ((N + 1) * m) <= 10 * 2^MantissaBits
      BY <1>1, NumbersFit, Zenon
    <3> DEFINE A == N * m
    <3> HIDE DEF N
    <3>3. /\ c = A \div 10 \/ c = A \div 10 - 1
          /\ A % 10 # 0 => c = A \div 10
      <4>1. product = Product([num |-> N, den |-> 10], m)
        BY <1>5, Zenon DEF N, m
      <4>2. ASSUME NEW n \in Nat \ {0}, NEW k \in Nat \ {0},
                   21 * ((n + 1) * k) <= 10 * 2^MantissaBits,
                   product = Product([num |-> n, den |-> 10], k)
            PROVE  /\ \/ product.num \div product.den = (n * k) \div 10
                      \/ product.num \div product.den = (n * k) \div 10 - 1
                   /\ (n * k) % 10 # 0 => product.num \div product.den = (n * k) \div 10
        BY <4>2, DecimalProduct
      <4>3. QED
        BY <1>2, <3>1, <3>2, <4>1, <4>2, Zenon
    <3>4. A \in Nat
      BY <1>2, <3>1, SMT
    <3>5. m = 1 => A % 10 # 0
      BY <2>2, <3>1
    <3>6. A \div 10 = ShownCount(number)
      BY Zenon DEF ShownCount, N, v, t, m
    <3> HIDE DEF A, c
    <3>7. c \in Int
      BY <3>3, <3>4
    <3>8. QED
      BY <2>2, <3>3, <3>5, <3>6, <3>7, Zenon DEF Close, t, m
  <2>3. QED
    BY <2>1, <2>2
<1>6. QED
  BY <1>3, <1>4, <1>5

\* ParseCount reads a counter as the number Habr shows, truncated to an
\* integer; only where it scales decimals may it be one less.
THEOREM CountReadsWhatIsShown ==
  ASSUME NEW number \in Numbers
  PROVE  \E counted \in Int :
           /\ Close(number, counted)
           /\ ParseCount(Written(number)) = IF number.sign = <<>> THEN counted
                                                                 ELSE -counted
<1> DEFINE raw == Written(number)
           text == Cleaned(raw)
           negative == text # <<>> /\ text[1] = "-"
           exact == Stod(IF negative THEN Tail(text) ELSE text)
           Fits(x) == x.num < 2^MantissaBits * x.den
           Times(x) == [x EXCEPT !.num = @ * Multiplier(raw)]
           product == Double(Times(Double(exact)))
<1>1. ParseCount(raw) =
        IF ~(Fits(exact) /\ Fits(Times(exact))) THEN Beyond
        ELSE IF negative THEN -(product.num \div product.den)
        ELSE product.num \div product.den
  BY Zenon DEF ParseCount
<1>2. exact = Exact(number) /\ (negative <=> number.sign # <<>>)
  <2> HIDE DEF text
  <2>1. QED
    BY ExactRead, Zenon DEF text
<1>3. Multiplier(raw) = Scale(number)
  BY CleanedNumber, Zenon
<1>4. product = Product(Exact(number), Scale(number))
  BY <1>2, <1>3, Zenon DEF Product, Scaled
<1>5. Fits(exact) /\ Fits(Times(exact))
  <2> DEFINE v == number.whole
             m == Scale(number)
  <2>1. v \in 0..MaxWhole /\ m \in {1, Kilo, Mega} /\ 0 \in 0..9
    <3>1. v \in 0..MaxWhole
      BY DEF Numbers
    <3>2. 0 \in 0..9
      OBVIOUS
    <3>3. QED
      BY <3>1, <3>2, Zenon DEF Scale
  <2>2. Times(exact) = Scaled(Exact(number), m)
    BY <1>2, <1>3, Zenon DEF Scaled
  <2> HIDE DEF v, m, exact, Times
  <2>3. CASE number.tenths = <<>>
    <3>1. Exact(number) = [num |-> v, den |-> 1]
      BY <2>3, Zenon DEF Exact, v
    <3>2. v < 2^MantissaBits * 1 /\ v * m < 2^MantissaBits * 1
      BY <2>1, NumbersFit, Zenon
    <3>3. Scaled([num |-> v, den |-> 1], m) = [num |-> v * m, den |-> 1]
      BY DEF Scaled
    <3>4. QED
      BY <1>2, <2>2, <3>1, <3>2, <3>3
  <2>4. CASE number.tenths # <<>>
    <3> DEFINE t == number.tenths[1]
               N == 10 * v + t
    <3>1. Exact(number) = [num |-> N, den |-> 10]
      BY <2>4, Zenon DEF Exact, v
    <3>2. N < 2^MantissaBits * 10 /\ N * m < 2^MantissaBits * 10
      <4>1. t \in 0..9
        BY <2>4, CleanedDecimals, Zenon
      <4>2. QED
        BY <2>1, <4>1, NumbersFit, Zenon
    <3> HIDE DEF N
    <3>3. Scaled([num |-> N, den |-> 10], m) = [num |-> N * m, den |-> 10]
      BY DEF Scaled
    <3>4. QED
      BY <1>2, <2>2, <3>1, <3>2, <3>3
  <2>5. QED
    BY <2>3, <2>4
<1> DEFINE counted == product.num \div product.den
<1>6. counted \in Int /\ Close(number, counted)
  <2> HIDE DEF product
  <2>1. QED
    BY <1>4, ExactProduct, Zenon
<1> HIDE DEF negative, exact, Fits, Times, product
<1>7. ParseCount(raw) = IF number.sign = <<>> THEN counted ELSE -counted
  BY <1>1, <1>2, <1>5, Zenon
<1>8. QED
  BY <1>6, <1>7, Zenon

\* What CountIsClose says of the numbers that TLC enumerates, up to any bound that
\* leaves a double room for them (ParseCount).
THEOREM CountClose == Spec => []CountIsClose
<1>1. JobInv => CountIsClose
  <2> SUFFICES ASSUME JobInv, Done("count") PROVE CountIsClose
    BY DEF CountIsClose
  <2>1. job \in Numbers
    BY Kinds DEF Done
  <2>2. result = ParseCount(Written(job))
    <3>1. result = Result /\ job.kind = "count"
      BY DEF JobInv, Done
    <3>2. QED
      BY <3>1 DEF Result
  <2>3. PICK counted \in Int :
          /\ Close(job, counted)
          /\ result = IF job.sign = <<>> THEN counted ELSE -counted
    BY <2>1, <2>2, CountReadsWhatIsShown, Zenon
  <2>4. (IF job.sign = <<>> THEN result ELSE -result) = counted
    BY <2>3
  <2> DEFINE scale == IF job.suffix \in Thousands THEN Kilo
                      ELSE IF job.suffix \in Millions THEN Mega ELSE 1
             tenth == IF job.tenths = <<>> THEN 0 ELSE job.tenths[1]
             shown == ((10 * job.whole + tenth) * scale) \div 10
  <2>5. \/ counted = shown
        \/ counted = shown - 1 /\ tenth # 0 /\ scale # 1
    BY <2>3, Zenon DEF Close, ShownCount, Tenth, Scale
  <2> HIDE DEF scale, tenth, shown
  <2>6. QED
    BY <2>4, <2>5, Zenon DEF CountIsClose, scale, tenth, shown
<1>2. QED
  BY <1>1, JobAlways, PTL

-----------------------------------------------------------------------------
(* Pages                                                                   *)

\* A set of positions has a first and a last one.
LEMMA Extremes ==
  ASSUME NEW n \in Nat, NEW S \in SUBSET (1..n), S # {}
  PROVE  /\ Min(S) \in S /\ \A y \in S : Min(S) <= y
         /\ Max(S) \in S /\ \A y \in S : Max(S) >= y
<1>1. \E x \in S : \A y \in S : x <= y
  <2>1. S \in SUBSET Nat
    OBVIOUS
  <2>2. QED
    BY <2>1, LeastNumber
<1>2. \E x \in S : \A y \in S : x >= y
  <2> DEFINE T == {n - x : x \in S}
  <2>1. T \in SUBSET Nat /\ T # {}
    <3>1. \A x \in S : n - x \in Nat
      OBVIOUS
    <3>2. QED
      BY <3>1, Zenon
  <2> HIDE DEF T
  <2>2. PICK t \in T : \A u \in T : t <= u
    BY <2>1, LeastNumber
  <2>3. PICK x \in S : t = n - x
    BY <2>2 DEF T
  <2>4. ASSUME NEW y \in S PROVE x >= y
    <3>1. n - y \in T
      BY DEF T
    <3>2. n - x <= n - y
      BY <2>2, <2>3, <3>1
    <3>3. QED
      BY <3>2
  <2>5. QED
    BY <2>4
<1>3. QED
  BY <1>1, <1>2, Zenon DEF Min, Max

\* A text that is not empty and neither begins nor ends with a blank.
Solid(text) == text # <<>> /\ {text[1], text[Len(text)]} \cap Blanks = {}

\* What a query finds, and finds in words.
FoundTexts(Char) == Seq(Char) \union {NoNode}

HasInk(found) == found # NoNode /\ \E i \in DOMAIN found : found[i] \notin Blanks

\* Trim leaves nothing of blanks, and of a text with ink what is between its
\* first and its last character that is not blank.
LEMMA ContentIsSolid ==
  ASSUME NEW Char, NEW found \in FoundTexts(Char)
  PROVE  /\ Content(found) \in Seq(Char)
         /\ HasInk(found) <=> Content(found) # <<>>
         /\ HasInk(found) => Solid(Content(found))
<1>1. CASE found = NoNode
  <2>1. Content(found) = <<>> /\ ~HasInk(found)
    BY <1>1, Zenon DEF Content, HasInk
  <2>2. QED
    BY <2>1, Nothing, Zenon
<1>2. CASE found # NoNode
  <2>1. found \in Seq(Char) /\ Content(found) = Trim(found)
    BY <1>2, Zenon DEF FoundTexts, Content
  <2>2. HasInk(found) <=> Inked(found) # {}
    BY <1>2, Zenon DEF HasInk, Inked
  <2> DEFINE n == Len(found)
             first == Min(Inked(found))
             last == Max(Inked(found))
             text == SubSeq(found, first, last)
  <2>3. CASE Inked(found) = {}
    <3>1. Trim(found) = <<>>
      BY <2>3, Zenon DEF Trim
    <3>2. QED
      BY <2>1, <2>2, <2>3, <3>1, Nothing, Zenon
  <2>4. CASE Inked(found) # {}
    <3>1. n \in Nat /\ Inked(found) \in SUBSET (1..n)
          /\ \A i \in 1..n : found[i] \in Char
      BY <2>1 DEF Inked
    <3>2. /\ first \in Inked(found) /\ last \in Inked(found) /\ first <= last
      BY <2>4, <3>1, Extremes, Zenon
    <3>3. found[first] \notin Blanks /\ found[last] \notin Blanks
      BY <3>2, Zenon DEF Inked
    <3>4. Trim(found) = text
      BY <2>4, Zenon DEF Trim
    <3> HIDE DEF first, last
    <3>5. first \in 1..n /\ last \in 1..n
      BY <3>1, <3>2
    <3>6. /\ text \in Seq(Char) /\ Len(text) = last - first + 1
          /\ text[1] = found[first] /\ text[last - first + 1] = found[last]
      <4>1. /\ text \in Seq(Char) /\ Len(text) = last - first + 1
            /\ \A i \in 1..(last - first + 1) : text[i] = found[first + i - 1]
        BY <2>1, <3>2, <3>5
      <4>2. /\ 1 \in 1..(last - first + 1) /\ last - first + 1 \in 1..(last - first + 1)
            /\ first + 1 - 1 = first /\ first + (last - first + 1) - 1 = last
        BY <3>1, <3>2, <3>5
      <4> HIDE DEF text
      <4>3. QED
        BY <4>1, <4>2, Zenon
    <3> HIDE DEF text
    <3>7. text # <<>> /\ Len(text) # 0
      BY <3>1, <3>2, <3>5, <3>6
    <3>8. Solid(text)
      BY <3>3, <3>6, <3>7, Zenon DEF Solid
    <3>9. QED
      BY <2>1, <2>2, <2>4, <3>4, <3>6, <3>7, <3>8, Zenon
  <2>5. QED
    BY <2>3, <2>4
<1>3. QED
  BY <1>1, <1>2

\* How many of a set of numbers come up to i.
KeptUpTo(keep, i) == Cardinality({k \in keep : k <= i})

\* Counting up to the next position counts it when it is kept.
LEMMA KeptUpToGrows ==
  ASSUME NEW n \in Nat, NEW keep \in SUBSET (1..n), NEW k \in 0..(n - 1)
  PROVE  /\ KeptUpTo(keep, k) \in Nat /\ KeptUpTo(keep, 0) = 0
         /\ KeptUpTo(keep, n) = Cardinality(keep)
         /\ k + 1 \in keep => KeptUpTo(keep, k + 1) = KeptUpTo(keep, k) + 1
         /\ k + 1 \notin keep => KeptUpTo(keep, k + 1) = KeptUpTo(keep, k)
         /\ \A i \in keep : i <= k => KeptUpTo(keep, i) \in 1..KeptUpTo(keep, k)
<1> DEFINE Up(i) == {l \in keep : l <= i}
<1>1. \A i \in 0..n : IsFiniteSet(Up(i))
  <2>1. IsFiniteSet(1..n)
    BY FS_Interval
  <2>2. \A i \in 0..n : Up(i) \subseteq 1..n
    OBVIOUS
  <2>3. QED
    BY <2>1, <2>2, FS_Subset, Zenon
<1>k. k \in 0..n /\ k + 1 \in 0..n
  OBVIOUS
<1>s. \A l \in keep : l \in 1..n
  OBVIOUS
<1>a. /\ \A l \in keep : /\ ~(l <= 0) /\ l <= n /\ l <= l /\ l \in 0..n
                           /\ l <= k + 1 <=> l <= k \/ l = k + 1
      /\ ~(k + 1 <= k)
      /\ \A i, l \in keep : l <= i /\ i <= k => l <= k
  <2>1. keep \subseteq 1..n
    OBVIOUS
  <2>2. \A l \in 1..n : /\ ~(l <= 0) /\ l <= n /\ l <= l /\ l \in 0..n
                         /\ l <= k + 1 <=> l <= k \/ l = k + 1
    OBVIOUS
  <2>3. ~(k + 1 <= k) /\ \A i, l \in 1..n : l <= i /\ i <= k => l <= k
    OBVIOUS
  <2>4. QED
    BY <2>1, <2>2, <2>3, Zenon
<1>u. \A i, l : l \in Up(i) <=> l \in keep /\ l <= i
  BY Zenon
<1> HIDE DEF Up
<1>b. \A l \in keep : ~(l <= 0)
  BY <1>s
<1>c. \A l \in keep : l <= n
  BY <1>s
<1>d. \A l \in keep : l <= k + 1 <=> l <= k \/ l = k + 1
  BY <1>s
<1>e. ~(k + 1 <= k)
  BY <1>a, Zenon
<1>2. Up(0) = {} /\ Up(n) = keep
  <2>1. \A l : l \notin Up(0)
    BY <1>b, <1>u, Zenon
  <2>2. \A l : l \in Up(n) <=> l \in keep
    BY <1>c, <1>u, Zenon
  <2>3. QED
    BY <2>1, <2>2, Zenon
<1>3. k + 1 \in keep => Up(k + 1) = Up(k) \union {k + 1} /\ k + 1 \notin Up(k)
  <2>1. ASSUME k + 1 \in keep, NEW l
        PROVE  l \in Up(k + 1) <=> l \in Up(k) \/ l = k + 1
    BY <1>d, <1>u, <2>1, Zenon
  <2>2. k + 1 \notin Up(k)
    BY <1>e, <1>u, Zenon
  <2>3. QED
    BY <2>1, <2>2, Zenon
<1>4. k + 1 \notin keep => Up(k + 1) = Up(k)
  <2>1. ASSUME k + 1 \notin keep, NEW l
        PROVE  l \in Up(k + 1) <=> l \in Up(k)
    BY <1>d, <1>u, <2>1, Zenon
  <2>2. QED
    BY <2>1, Zenon
<1>5. \A i \in keep : i <= k => Up(i) \subseteq Up(k) /\ i \in Up(i) /\ i \in 0..n
  BY <1>a, <1>u, Zenon
<1>6. Cardinality(Up(k)) \in Nat
  BY <1>1, <1>k, FS_CardinalityType, Zenon
<1>7. k + 1 \in keep => Cardinality(Up(k + 1)) = Cardinality(Up(k)) + 1
  BY <1>1, <1>3, <1>k, FS_AddElement
<1>8. ASSUME NEW i \in keep, i <= k
      PROVE  Cardinality(Up(i)) \in 1..Cardinality(Up(k))
  <2>1. Up(i) \subseteq Up(k) /\ i \in Up(i) /\ IsFiniteSet(Up(i)) /\ IsFiniteSet(Up(k))
    BY <1>1, <1>5, <1>8, <1>k, Zenon
  <2>2. Cardinality(Up(i)) <= Cardinality(Up(k))
    BY <2>1, FS_Subset
  <2>3. Cardinality(Up(i)) \in Nat
    BY <2>1, FS_CardinalityType, Zenon
  <2>4. Cardinality(Up(i)) # 0
    BY <2>1, FS_EmptySet, Zenon
  <2>5. QED
    BY <1>6, <2>2, <2>3, <2>4
<1>9. Cardinality({}) = 0
  BY FS_EmptySet
<1>10. QED
  BY <1>2, <1>4, <1>6, <1>7, <1>8, <1>9, Zenon DEF KeptUpTo, Up

\* What is pushed for those of a sequence that a condition keeps: they alone,
\* all of them, and in their order.
Filtered(r, s, keep, k) ==
  /\ Len(r) = KeptUpTo(keep, k)
  /\ \A i \in keep : i <= k => r[KeptUpTo(keep, i)] = s[i]
  /\ \A j \in 1..Len(r) : \E i \in keep : r[j] = s[i]

\* A loop that pushes under a condition filters.
LEMMA PushedAreKept ==
  ASSUME NEW Elem, NEW s \in Seq(Elem), NEW keep \in SUBSET (1..Len(s)),
         NEW r, r = FlattenSeq([i \in 1..Len(s) |-> Pushed(i \in keep, s[i])])
  PROVE  r \in Seq(Elem) /\ Filtered(r, s, keep, Len(s))
<1> DEFINE n == Len(s)
           parts == [i \in 1..n |-> Pushed(i \in keep, s[i])]
<1>n. n \in Nat /\ keep \in SUBSET (1..n) /\ \A i \in 1..n : s[i] \in Elem
  OBVIOUS
<1>r. r = FlattenSeq(parts)
  OBVIOUS
<1> HIDE DEF n
<1>p. /\ \A i \in keep : parts[i] = <<s[i]>>
      /\ \A i \in (1..n) \ keep : parts[i] = <<>>
      /\ parts \in Seq(Seq(Elem)) /\ Len(parts) = n
  <2>1. \A i \in keep : parts[i] = <<s[i]>>
    BY <1>n, Zenon DEF Pushed
  <2>2. \A i \in (1..n) \ keep : parts[i] = <<>>
    BY <1>n, Zenon DEF Pushed
  <2>3. \A i \in 1..n : <<s[i]>> \in Seq(Elem) /\ <<>> \in Seq(Elem)
    BY <1>n
  <2>4. \A i \in 1..n : Pushed(i \in keep, s[i]) \in Seq(Elem)
    BY <2>3, Zenon DEF Pushed
  <2>5. parts \in [1..n -> Seq(Elem)]
    BY <2>4, Zenon
  <2> HIDE DEF parts
  <2>6. parts \in Seq(Seq(Elem)) /\ Len(parts) = n
    BY <1>n, <2>5
  <2>7. QED
    BY <2>1, <2>2, <2>6
<1> HIDE DEF parts
<1>1. CASE n = 0
  <2>1. r = <<>>
    <3>1. parts = <<>>
      BY <1>1, <1>p
    <3>2. FlattenSeq(<<>>) = <<>>
      BY DEF FlattenSeq
    <3>3. QED
      BY <1>r, <3>1, <3>2, Zenon
  <2>e. keep = {}
    BY <1>1, <1>n
  <2>2. \A k : {i \in keep : i <= k} = {}
    BY <2>e, Zenon
  <2>3. KeptUpTo(keep, n) = 0
    BY <2>2, FS_EmptySet, Zenon DEF KeptUpTo
  <2>4. QED
    <3>1. <<>> \in Seq(Elem) /\ Len(<<>>) = 0 /\ 1..0 = {}
      OBVIOUS
    <3>2. Filtered(<<>>, s, keep, n)
      BY <2>e, <2>3, <3>1, Zenon DEF Filtered
    <3>3. QED
      BY <2>1, <3>1, <3>2, Zenon DEF n
<1>2. CASE n # 0
  <2>1. PICK flat \in [1..n -> Seq(Elem)] : Joined(flat, parts, n) /\ r = flat[n]
    BY <1>2, <1>p, <1>r, FlattenJoins
  <2> DEFINE Good(k) == Filtered(flat[k], s, keep, k)
             S == {k \in 1..n : Good(k)}
  <2>2. ASSUME NEW k \in 0..(n - 1), NEW old \in Seq(Elem), Filtered(old, s, keep, k),
               k + 1 \in keep, NEW new, new = Append(old, s[k + 1])
        PROVE  Filtered(new, s, keep, k + 1)
    <3>1. /\ KeptUpTo(keep, k) \in Nat /\ KeptUpTo(keep, k + 1) = KeptUpTo(keep, k) + 1
          /\ \A i \in keep : i <= k => KeptUpTo(keep, i) \in 1..KeptUpTo(keep, k)
      BY <1>n, <2>2, KeptUpToGrows
    <3> DEFINE l == KeptUpTo(keep, k)
    <3>2. /\ l \in Nat /\ Len(old) = l
          /\ \A i \in keep : i <= k => old[KeptUpTo(keep, i)] = s[i]
          /\ \A j \in 1..l : \E i \in keep : old[j] = s[i]
      BY <2>2, <3>1 DEF Filtered
    <3> HIDE DEF l
    <3>3. /\ Len(new) = l + 1 /\ new[l + 1] = s[k + 1]
          /\ \A j \in 1..l : new[j] = old[j]
      <4>1. s[k + 1] \in Elem
        BY <1>n, <2>2
      <4>2. QED
        BY <2>2, <3>2, <4>1
    <3>4. Len(new) = KeptUpTo(keep, k + 1)
      BY <3>1, <3>3 DEF l
    <3>5. ASSUME NEW i \in keep, i <= k + 1 PROVE new[KeptUpTo(keep, i)] = s[i]
      <4>1. CASE i <= k
        BY <3>1, <3>2, <3>3, <4>1 DEF l
      <4>2. CASE i = k + 1
        BY <3>1, <3>3, <4>2 DEF l
      <4>3. i \in 1..n
        BY <1>n
      <4>4. i <= k \/ i = k + 1
        BY <3>5, <4>3, <1>n
      <4>5. QED
        BY <4>1, <4>2, <4>4
    <3>6. ASSUME NEW j \in 1..Len(new) PROVE \E i \in keep : new[j] = s[i]
      <4>1. j \in 1..l \/ j = l + 1
        BY <3>2, <3>3
      <4>2. QED
        BY <2>2, <3>2, <3>3, <4>1, Zenon
    <3>7. QED
      BY <3>4, <3>5, <3>6, Zenon DEF Filtered
  <2>3. ASSUME NEW k \in 0..(n - 1), NEW old \in Seq(Elem), Filtered(old, s, keep, k),
               k + 1 \notin keep
        PROVE  Filtered(old, s, keep, k + 1)
    <3>1. KeptUpTo(keep, k + 1) = KeptUpTo(keep, k)
      BY <1>n, <2>3, KeptUpToGrows
    <3>2. \A i \in keep : i <= k + 1 => i <= k
      BY <1>n, <2>3
    <3>3. QED
      BY <2>3, <3>1, <3>2, Zenon DEF Filtered
  <2>4. Filtered(<<>>, s, keep, 0)
    <3>1. 0 \in 0..(n - 1)
      BY <1>2, <1>n
    <3>2. KeptUpTo(keep, 0) = 0
      BY <1>n, <3>1, KeptUpToGrows
    <3>3. \A i \in keep : ~(i <= 0)
      BY <1>n
    <3>4. QED
      BY <3>2, <3>3 DEF Filtered
  <2>5. \A x \in Elem : Append(<<>>, x) = <<x>>
    OBVIOUS
  <2>6. 1 \in S
    <3>1. 1 \in 1..n /\ 0 \in 0..(n - 1) /\ 0 + 1 = 1 /\ <<>> \in Seq(Elem)
      BY <1>2, <1>n
    <3>2. flat[1] = parts[1]
      BY <2>1, <3>1 DEF Joined
    <3>3. CASE 1 \in keep
      <4>1. flat[1] = Append(<<>>, s[1])
        BY <1>n, <1>p, <2>5, <3>1, <3>2, <3>3
      <4>2. Filtered(flat[1], s, keep, 0 + 1)
        BY <2>2, <2>4, <3>1, <3>3, <4>1
      <4>3. QED
        BY <3>1, <4>2
    <3>4. CASE 1 \notin keep
      <4>1. flat[1] = <<>>
        BY <1>p, <3>1, <3>2, <3>4
      <4>2. Filtered(<<>>, s, keep, 0 + 1)
        BY <2>3, <2>4, <3>1, <3>4
      <4>3. QED
        BY <3>1, <4>1, <4>2
    <3>5. QED
      BY <3>3, <3>4
  <2>7. ASSUME NEW k \in 1..(n - 1), k \in S PROVE k + 1 \in S
    <3>1. /\ k \in 0..(n - 1) /\ k \in 1..n /\ k + 1 \in 1..n
          /\ k + 1 # 1 /\ (k + 1) - 1 = k
      BY <1>n
    <3>2. flat[k + 1] = flat[k] \o parts[k + 1] /\ flat[k] \in Seq(Elem)
      BY <2>1, <3>1 DEF Joined
    <3>3. Filtered(flat[k], s, keep, k)
      BY <2>7
    <3>4. CASE k + 1 \in keep
      <4>1. flat[k + 1] = flat[k] \o <<s[k + 1]>>
        BY <1>p, <3>2, <3>4
      <4>2. flat[k + 1] = Append(flat[k], s[k + 1])
        BY <1>n, <3>1, <3>2, <4>1, AppendTwo
      <4>3. Filtered(flat[k + 1], s, keep, k + 1)
        BY <2>2, <3>1, <3>2, <3>3, <3>4, <4>2
      <4>4. QED
        BY <3>1, <4>3
    <3>5. CASE k + 1 \notin keep
      <4>1. flat[k + 1] = flat[k]
        <5>1. parts[k + 1] = <<>>
          BY <1>p, <3>1, <3>5
        <5>2. \A text \in Seq(Elem) : text \o <<>> = text
          OBVIOUS
        <5>3. flat[k + 1] = flat[k] \o <<>>
          BY <3>2, <5>1, Zenon
        <5>4. QED
          BY <3>2, <5>2, <5>3, Zenon
      <4>2. Filtered(flat[k], s, keep, k + 1)
        BY <2>3, <3>1, <3>2, <3>3, <3>5
      <4>3. QED
        BY <3>1, <4>1, <4>2
    <3>6. QED
      BY <3>4, <3>5
  <2> HIDE DEF S
  <2>8. n \in S
    <3>1. n \in 1..n
      BY <1>2, <1>n
    <3>2. 1..n \subseteq S
      BY <1>n, <2>6, <2>7, UpTo
    <3>3. QED
      BY <3>1, <3>2
  <2>9. QED
    BY <1>2, <1>n, <2>1, <2>8 DEF S, n
<1>3. QED
  BY <1>1, <1>2

\* A link that Url makes absolute ends like the link and begins with a scheme or
\* with HABR_BASE_URL.
LEMMA UrlIsSolid ==
  ASSUME NEW Char, NEW href \in Seq(Char), Solid(href)
  PROVE  /\ Url(href) # <<>> /\ Url(href)[Len(Url(href))] \notin Blanks
         /\ Url(href)[1] = "http" \/ IsPrefix(BaseUrl, Url(href))
<1>1. href # <<>> /\ href[Len(href)] \notin Blanks
  BY Zenon DEF Solid
<1>2. CASE href[1] = "http"
  BY <1>1, <1>2, Zenon DEF Url
<1>3. CASE href[1] # "http"
  <2> DEFINE All == Char \union Range(BaseUrl)
             url == BaseUrl \o href
             b == Len(BaseUrl)
             l == Len(href)
  <2>1. href \in Seq(All) /\ BaseUrl \in Seq(All)
    <3>1. ASSUME NEW A, NEW B, A \subseteq B PROVE Seq(A) \subseteq Seq(B)
      BY <3>1
    <3>2. Char \subseteq All /\ Range(BaseUrl) \subseteq All
      BY Zenon
    <3> HIDE DEF All
    <3>3. QED
      BY <3>1, <3>2, HtmlParserAssumption, Zenon
  <2>2. Url(href) = url
    BY <1>1, <1>3, Zenon DEF Url
  <2> HIDE DEF All
  <2>3. /\ url \in Seq(All) /\ Len(url) = b + l
        /\ \A i \in 1..b : url[i] = BaseUrl[i]
        /\ \A i \in 1..l : url[b + i] = href[i]
    BY <2>1, JoinAt
  <2>4. b \in Nat /\ l \in Nat /\ l # 0
    BY <1>1, <2>1
  <2>5. url # <<>>
    <3> HIDE DEF url
    <3>1. b + l # 0
      BY <2>4
    <3>2. QED
      BY <2>3, <3>1
  <2>6. url[b + l] = href[l]
    <3>1. l \in 1..l
      BY <2>4
    <3>2. QED
      BY <2>3, <3>1, Zenon
  <2>7. IsPrefix(BaseUrl, url)
    <3> HIDE DEF url, b, l
    <3>1. b <= Len(url)
      BY <2>3, <2>4
    <3>2. SubSeq(BaseUrl, 1, b) = SubSeq(url, 1, b)
      <4>1. BaseUrl \in Seq(All) /\ url \in Seq(All) /\ Len(BaseUrl) = b
        BY <2>1, <2>3 DEF b
      <4>2. QED
        BY <2>3, <2>4, <3>1, <4>1
    <3>3. QED
      BY <3>1, <3>2, Zenon DEF IsPrefix, b
  <2>8. QED
    BY <1>1, <2>2, <2>3, <2>5, <2>6, <2>7, Zenon
<1>4. QED
  BY <1>2, <1>3

\* A hub that is pushed has a name.
LEMMA HubsAreSolid ==
  ASSUME NEW Char, NEW hubs \in Seq(FoundTexts(Char)),
         NEW r, r = FlattenSeq([h \in DOMAIN hubs |->
                      Pushed(Content(hubs[h]) # <<>>, Content(hubs[h]))])
  PROVE  \A h \in DOMAIN r : Solid(r[h])
<1> DEFINE n == Len(hubs)
           names == [h \in 1..n |-> Content(hubs[h])]
           keep == {h \in 1..n : names[h] # <<>>}
<1>1. DOMAIN hubs = 1..n /\ n \in Nat /\ \A h \in 1..n : hubs[h] \in FoundTexts(Char)
  OBVIOUS
<1> HIDE DEF n
<1>2. \A h \in 1..n : /\ names[h] \in Seq(Char)
                      /\ names[h] # <<>> => Solid(names[h])
  BY <1>1, ContentIsSolid, Zenon
<1>3. \A h \in keep : Solid(names[h])
  BY <1>2, Zenon
<1>4. names \in Seq(Seq(Char)) /\ Len(names) = n /\ keep \in SUBSET (1..n)
  <2>1. names \in [1..n -> Seq(Char)]
    BY <1>2, Zenon
  <2> HIDE DEF names
  <2>2. names \in Seq(Seq(Char)) /\ Len(names) = n
    BY <1>1, <2>1
  <2>3. QED
    BY <2>2, Zenon
<1>5. r = FlattenSeq([h \in 1..Len(names) |-> Pushed(h \in keep, names[h])])
  <2>1. \A h \in 1..n : Pushed(Content(hubs[h]) # <<>>, Content(hubs[h]))
                          = Pushed(h \in keep, names[h])
    BY Zenon DEF Pushed
  <2>2. [h \in 1..n |-> Pushed(Content(hubs[h]) # <<>>, Content(hubs[h]))]
          = [h \in 1..n |-> Pushed(h \in keep, names[h])]
    <3> DEFINE a(h) == Pushed(Content(hubs[h]) # <<>>, Content(hubs[h]))
               b(h) == Pushed(h \in keep, names[h])
    <3>1. \A h \in 1..n : a(h) = b(h)
      BY <2>1, Zenon
    <3> HIDE DEF a, b
    <3>2. [h \in 1..n |-> a(h)] = [h \in 1..n |-> b(h)]
      BY <3>1
    <3>3. QED
      BY <3>2, Zenon DEF a, b
  <2> HIDE DEF keep, names
  <2>3. QED
    BY <1>1, <1>4, <2>2, Zenon
<1> HIDE DEF names, keep
<1>6. r \in Seq(Seq(Char)) /\ Filtered(r, names, keep, n)
  <2>1. \A s \in Seq(Seq(Char)) : \A k \in SUBSET (1..Len(s)) :
          r = FlattenSeq([i \in 1..Len(s) |-> Pushed(i \in k, s[i])])
            => r \in Seq(Seq(Char)) /\ Filtered(r, s, k, Len(s))
    BY PushedAreKept, Zenon
  <2>2. keep \in SUBSET (1..Len(names))
    BY <1>4, Zenon
  <2>3. r \in Seq(Seq(Char)) /\ Filtered(r, names, keep, Len(names))
    BY <1>4, <1>5, <2>1, <2>2, Zenon
  <2>4. QED
    BY <1>4, <2>3, Zenon
<1>7. DOMAIN r = 1..Len(r)
  BY <1>6
<1>8. QED
  BY <1>3, <1>6, <1>7, Zenon DEF Filtered

\* An article node, whatever its queries find.
ArticleNodes(Char) ==
  [id : FoundTexts(Char), title : FoundTexts(Char), href : FoundTexts(Char),
   author : FoundTexts(Char), time : FoundTexts(Char), complexity : FoundTexts(Char),
   reading_time : FoundTexts(Char), views : FoundTexts(Char),
   views_title : FoundTexts(Char), votes : FoundTexts(Char),
   bookmarks : FoundTexts(Char), comments : FoundTexts(Char),
   hubs : Seq(FoundTexts(Char))]

Clean(article, node) ==
  /\ Solid(article.article_id) /\ Solid(article.title)
  /\ \A h \in DOMAIN article.hubs : Solid(article.hubs[h])
  /\ HasInk(node.href) =>
       /\ article.url # <<>>
       /\ article.url[Len(article.url)] \notin Blanks
       /\ article.url[1] = "http" \/ IsPrefix(BaseUrl, article.url)
  /\ article.views = ParseCount(Content(IF HasInk(node.views_title)
                                          THEN node.views_title ELSE node.views))

\* ParseArticle keeps a node with an id and a title, and leaves no blanks at the
\* ends of what it takes.
LEMMA ArticleIsClean ==
  ASSUME NEW Char, NEW node \in ArticleNodes(Char)
  PROVE  /\ IsKept(Article(node)) <=> HasInk(node.id) /\ HasInk(node.title)
         /\ IsKept(Article(node)) => Clean(Article(node), node)
<1> DEFINE article == Article(node)
<1>1. /\ article.article_id = Content(node.id) /\ article.title = Content(node.title)
      /\ article.url = Url(Content(node.href))
      /\ article.views = ParseCount(Content(IF Content(node.views_title) = <<>>
                                              THEN node.views ELSE node.views_title))
      /\ article.hubs = FlattenSeq([h \in DOMAIN node.hubs |->
                          Pushed(Content(node.hubs[h]) # <<>>, Content(node.hubs[h]))])
  BY DEF Article
<1>2. /\ node.id \in FoundTexts(Char) /\ node.title \in FoundTexts(Char)
      /\ node.href \in FoundTexts(Char) /\ node.views_title \in FoundTexts(Char)
      /\ node.hubs \in Seq(FoundTexts(Char))
  BY DEF ArticleNodes
<1> HIDE DEF article
<1>3. \A found \in FoundTexts(Char) : /\ Content(found) \in Seq(Char)
                                      /\ HasInk(found) <=> Content(found) # <<>>
                                      /\ HasInk(found) => Solid(Content(found))
  BY ContentIsSolid, Zenon
<1>4. IsKept(article) <=> HasInk(node.id) /\ HasInk(node.title)
  BY <1>1, <1>2, <1>3, Zenon DEF IsKept
<1>5. IsKept(article) => Solid(article.article_id) /\ Solid(article.title)
  BY <1>1, <1>2, <1>3, <1>4, Zenon
<1>6. \A h \in DOMAIN article.hubs : Solid(article.hubs[h])
  BY <1>1, <1>2, HubsAreSolid, Zenon
<1>7. HasInk(node.href) =>
        /\ article.url # <<>>
        /\ article.url[Len(article.url)] \notin Blanks
        /\ article.url[1] = "http" \/ IsPrefix(BaseUrl, article.url)
  <2>1. \A href \in Seq(Char) : Solid(href) =>
          /\ Url(href) # <<>> /\ Url(href)[Len(Url(href))] \notin Blanks
          /\ Url(href)[1] = "http" \/ IsPrefix(BaseUrl, Url(href))
    BY UrlIsSolid, Zenon
  <2>2. QED
    BY <1>1, <1>2, <1>3, <2>1, Zenon
<1>8. article.views = ParseCount(Content(IF HasInk(node.views_title)
                                           THEN node.views_title ELSE node.views))
  BY <1>1, <1>2, <1>3, Zenon
<1>9. QED
  BY <1>4, <1>5, <1>6, <1>7, <1>8, Zenon DEF Clean, article

\* Every article node is an article, at the place its order gives it, or is
\* counted as skipped.
Accounted(nodes, parsed) ==
  LET kept == {i \in DOMAIN nodes : HasInk(nodes[i].id) /\ HasInk(nodes[i].title)}
  IN  /\ Len(parsed.articles) = Cardinality(kept)
      /\ Len(parsed.articles) + parsed.skipped = Len(nodes)
      /\ \A i \in kept : Clean(parsed.articles[KeptUpTo(kept, i)], nodes[i])

\* Parse answers for every article node of every page, of any length and whatever
\* its queries find: it keeps, in document order, those with ink in their id and
\* their title, and counts the others as skipped; an article it keeps is clean.
THEOREM PageIsRead ==
  ASSUME NEW Char, NEW page, page = Unreadable \/ page \in Seq(ArticleNodes(Char)),
         NEW nodes, nodes = IF page = Unreadable THEN <<>> ELSE page
  PROVE  Accounted(nodes, Parse(page))
<1> DEFINE n == Len(nodes)
           read == [i \in 1..n |-> Article(nodes[i])]
           kept == {i \in DOMAIN nodes : HasInk(nodes[i].id) /\ HasInk(nodes[i].title)}
           articles == FlattenSeq([i \in DOMAIN nodes |->
                         Pushed(IsKept(Article(nodes[i])), Article(nodes[i]))])
           Elem == {Article(nodes[i]) : i \in 1..n}
<1>1. nodes \in Seq(ArticleNodes(Char))
  <2>1. <<>> \in Seq(ArticleNodes(Char))
    OBVIOUS
  <2>2. QED
    BY <2>1, Zenon
<1>2. DOMAIN nodes = 1..n /\ n \in Nat /\ \A i \in 1..n : nodes[i] \in ArticleNodes(Char)
  BY <1>1
<1>3. Parse(page) = [articles |-> articles, skipped |-> n - Len(articles)]
  BY Zenon DEF Parse
<1> HIDE DEF n
<1>4. \A i \in 1..n : /\ i \in kept <=> IsKept(Article(nodes[i]))
                      /\ i \in kept => Clean(Article(nodes[i]), nodes[i])
  BY <1>2, ArticleIsClean, Zenon
<1>5. kept \in SUBSET (1..n) /\ \A i \in 1..n : Article(nodes[i]) \in Elem
  BY <1>2, Zenon
<1>6. read \in Seq(Elem) /\ Len(read) = n
  <2>1. read \in [1..n -> Elem]
    BY <1>5, Zenon
  <2> HIDE DEF read, Elem
  <2>2. QED
    BY <1>2, <2>1
<1>7. articles = FlattenSeq([i \in 1..Len(read) |-> Pushed(i \in kept, read[i])])
  <2> DEFINE a(i) == Pushed(IsKept(Article(nodes[i])), Article(nodes[i]))
             b(i) == Pushed(i \in kept, read[i])
  <2> HIDE DEF kept
  <2>1. \A i \in 1..n : a(i) = b(i)
    BY <1>4, Zenon DEF Pushed
  <2> HIDE DEF a, b
  <2>2. [i \in 1..n |-> a(i)] = [i \in 1..n |-> b(i)]
    BY <2>1
  <2> HIDE DEF read
  <2>3. QED
    BY <1>2, <1>6, <2>2, Zenon DEF a, b
<1> HIDE DEF kept, articles
<1>8. articles \in Seq(Elem) /\ Filtered(articles, read, kept, n)
  <2> HIDE DEF read, Elem
  <2>1. kept \in SUBSET (1..Len(read))
    BY <1>5, <1>6, Zenon
  <2>2. articles \in Seq(Elem) /\ Filtered(articles, read, kept, Len(read))
    BY <1>6, <1>7, <2>1, PushedAreKept, Zenon
  <2>3. QED
    BY <1>6, <2>2, Zenon
<1>9. Len(articles) = Cardinality(kept)
  <2>1. {k \in kept : k <= n} = kept
    BY <1>2, <1>5
  <2>2. QED
    BY <1>8, <2>1, Zenon DEF Filtered, KeptUpTo
<1>10. ASSUME NEW i \in kept PROVE Clean(articles[KeptUpTo(kept, i)], nodes[i])
  <2>1. i \in 1..n /\ i <= n
    BY <1>2, <1>5
  <2>2. articles[KeptUpTo(kept, i)] = Article(nodes[i])
    BY <1>8, <2>1, Zenon DEF Filtered
  <2>3. QED
    BY <1>4, <2>1, <2>2, Zenon
<1>11. Len(articles) + (n - Len(articles)) = n
  BY <1>2, <1>8
<1>12. Parse(page).articles = articles /\ Parse(page).skipped = n - Len(articles)
  BY <1>3
<1>13. QED
  BY <1>9, <1>10, <1>11, <1>12, Zenon DEF Accounted, kept, n

-----------------------------------------------------------------------------
NodeCharacters ==
  {"4", "5", "7", "8", "T", "H", "/", " ", "nbsp", "http", "x"}

\* What the queries of these nodes find are texts.
LEMMA NodeTexts ==
  /\ \A a, b \in NodeCharacters : {<<a>>, <<a, b>>} \subseteq FoundTexts(NodeCharacters)
  /\ Found \subseteq FoundTexts(NodeCharacters)
<1> DEFINE C == NodeCharacters
<1>1. \A a, b \in C : {<<a>>, <<a, b>>} \subseteq FoundTexts(C)
  BY ShortSequences, Zenon DEF FoundTexts
<1>2. /\ "nbsp" \in C /\ "7" \in C /\ " " \in C /\ "8" \in C
  BY Zenon DEF NodeCharacters
<1>3. <<>> \in Seq(C)
  OBVIOUS
<1>4. ASSUME NEW a \in C, NEW b \in C, NEW c \in C, NEW d \in C, NEW e \in C
      PROVE  <<a, b, c, d, e>> \in Seq(C)
  OBVIOUS
<1>5. Found \subseteq FoundTexts(C)
  <2>1. <<"nbsp", "7", " ", "8", " ">> \in Seq(C)
    BY <1>2, <1>4, Zenon
  <2>2. <<" ", "nbsp">> \in FoundTexts(C)
    BY <1>1, <1>2, Zenon
  <2>3. QED
    BY <1>3, <2>1, <2>2, Zenon DEF Found, FoundTexts
<1>6. QED
  BY <1>1, <1>5, Zenon

\* These nodes are article nodes.
LEMMA NodesType ==
  ASSUME NEW node \in Nodes
  PROVE  node \in ArticleNodes(NodeCharacters)
<1> DEFINE C == NodeCharacters
           T == FoundTexts(C)
<1>1. /\ "4" \in C /\ "5" \in C /\ "7" \in C /\ "T" \in C /\ "H" \in C
      /\ "/" \in C /\ " " \in C /\ "nbsp" \in C /\ "http" \in C /\ "x" \in C
  BY Zenon DEF NodeCharacters
<1>2. /\ <<"7">> \in T /\ <<"T">> \in T /\ <<"/", "7">> \in T /\ NoNode \in T
      /\ <<"5">> \in T /\ <<"4">> \in T /\ <<"nbsp">> \in T /\ <<" ", "H">> \in T
      /\ <<"http", "x">> \in T /\ Found \subseteq T
  <2>1. NoNode \in T
    BY Zenon DEF FoundTexts
  <2>2. QED
    BY <1>1, <2>1, NodeTexts, Zenon
<1> HIDE DEF C, T
<1>3. << <<"nbsp">>, <<" ", "H">> >> \in Seq(T)
  BY <1>2, ShortSequences, Zenon
<1>4. Node \in ArticleNodes(C) /\ Node.views \in T
  BY <1>2, <1>3, Zenon DEF Node, ArticleNodes, T
<1>5. ASSUME NEW i \in T, NEW base \in ArticleNodes(C)
      PROVE  /\ [base EXCEPT !.href = i] \in ArticleNodes(C)
             /\ \A v \in T :
                  [base EXCEPT !.views_title = i, !.views = v] \in ArticleNodes(C)
  BY DEF ArticleNodes, T
<1>6. CASE \E i \in Found, t \in Found : node = Keyed(i, t)
  <2>1. PICK i \in Found, t \in Found : node = Keyed(i, t)
    BY <1>6, Zenon
  <2>2. i \in T /\ t \in T
    BY <1>2, <2>1, Zenon
  <2>3. node \in ArticleNodes(C)
    <3> DEFINE other == Keyed(i, t)
    <3>1. other \in ArticleNodes(C)
      BY <1>4, <2>2 DEF ArticleNodes, T, Keyed
    <3>2. node = other
      BY <2>1, Zenon
    <3> HIDE DEF other
    <3>3. QED
      BY <1>4, <3>1, <3>2, Zenon
  <2>4. QED
    BY <2>3, Zenon DEF C
<1>7. CASE \E h \in Found \union {<<"http", "x">>} : node = [Node EXCEPT !.href = h]
  <2>1. PICK h \in Found \union {<<"http", "x">>} : node = [Node EXCEPT !.href = h]
    BY <1>7, Zenon
  <2>2. h \in T
    BY <1>2, <2>1, Zenon
  <2>3. node \in ArticleNodes(C)
    BY <1>2, <1>4, <1>5, <2>1, <2>2, Zenon
  <2>4. QED
    BY <2>3, Zenon DEF C
<1>8. CASE \E v \in Found : node = Viewed(v)
  <2>1. PICK v \in Found : node = Viewed(v)
    BY <1>8, Zenon
  <2>2. v \in T /\ (IF v = NoNode THEN NoNode ELSE Node.views) \in T
    BY <1>2, <1>4, <2>1, Zenon
  <2>3. node \in ArticleNodes(C)
    BY <1>4, <1>5, <2>1, <2>2, Zenon DEF Viewed
  <2>4. QED
    BY <2>3, Zenon DEF C
<1>9. \/ \E i \in Found, t \in Found : node = Keyed(i, t)
      \/ \E h \in Found \union {<<"http", "x">>} : node = [Node EXCEPT !.href = h]
      \/ \E v \in Found : node = Viewed(v)
  <2> DEFINE keyed == {Keyed(i, t) : i \in Found, t \in Found}
             linked == {[Node EXCEPT !.href = h] : h \in Found \union {<<"http", "x">>}}
             viewed == {Viewed(v) : v \in Found}
  <2>1. node \in keyed => \E i \in Found, t \in Found : node = Keyed(i, t)
    OBVIOUS
  <2>2. node \in linked =>
          \E h \in Found \union {<<"http", "x">>} : node = [Node EXCEPT !.href = h]
    OBVIOUS
  <2>3. node \in viewed => \E v \in Found : node = Viewed(v)
    OBVIOUS
  <2>4. Nodes = (keyed \union linked) \union viewed
    BY DEF Nodes
  <2> HIDE DEF keyed, linked, viewed
  <2>5. node \in keyed \/ node \in linked \/ node \in viewed
    BY <2>4, Zenon
  <2>6. QED
    BY <2>1, <2>2, <2>3, <2>5, Zenon
<1>10. QED
  BY <1>6, <1>7, <1>8, <1>9, Zenon

\* What PageIsAccounted says of the pages that TLC enumerates, of any length: no
\* article node is lost or counted twice, and what is kept is clean (Parse).
THEOREM PageAccounted == Spec => []PageIsAccounted
<1>1. JobInv => PageIsAccounted
  <2> SUFFICES ASSUME JobInv, Done("page") PROVE PageIsAccounted
    BY DEF PageIsAccounted
  <2>1. job \in Pages
    BY Kinds DEF Done
  <2>2. result = Parse(job.page)
    <3>1. result = Result /\ job.kind = "page"
      BY DEF JobInv, Done
    <3>2. QED
      BY <3>1 DEF Result
  <2> DEFINE nodes == IF job.page = Unreadable THEN <<>> ELSE job.page
             kept == {i \in DOMAIN nodes : HasInk(nodes[i].id) /\ HasInk(nodes[i].title)}
  <2>3. job.page = Unreadable \/ job.page \in Seq(Nodes)
    <3>1. job.page \in {Unreadable} \union UNION {[1..n -> Nodes] : n \in 0..MaxNodes}
      BY <2>1 DEF Pages
    <3>2. \A n \in 0..MaxNodes : [1..n -> Nodes] \subseteq Seq(Nodes)
      OBVIOUS
    <3>3. QED
      BY <3>1, <3>2
  <2>4. nodes \in Seq(Nodes) /\ Nodes \subseteq ArticleNodes(NodeCharacters)
    <3>1. Nodes \subseteq ArticleNodes(NodeCharacters)
      BY NodesType, Zenon
    <3>2. <<>> \in Seq(Nodes)
      OBVIOUS
    <3>3. QED
      BY <2>3, <3>1, <3>2, Zenon
  <2>5. Accounted(nodes, result)
    <3>1. ASSUME NEW A, NEW B, A \subseteq B PROVE Seq(A) \subseteq Seq(B)
      BY <3>1
    <3>2. job.page = Unreadable \/ job.page \in Seq(ArticleNodes(NodeCharacters))
      BY <2>3, <2>4, <3>1, Zenon
    <3>3. Accounted(nodes, Parse(job.page))
      BY <3>2, PageIsRead, Zenon
    <3>4. QED
      BY <2>2, <3>3, Zenon
  <2> HIDE DEF nodes
  <2>6. /\ Len(result.articles) = Cardinality(kept)
        /\ Len(result.articles) + result.skipped = Len(nodes)
    BY <2>5, Zenon DEF Accounted
  <2>7. ASSUME NEW i \in kept
        PROVE  LET article == result.articles[Cardinality({k \in kept : k <= i})]
               IN  /\ Solid(article.article_id) /\ Solid(article.title)
                   /\ \A h \in DOMAIN article.hubs : Solid(article.hubs[h])
                   /\ HasInk(nodes[i].href) =>
                        /\ article.url # <<>>
                        /\ article.url[Len(article.url)] \notin Blanks
                        /\ article.url[1] = "http" \/ IsPrefix(BaseUrl, article.url)
                   /\ article.views =
                        ParseCount(Content(IF HasInk(nodes[i].views_title)
                                           THEN nodes[i].views_title
                                           ELSE nodes[i].views))
    <3> DEFINE article == result.articles[Cardinality({k \in kept : k <= i})]
    <3>1. Clean(article, nodes[i]) /\ i \in DOMAIN nodes
      BY <2>5, <2>7, Zenon DEF Accounted, KeptUpTo
    <3> HIDE DEF article, kept
    <3>2. QED
      BY <3>1, Zenon DEF Clean, article
  <2>8. QED
    BY <2>6, <2>7, Zenon DEF PageIsAccounted, HasInk, Solid, nodes
<1>2. QED
  BY <1>1, JobAlways, PTL
=============================================================================
