---------------------------- MODULE MCAlgorithms ----------------------------
(***************************************************************************)
(* The algorithms that keep no state, each computed once for every small   *)
(* input: the ranking of every articles table, the settings made of every  *)
(* text in the environment, the articles made of a listing page, the       *)
(* number made of a counter, the JSON of a message and the markup of a     *)
(* text, each against an independent statement of what it is for.          *)
(***************************************************************************)
EXTENDS Ranking, Configuration, HtmlParser, HtmlView, Messages

CONSTANTS Articles, Counts, Days, Limits, MaxWhole, MaxNodes, MaxText

MCDefault == [name \in Settings |-> 1]
MCBaseUrl == <<"h">>

VARIABLES
  job,               \* an input of one of the algorithms, and which one
  result,
  done

vars == <<job, result, done>>

-----------------------------------------------------------------------------
(* Inputs                                                                  *)

Cutoff == 1

Row == [votes : Counts, bookmarks : {0}, comments : {1}, views : Counts,
        first_seen : Days, trace : {0}]

ASSUME RowAssumption ==
  /\ Articles \subseteq Int /\ IsFiniteSet(Articles)
  /\ Counts \subseteq Int /\ Limits \subseteq Nat
  /\ NoRow \notin Row

Rankings == [kind : {"ranking"}, limit : Limits,
             table : [Articles -> Row \union {NoRow}]]

Loads == [kind : {"load"},
          raw : ((-ULongMax - 1)..(ULongMax + 1)) \union {Unset, Garbage}]

\* A number as Habr writes it: thousands set apart by a space that does not
\* break, a decimal comma or point, and a letter for thousands or millions.
\* Every number has room in a double for the digits that decide.
ASSUME NumberAssumption ==
  /\ MaxWhole \in Nat /\ Kilo <= Mega
  /\ 21 * (MaxWhole + 1) * Mega <= 2^MantissaBits

Numbers == [kind : {"count"}, sign : {<<>>, <<"-">>}, whole : 0..MaxWhole,
            tenths : {<<>>} \union (0..9) \X {".", ","},
            suffix : Thousands \union Millions \union {""}]

Digits[n \in 0..MaxWhole] ==
  IF n < 10 THEN <<Numerals[n + 1]>>
            ELSE Digits[n \div 10] \o <<"nbsp", Numerals[(n % 10) + 1]>>

Written(number) ==
  number.sign \o Digits[number.whole]
    \o (IF number.tenths = <<>> THEN <<>>
        ELSE <<number.tenths[2], Numerals[number.tenths[1] + 1]>>)
    \o (IF number.suffix = "" THEN <<>> ELSE <<" ", number.suffix>>)

\* An article node with every query answered, and what a listing may change.
Node == [id |-> <<"7">>, title |-> <<"T">>, href |-> <<"/", "7">>,
         author |-> NoNode, time |-> NoNode, complexity |-> NoNode,
         reading_time |-> NoNode, views |-> <<"5">>, views_title |-> <<"4">>,
         votes |-> NoNode, bookmarks |-> NoNode, comments |-> NoNode,
         hubs |-> << <<"nbsp">>, <<" ", "H">> >>]

Found == {NoNode, <<>>, <<" ", "nbsp">>, <<"nbsp", "7", " ", "8", " ">>}

Keyed(i, t) == [Node EXCEPT !.id = i, !.title = t]

\* The counter is looked for by its title, so none is found without one.
Viewed(v) == [Node EXCEPT !.views_title = v,
                          !.views = IF v = NoNode THEN NoNode ELSE Node.views]

Nodes ==
  {Keyed(i, t) : i \in Found, t \in Found}
    \union {[Node EXCEPT !.href = h] : h \in Found \union {<<"http", "x">>}}
    \union {Viewed(v) : v \in Found}

Pages == [kind : {"page"},
          page : {Unreadable} \union UNION {[1..n -> Nodes] : n \in 0..MaxNodes}]

\* A message in order, or with one member that is not.
Ordinary(schema) ==
  [m \in DOMAIN schema |-> IF schema[m] = "text" THEN "UTF-8"
                           ELSE IF schema[m] = "double" THEN "finite"
                           ELSE schema[m]]

Structs(schema) ==
  UNION {{[Ordinary(schema) EXCEPT ![m] = held] : held \in Held(schema[m])} :
           m \in DOMAIN schema}

\* A message as it was written, or without one of its members.
Exchanges(schema) ==
  [kind : {"message"}, schema : {schema}, struct : Structs(schema),
   missing : {{}} \union {{m} : m \in DOMAIN schema}]

SmallTexts == UNION {[1..n -> Characters] : n \in 0..MaxText}

TextJobs == [kind : {"text"}, text : SmallTexts, author : {<<>>, <<">">>}]

-----------------------------------------------------------------------------
Rendered(text, author) ==
  RenderArticle([url |-> text, title |-> text, author |-> author,
                 published_at |-> text, hubs |-> <<text>>])

Result ==
  CASE job.kind = "ranking" -> TopArticles(job.table, Cutoff, job.limit)
    [] job.kind = "load"    -> [name \in Settings |-> Load(name, job.raw)]
    [] job.kind = "count"   -> ParseCount(Written(job))
    [] job.kind = "page"    -> Parse(job.page)
    [] job.kind = "message" -> IF Dumps(job.struct) THEN Dump(job.struct) ELSE {}
    [] job.kind = "text"    -> Rendered(job.text, job.author)

Init ==
  /\ \/ job \in Rankings
     \/ job \in Loads
     \/ job \in Numbers
     \/ job \in Pages
     \/ \E schema \in Schemas : job \in Exchanges(schema)
     \/ job \in TextJobs
  /\ result = NoPart
  /\ done = FALSE

Compute ==
  /\ ~done
  /\ result' = Result
  /\ done' = TRUE
  /\ UNCHANGED job

Spec == Init /\ [][Compute]_vars

Done(kind) == done /\ job.kind = kind

-----------------------------------------------------------------------------
(* Properties                                                              *)

\* How good an article is, as the triple the documentation ranks by.
Merit(a) == <<Score(job.table[a]), job.table[a].votes, -a>>

Outranks(a, b) ==
  \E i \in 1..3 : /\ Merit(a)[i] > Merit(b)[i]
                  /\ \A j \in 1..(i - 1) : Merit(a)[j] = Merit(b)[j]

\* A digest is the best articles of the period, the better of two first, as
\* many as its limit allows; one first seen at the very start of the period
\* belongs to it (kTopSql).
DigestIsTop ==
  Done("ranking") =>
    LET seen   == {a \in Articles : /\ job.table[a] # NoRow
                                    /\ job.table[a].first_seen >= Cutoff}
        chosen == {result[i].article_id : i \in DOMAIN result}
    IN  /\ chosen \subseteq seen
        /\ Len(result) = IF Cardinality(seen) < job.limit THEN Cardinality(seen)
                                                         ELSE job.limit
        /\ \A i, j \in DOMAIN result :
             i < j => Outranks(result[i].article_id, result[j].article_id)
        /\ \A a \in chosen, b \in seen \ chosen : Outranks(a, b)

\* No text makes a timer that busy-loops, a fetch without a timeout, an empty
\* digest or history, or an HTTP port or prefetch that is out of range, also none
\* that wraps to zero when it is narrowed; a usable numeral is taken as it
\* stands, and what is no numeral leaves the default.  RABBITMQ_PORT is narrowed
\* without a check (amqp_service.cpp:48): it becomes zero for the multiples of
\* 2^16, and for no other text.
SettingsAreSound ==
  Done("load") =>
    /\ \A name \in CheckedSettings : result[name] \in Usable(name)
    /\ \A name \in Settings :
         /\ job.raw \in {Unset, Garbage} => result[name] = Default[name]
         /\ job.raw \in Usable(name) => result[name] = job.raw
    /\ result["RABBITMQ_PORT"] = 0
         <=> job.raw \in (-ULongMax)..ULongMax /\ job.raw % (UShortMax + 1) = 0

\* A counter is read as the number Habr shows, which ParseCount truncates to
\* an integer; where it scales a number with decimals it may lose one more, as
\* the product of two doubles may fall just below the integer.
CountIsClose ==
  Done("count") =>
    LET scale   == IF job.suffix \in Thousands THEN Kilo
                  ELSE IF job.suffix \in Millions THEN Mega ELSE 1
        tenth   == IF job.tenths = <<>> THEN 0 ELSE job.tenths[1]
        shown   == ((10 * job.whole + tenth) * scale) \div 10
        counted == IF job.sign = <<>> THEN result ELSE -result
    IN  \/ counted = shown
        \/ counted = shown - 1 /\ tenth # 0 /\ scale # 1

\* Parse answers for every article node: it keeps, in order, those with ink in
\* their id and their title, and counts the others as skipped.  What it keeps
\* it keeps clean: no key, url or hub is empty or begins or ends with a blank,
\* and the exact view count stands before the rounded one.
PageIsAccounted ==
  Done("page") =>
    LET nodes == IF job.page = Unreadable THEN <<>> ELSE job.page
        HasInk(found) == found # NoNode /\ \E i \in DOMAIN found :
                                             found[i] \notin Blanks
        Solid(text) == text # <<>> /\ {text[1], text[Len(text)]} \cap Blanks = {}
        kept  == {i \in DOMAIN nodes : HasInk(nodes[i].id) /\ HasInk(nodes[i].title)}
    IN  /\ Len(result.articles) = Cardinality(kept)
        /\ Len(result.articles) + result.skipped = Len(nodes)
        /\ \A i \in kept :
             LET article == result.articles[Cardinality({k \in kept : k <= i})]
             IN  /\ Solid(article.article_id) /\ Solid(article.title)
                 /\ \A h \in DOMAIN article.hubs : Solid(article.hubs[h])
                 /\ HasInk(nodes[i].href) =>
                      /\ article.url # <<>>
                      /\ article.url[Len(article.url)] \notin Blanks
                      /\ article.url[1] = "http" \/ IsPrefix(BaseUrl, article.url)
                 /\ article.views =
                      ParseCount(Content(IF HasInk(nodes[i].views_title)
                                         THEN nodes[i].views_title
                                         ELSE nodes[i].views))

\* What a producer can write its consumer reads, unless a score is not finite;
\* a message that lacks a member is never read with a default in its place
\* (messages.hpp:9-15).
MessagesAgree ==
  Done("message") /\ Dumps(job.struct) =>
    LET json == [m \in DOMAIN result \ job.missing |-> result[m]]
    IN  Reads(job.schema, json)
          <=> job.missing = {} /\ \A m \in DOMAIN job.struct :
                                    job.struct[m] \notin {"infinite", "NaN"}

\* What a browser shows of a text in the markup.
Shown(markup) ==
  LET Ref(i) == /\ markup[i] = "&" /\ i < Len(markup)
                /\ markup[i + 1] \in DOMAIN References
      starts == {i \in DOMAIN markup : ~(i > 1 /\ Ref(i - 1))}
      At(n)  == CHOOSE i \in starts : Cardinality({k \in starts : k <= i}) = n
  IN  [n \in 1..Cardinality(starts) |->
         IF Ref(At(n)) THEN References[markup[At(n) + 1]] ELSE markup[At(n)]]

\* A title, url, hub, author or date that contains markup characters, or looks
\* like an escaped text already, is shown as it was written, and none of the
\* first three opens a tag.
TextStaysText ==
  Done("text") =>
    /\ \A markup \in {result.link[1], result.link[2], result.hubs[1]} :
         /\ Shown(markup) = job.text
         /\ \A i \in DOMAIN markup : markup[i] \notin {"<", ">", "quote"}
    /\ (result.byline = NoPart) <=> (job.author = <<>>)
    /\ job.author # <<>> => Shown(result.byline[1]) = job.author
    /\ job.author # <<>> /\ job.text # <<>> => Shown(result.byline[2]) = job.text
=============================================================================
