------------------------------ MODULE Messages ------------------------------
(***************************************************************************)
(* The wire contracts of the three hops: what the producer of a message    *)
(* writes as JSON and what its consumer reads from it.                     *)
(*                                                                         *)
(* A struct is a function from its members to their values, of which only  *)
(* what nlohmann::json tells apart is kept: whether a text is UTF-8 and    *)
(* whether a double is finite.  Definitions named F_with... are broken     *)
(* variants of F.                                                          *)
(***************************************************************************)
Counters == {"votes", "views", "bookmarks", "comments"}

\* A member has the same type in every struct that has it.
Typed(members) ==
  [m \in members |->
     CASE m = "hubs"         -> "texts"
       [] m = "articles"     -> "articles"
       [] m \in Counters     -> "int64"
       [] m = "period_hours" -> "uint32"
       [] m = "score"        -> "double"
       [] OTHER              -> "text"]

RawArticlesMessage ==
  Typed({"fetch_id", "source_url", "raw_html", "fetched_at", "trace_id"})

ParsedArticle ==
  Typed({"article_id", "url", "title", "author", "published_at", "complexity",
         "reading_time", "hubs"} \union Counters)

ParsedArticlesMessage ==
  Typed({"fetch_id", "source_url", "parsed_at", "trace_id", "articles"})

DigestArticle ==
  Typed({"article_id", "url", "title", "author", "published_at",
         "source_trace_id", "hubs", "score"} \union Counters)

DigestReadyMessage ==
  Typed({"digest_id", "generated_at", "trace_id", "period_hours", "articles"})

Schemas == {RawArticlesMessage, ParsedArticle, ParsedArticlesMessage,
            DigestArticle, DigestReadyMessage}

-----------------------------------------------------------------------------
\* What a member may hold in the producer.
Held(type) ==
  CASE type = "text"   -> {"UTF-8", "other bytes"}
    [] type = "double" -> {"finite", "infinite", "NaN"}
    [] OTHER           -> {type}

\* The JSON value of a member: JSON has no number for what is not finite.
Json(value) ==
  CASE value = "UTF-8"                -> "string"
    [] value \in {"finite", "int64", "uint32"} -> "number"
    [] value \in {"infinite", "NaN"}  -> "null"
    [] OTHER                          -> "array"

\* dump() throws on a text that is not UTF-8.
Dumps(struct) == \A m \in DOMAIN struct : struct[m] # "other bytes"

Dump(struct) == [m \in DOMAIN struct |-> Json(struct[m])]

\* The kind of JSON value get_to takes for a member of this type.
Taken(type) ==
  CASE type = "text"                          -> "string"
    [] type \in {"int64", "uint32", "double"} -> "number"
    [] OTHER                                  -> "array"

Reads_withDefaults(schema, json) ==
  \A m \in DOMAIN schema : m \in DOMAIN json => json[m] = Taken(schema[m])

\* get<...>() is strict: at() throws on a missing member, get_to on a value of
\* another kind.  Members the struct does not have are ignored.
Reads(schema, json) ==
  /\ DOMAIN schema \subseteq DOMAIN json
  /\ \A m \in DOMAIN schema : json[m] = Taken(schema[m])
=============================================================================
