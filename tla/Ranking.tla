------------------------------ MODULE Ranking ------------------------------
(***************************************************************************)
(* ArticleStore::TopArticles: which rows of the articles table make a      *)
(* digest, and in which order (kTopSql).                                   *)
(*                                                                         *)
(* A table maps an article id to its row, or to NoRow.  Ids are integers   *)
(* in their collation order; weights are integers, the code's doubles in a *)
(* common unit.                                                            *)
(***************************************************************************)
EXTENDS Integers, FiniteSets

CONSTANTS
  WeightVotes, WeightBookmarks, WeightComments, WeightViews,
  NoRow

ASSUME WeightAssumption ==
  /\ WeightVotes \in Int
  /\ WeightBookmarks \in Int
  /\ WeightComments \in Int
  /\ WeightViews \in Int

Score(row) ==
  row.votes * WeightVotes + row.bookmarks * WeightBookmarks
    + row.comments * WeightComments + row.views * WeightViews

\* ORDER BY score DESC, votes DESC, article_id ASC, for rows with their id.
Before_withoutVotes(r, q) ==
  \/ Score(r) > Score(q)
  \/ Score(r) = Score(q) /\ r.article_id < q.article_id

Before(r, q) ==
  \/ Score(r) > Score(q)
  \/ Score(r) = Score(q) /\ r.votes > q.votes
  \/ Score(r) = Score(q) /\ r.votes = q.votes /\ r.article_id < q.article_id

\* WHERE first_seen_epoch >= ?5
InWindow(row, cutoff) == row.first_seen >= cutoff

WithId(table, id) ==
  [article_id |-> id, votes |-> table[id].votes,
   bookmarks |-> table[id].bookmarks, comments |-> table[id].comments,
   views |-> table[id].views, trace |-> table[id].trace]

Eligible(table, cutoff) ==
  {WithId(table, id) : id \in {a \in DOMAIN table :
                        table[a] # NoRow /\ InWindow(table[a], cutoff)}}

\* How many rows come before a row.
Rank(r, rows) == Cardinality({q \in rows : Before(q, r)})

TopArticles_withoutLimit(table, cutoff, limit) ==
  LET rows == Eligible(table, cutoff)
  IN  [i \in 1..Cardinality(rows) |-> CHOOSE r \in rows : Rank(r, rows) = i - 1]

\* ORDER BY and LIMIT: in the i-th place is the row that i - 1 come before.
TopArticles(table, cutoff, limit) ==
  LET rows == Eligible(table, cutoff)
      size == Cardinality(rows)
  IN  [i \in 1..(IF limit < size THEN limit ELSE size) |->
         CHOOSE r \in rows : Rank(r, rows) = i - 1]
=============================================================================
