--------------------------- MODULE Ranking_proofs ---------------------------
(***************************************************************************)
(* Proofs about the digest's ranking for any weights and any finite table: *)
(* the order is total, so that LIMIT cuts at one place only, and what      *)
(* TopArticles takes are the best rows, the better of two first.           *)
(***************************************************************************)
EXTENDS Ranking, Sequences, FiniteSetTheorems, TLAPS

RankedRows == [article_id : Int, votes : Int, bookmarks : Int, comments : Int,
               views : Int, trace : Int]

LEMMA ScoreType ==
  ASSUME NEW r \in RankedRows
  PROVE  Score(r) \in Int
BY WeightAssumption DEF Score, RankedRows

\* Of two rows of different articles exactly one comes first, and coming first
\* is transitive: two builds of one digest from one table are equal.
THEOREM BeforeIsTotalOrder ==
  /\ \A r \in RankedRows : ~Before(r, r)
  /\ \A r, q \in RankedRows :
       r.article_id # q.article_id => (Before(r, q) <=> ~Before(q, r))
  /\ \A p, q, r \in RankedRows : Before(p, q) /\ Before(q, r) => Before(p, r)
<1>1. ASSUME NEW r \in RankedRows PROVE ~Before(r, r)
  BY ScoreType DEF Before, RankedRows
<1>2. ASSUME NEW r \in RankedRows, NEW q \in RankedRows, r.article_id # q.article_id
      PROVE  Before(r, q) <=> ~Before(q, r)
  <2>1. /\ Score(r) \in Int /\ Score(q) \in Int
        /\ r.votes \in Int /\ q.votes \in Int
        /\ r.article_id \in Int /\ q.article_id \in Int
    BY ScoreType DEF RankedRows
  <2>2. QED
    BY <1>2, <2>1 DEF Before
<1>3. ASSUME NEW p \in RankedRows, NEW q \in RankedRows, NEW r \in RankedRows,
             Before(p, q), Before(q, r)
      PROVE  Before(p, r)
  <2>1. /\ Score(p) \in Int /\ Score(q) \in Int /\ Score(r) \in Int
        /\ p.votes \in Int /\ q.votes \in Int /\ r.votes \in Int
        /\ p.article_id \in Int /\ q.article_id \in Int /\ r.article_id \in Int
    BY ScoreType DEF RankedRows
  <2>2. QED
    BY <1>3, <2>1 DEF Before
<1>4. QED
  BY <1>1, <1>2, <1>3

-----------------------------------------------------------------------------
(* Places                                                                  *)

\* The rows of a table have different ids.
Rankable(rows) ==
  /\ IsFiniteSet(rows) /\ rows \subseteq RankedRows
  /\ \A r, q \in rows : r.article_id = q.article_id => r = q

LEMMA ProperSubset ==
  ASSUME NEW S, IsFiniteSet(S), NEW T \in SUBSET S, NEW x \in S \ T
  PROVE  /\ Cardinality(T) \in Nat /\ Cardinality(S) \in Nat
         /\ Cardinality(T) < Cardinality(S)
<1>1. /\ IsFiniteSet(T) /\ Cardinality(T) <= Cardinality(S)
      /\ Cardinality(S) # Cardinality(T)
  BY FS_Subset
<1>2. Cardinality(T) \in Nat /\ Cardinality(S) \in Nat
  BY <1>1, FS_CardinalityType
<1>3. QED
  BY <1>1, <1>2

\* A row comes before another exactly when fewer rows come before it.
LEMMA RankIsOrder ==
  ASSUME NEW rows, Rankable(rows), NEW r \in rows, NEW q \in rows
  PROVE  /\ Rank(r, rows) \in 0..(Cardinality(rows) - 1)
         /\ Before(r, q) <=> Rank(r, rows) < Rank(q, rows)
         /\ r # q => Rank(r, rows) # Rank(q, rows)
<1> DEFINE Better(x) == {p \in rows : Before(p, x)}
<1>1. /\ \A x \in rows : x \notin Better(x)
      /\ \A x, y \in rows : x # y => Before(x, y) \/ Before(y, x)
      /\ \A x, y, z \in rows : Before(x, y) /\ Before(y, z) => Before(x, z)
  BY BeforeIsTotalOrder DEF Rankable
<1>2. \A x \in rows : /\ Better(x) \subseteq rows /\ IsFiniteSet(Better(x))
                      /\ Rank(x, rows) = Cardinality(Better(x))
  <2>1. \A x \in rows : Better(x) \in SUBSET rows
    OBVIOUS
  <2>2. \A x \in rows : IsFiniteSet(Better(x))
    BY <2>1, FS_Subset, Zenon DEF Rankable
  <2>3. QED
    BY <2>1, <2>2 DEF Rank
<1>3. ASSUME NEW x \in rows, NEW y \in rows, Before(x, y)
      PROVE  Rank(x, rows) < Rank(y, rows)
  <2>1. Better(x) \in SUBSET Better(y) /\ x \in Better(y) \ Better(x)
    BY <1>1, <1>3
  <2>2. Cardinality(Better(x)) < Cardinality(Better(y))
    BY <1>2, <2>1, ProperSubset, Zenon
  <2>3. QED
    BY <1>2, <2>2
<1>4. /\ Rank(r, rows) \in Nat /\ Cardinality(rows) \in Nat
      /\ Rank(r, rows) < Cardinality(rows)
  <2>1. r \in rows \ Better(r) /\ Better(r) \in SUBSET rows
    BY <1>1
  <2>2. /\ Cardinality(Better(r)) \in Nat /\ Cardinality(rows) \in Nat
        /\ Cardinality(Better(r)) < Cardinality(rows)
    BY <2>1, ProperSubset, Zenon DEF Rankable
  <2>3. QED
    BY <1>2, <2>2
<1>5. r = q \/ Before(r, q) \/ Before(q, r)
  BY <1>1
<1>6. Rank(q, rows) \in Nat
  BY <1>2, FS_CardinalityType
<1>7. ~Before(r, r)
  BY <1>1
<1>8. QED
  BY <1>3, <1>4, <1>5, <1>6, <1>7

\* Every place is taken.
LEMMA PlaceIsTaken ==
  ASSUME NEW rows, Rankable(rows), NEW i \in 1..Cardinality(rows)
  PROVE  \E r \in rows : Rank(r, rows) = i - 1
<1> DEFINE place == [r \in rows |-> Rank(r, rows) + 1]
           places == 1..Cardinality(rows)
<1>1. Cardinality(rows) \in Nat /\ IsFiniteSet(rows)
  BY FS_CardinalityType DEF Rankable
<1>2. place \in Injection(rows, places)
  <2>1. \A r \in rows : Rank(r, rows) \in 0..(Cardinality(rows) - 1)
    BY RankIsOrder
  <2>2. \A r \in rows : Rank(r, rows) + 1 \in places
    BY <1>1, <2>1
  <2>3. place \in [rows -> places]
    BY <2>2
  <2>4. \A r, q \in rows : place[r] = place[q] => r = q
    BY <2>1, RankIsOrder
  <2>5. QED
    BY <2>3, <2>4 DEF Injection, IsInjective
<1>3. IsFiniteSet(places) /\ Cardinality(places) = Cardinality(rows)
  BY <1>1, FS_Interval
<1>4. place \in Surjection(rows, places)
  <2> HIDE DEF place, places
  <2>1. QED
    BY <1>2, <1>3, FS_Injection
<1>5. PICK r \in rows : place[r] = i
  BY <1>4 DEF Surjection
<1>6. Rank(r, rows) \in Int
  BY <1>1, RankIsOrder
<1>7. QED
  BY <1>5, <1>6

-----------------------------------------------------------------------------
(* Digests                                                                 *)

\* A table whose rows hold integers; its other columns do not matter.
IsTable(table) ==
  /\ IsFiniteSet(DOMAIN table) /\ DOMAIN table \subseteq Int
  /\ \A id \in DOMAIN table : table[id] # NoRow => WithId(table, id) \in RankedRows

LEMMA EligibleIsRankable ==
  ASSUME NEW table, IsTable(table), NEW cutoff
  PROVE  Rankable(Eligible(table, cutoff))
<1> DEFINE ids == {a \in DOMAIN table : table[a] # NoRow /\ InWindow(table[a], cutoff)}
           rows == Eligible(table, cutoff)
<1>1. IsFiniteSet(ids)
  BY FS_Subset DEF IsTable
<1>2. rows = {WithId(table, id) : id \in ids}
  BY DEF Eligible
<1>3. \A id \in ids : WithId(table, id) \in RankedRows /\ WithId(table, id).article_id = id
  BY DEF IsTable, WithId
<1>4. IsFiniteSet(rows)
  <2> DEFINE row == [id \in ids |-> WithId(table, id)]
  <2>1. row \in Surjection(ids, rows)
    BY <1>2 DEF Surjection
  <2>2. QED
    BY <1>1, <2>1, FS_Surjection
<1>5. QED
  BY <1>2, <1>3, <1>4 DEF Rankable

\* There are as many of them as articles in the window.
LEMMA EligibleCount ==
  ASSUME NEW table, IsTable(table), NEW cutoff
  PROVE  Cardinality(Eligible(table, cutoff))
           = Cardinality({a \in DOMAIN table :
                            table[a] # NoRow /\ InWindow(table[a], cutoff)})
<1> DEFINE ids == {a \in DOMAIN table : table[a] # NoRow /\ InWindow(table[a], cutoff)}
           rows == Eligible(table, cutoff)
           row == [id \in ids |-> WithId(table, id)]
<1>1. rows = {WithId(table, id) : id \in ids}
  BY DEF Eligible
<1>2. \A id \in ids : WithId(table, id).article_id = id
  BY DEF WithId
<1>3. row \in Injection(ids, rows) /\ row \in Surjection(ids, rows)
  BY <1>1, <1>2 DEF Injection, Surjection, IsInjective
<1>4. IsFiniteSet(rows)
  BY EligibleIsRankable DEF Rankable
<1> HIDE DEF row, ids, rows
<1>5. Cardinality(rows) = Cardinality(ids)
  BY <1>3, <1>4, FS_Injection
<1>6. QED
  BY <1>5 DEF rows, ids

\* A digest is the best rows of the window, each once, the better of two
\* first, as many as the limit allows: kTopSql for every table and weight.
THEOREM TopArticlesAreBest ==
  ASSUME NEW table, IsTable(table), NEW cutoff, NEW limit \in Nat
  PROVE  LET top  == TopArticles(table, cutoff, limit)
             rows == Eligible(table, cutoff)
             size == Cardinality(rows)
         IN  /\ top \in Seq(rows)
             /\ Len(top) = IF limit < size THEN limit ELSE size
             /\ \A i, j \in DOMAIN top : i < j => Before(top[i], top[j])
             /\ \A r \in rows : \/ \E i \in DOMAIN top : r = top[i]
                                \/ \A i \in DOMAIN top : Before(top[i], r)
<1> DEFINE top  == TopArticles(table, cutoff, limit)
           rows == Eligible(table, cutoff)
           size == Cardinality(rows)
           length == IF limit < size THEN limit ELSE size
<1>1. Rankable(rows) /\ size \in Nat
  BY EligibleIsRankable, FS_CardinalityType DEF Rankable
<1>2. top = [i \in 1..length |-> CHOOSE r \in rows : Rank(r, rows) = i - 1]
  BY DEF TopArticles
<1> HIDE DEF top, rows
<1>3. length \in Nat /\ 1..length \subseteq 1..size
  BY <1>1
<1>4. \A i \in 1..length : top[i] \in rows /\ Rank(top[i], rows) = i - 1
  <2> SUFFICES ASSUME NEW i \in 1..length
               PROVE  top[i] \in rows /\ Rank(top[i], rows) = i - 1
    OBVIOUS
  <2>1. \E r \in rows : Rank(r, rows) = i - 1
    BY <1>1, <1>3, PlaceIsTaken
  <2>2. QED
    BY <1>2, <2>1
<1>5. top \in Seq(rows) /\ Len(top) = length /\ DOMAIN top = 1..length
  <2> HIDE DEF length
  <2>1. top \in [1..length -> rows]
    BY <1>2, <1>4
  <2>2. QED
    BY <1>3, <2>1
<1>6. ASSUME NEW i \in 1..length, NEW j \in 1..length, i < j
      PROVE  Before(top[i], top[j])
  BY <1>1, <1>3, <1>4, <1>6, RankIsOrder
<1>7. ASSUME NEW r \in rows, ~ \E i \in 1..length : r = top[i], NEW i \in 1..length
      PROVE  Before(top[i], r)
  <2>1. Rank(r, rows) \in 0..(size - 1)
    BY <1>1, RankIsOrder
  <2>2. Rank(r, rows) + 1 \notin 1..length
    <3> SUFFICES ASSUME Rank(r, rows) + 1 \in 1..length PROVE FALSE
      OBVIOUS
    <3>1. top[Rank(r, rows) + 1] \in rows
          /\ Rank(top[Rank(r, rows) + 1], rows) = (Rank(r, rows) + 1) - 1
      BY <1>4
    <3>2. Rank(top[Rank(r, rows) + 1], rows) = Rank(r, rows)
      BY <2>1, <3>1
    <3>3. top[Rank(r, rows) + 1] = r
      BY <1>1, <3>1, <3>2, RankIsOrder
    <3>4. QED
      BY <1>7, <3>3
  <2>3. Rank(top[i], rows) = i - 1 /\ top[i] \in rows
    BY <1>4
  <2>4. i - 1 < Rank(r, rows)
    BY <1>1, <1>3, <2>1, <2>2
  <2>5. QED
    BY <1>1, <2>3, <2>4, RankIsOrder
<1>8. \A r \in rows : \/ \E i \in DOMAIN top : r = top[i]
                      \/ \A i \in DOMAIN top : Before(top[i], r)
  BY <1>5, <1>7
<1>9. \A i, j \in DOMAIN top : i < j => Before(top[i], top[j])
  BY <1>5, <1>6
<1>10. QED
  BY <1>5, <1>8, <1>9 DEF top, rows
=============================================================================
