----------------------------- MODULE MCStorage -----------------------------
(***************************************************************************)
(* Three listings of two articles: the second listing no longer shows      *)
(* article 2, the third shows both with new counters.                      *)
(***************************************************************************)
EXTENDS Storage, TLC

Counters(v, w) == [votes |-> v, bookmarks |-> 0, comments |-> 0, views |-> w]

MCContent ==
  << (1 :> Counters(1, 0)) @@ (2 :> Counters(0, 1)),
     (1 :> Counters(2, 0)),
     (1 :> Counters(0, 0)) @@ (2 :> Counters(1, 1)) >>
=============================================================================
