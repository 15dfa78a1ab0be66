----------------------------- MODULE MCNotifier -----------------------------
(***************************************************************************)
(* Four digests, two of them with an id of the same second.                *)
(***************************************************************************)
EXTENDS Notifier

MCToken == <<1, 2, 3, 1>>
=============================================================================
