---------------------------- MODULE AtLeastOnce ----------------------------
(***************************************************************************)
(* What a hop of the pipeline promises for each message handed to it: once *)
(* accepted, the message is owed until it has been served, and it is       *)
(* served eventually.  Being served twice is allowed and is not visible    *)
(* here.                                                                   *)
(***************************************************************************)
CONSTANT Messages

VARIABLE status

Init == status = [m \in Messages |-> "unseen"]

Accept(m) ==
  /\ status[m] = "unseen"
  /\ status' = [status EXCEPT ![m] = "owed"]

Serve(m) ==
  /\ status[m] = "owed"
  /\ status' = [status EXCEPT ![m] = "served"]

Next == \E m \in Messages : Accept(m) \/ Serve(m)

\* What it never does, and that it does serve.
Safety == Init /\ [][Next]_status

Spec == Safety /\ \A m \in Messages : WF_status(Serve(m))
============================================================================
