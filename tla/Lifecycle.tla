----------------------------- MODULE Lifecycle -----------------------------
(***************************************************************************)
(* What AmqpService promises its deployment, without event loops or flags: *)
(* the process serves while it has a broker link; each link it loses costs *)
(* one try; a link that comes up restores all of them; when they run out   *)
(* it exits with code 1, and a signal makes it exit with code 0.           *)
(***************************************************************************)
EXTENDS Naturals

CONSTANT Budget            \* links that may be lost in a row before giving up

VARIABLES phase, lost, code

vars == <<phase, lost, code>>

Init ==
  /\ phase = "connecting"
  /\ lost = 0
  /\ code = 0

Serve ==
  /\ phase = "connecting"
  /\ phase' = "serving"
  /\ lost' = 0
  /\ UNCHANGED code

\* One more link is lost: wait for a retry, or give up.
CountLoss ==
  /\ lost' = lost + 1
  /\ \/ /\ lost' <= Budget
        /\ phase' = "waiting"
        /\ UNCHANGED code
     \/ /\ lost' > Budget
        /\ phase' = "stopping"
        /\ code' = 1

Lose ==
  /\ phase \in {"connecting", "serving"}    \* the first link may fail to open
  /\ CountLoss

Retry ==
  /\ phase = "waiting"
  /\ \/ /\ phase' = "connecting"
        /\ UNCHANGED <<lost, code>>
     \/ CountLoss               \* the new link cannot even be opened

Quit ==
  /\ phase \in {"connecting", "serving", "waiting"}
  /\ phase' = "stopping"
  /\ UNCHANGED <<lost, code>>

Exit ==
  /\ phase = "stopping"
  /\ phase' = "exited"
  /\ UNCHANGED <<lost, code>>

Next == Serve \/ Lose \/ Retry \/ Quit \/ Exit

Spec == Init /\ [][Next]_vars
============================================================================
