------------------------------ MODULE Notifier ------------------------------
(***************************************************************************)
(* The notifier: each digest of the queue digest_ready.notifier becomes a  *)
(* file of its own and then replaces latest.md.  A file is written under   *)
(* another name and renamed.                                               *)
(*                                                                         *)
(* The process may die, or the broker give up the session, between any two *)
(* system calls; the volume outlives the process.                          *)
(*                                                                         *)
(* Definitions named F_without... or F_with... are broken variants of F.   *)
(***************************************************************************)
EXTENDS Consumer, Sequences

CONSTANTS
  Malformed,         \* digests that are no valid JSON message
  Small,             \* digests that fit into the buffer of the ofstream
  Token              \* Token[d]: the file name made of the digest's id

Digests == Messages

Latest == "latest"

ASSUME NotifierAssumption ==
  /\ Malformed \subseteq Digests
  /\ Small \subseteq Digests
  /\ DOMAIN Token = Digests

VARIABLES
  handler,           \* the next call of HandleDigestReady
  digest,            \* the digest it works on
  step,              \* which of Files(digest) it writes
  disk               \* the directory: what each path holds

call == <<handler, digest, step>>
vars == <<consumer, faults, call, disk>>

Archive(d) == <<"digest", Token[d]>>

Names == {Archive(d) : d \in Digests} \union {<<Latest>>}

Absent == [digest |-> None, whole |-> FALSE]

Contents == [digest : Digests \union {None}, whole : BOOLEAN]

TypeOK ==
  /\ ConsumerTypeOK
  /\ handler \in {"idle", "parse", "open", "write", "rename"}
  /\ digest \in Digests \union {None}
  /\ step \in 1..2
  /\ disk \in [Names \X {"", ".tmp"} -> Contents]

Init ==
  /\ ConsumerInit
  /\ handler = "idle" /\ digest = None /\ step = 1
  /\ disk = [path \in Names \X {"", ".tmp"} |-> Absent]

-----------------------------------------------------------------------------
(* HandleDigestReady                                                       *)

Files_withLatestFirst(d) == <<<<Latest>>, Archive(d)>>

Files_withLatestOnce(d) ==
  IF disk[<<<<Latest>>, "">>] = Absent THEN <<Archive(d), <<Latest>>>>
                                       ELSE <<Archive(d)>>

Files(d) == <<Archive(d), <<Latest>>>>

Temporary_withoutSuffix(name) == <<name, "">>

Temporary(name) == <<name, ".tmp">>

Name == Files(digest)[step]

Decide(ack) ==
  /\ handler' = "idle" /\ digest' = None /\ step' = 1
  /\ Answer(ack)

OnFailure_withAck == "kAck"

OnFailure_withReject == "kReject"

\* What WriteFileAtomically throws is caught.
OnFailure == "kRequeue"

Parse ==
  /\ handler = "parse"
  /\ \/ digest \in Malformed /\ Decide("kReject")
     \/ digest \notin Malformed /\ handler' = "open"
        /\ UNCHANGED <<consumer, digest, step>>
  /\ UNCHANGED <<faults, disk>>

\* The stream's constructor truncates what an attempt that failed left there.
Open ==
  /\ handler = "open"
  /\ disk' = [disk EXCEPT ![Temporary(Name)] =
                            [digest |-> digest, whole |-> FALSE]]
  /\ handler' = "write"
  /\ UNCHANGED <<consumer, faults, digest, step>>

OpenFails ==
  /\ handler = "open"
  /\ Fault
  /\ Decide(OnFailure)
  /\ UNCHANGED disk

\* Writing and closing.
Write ==
  /\ handler = "write"
  /\ disk' = [disk EXCEPT ![Temporary(Name)].whole = TRUE]
  /\ handler' = "rename"
  /\ UNCHANGED <<consumer, faults, digest, step>>

\* A digest that is not Small goes to the file at once, so the check of the
\* stream sees the failure.  The temporary file stays.
WriteFails ==
  /\ handler = "write"
  /\ digest \notin Small
  /\ Fault
  /\ Decide(OnFailure)
  /\ UNCHANGED disk

\* A Small one is still in the buffer when the stream is checked: its write is
\* the destructor's, which tells nobody that it failed.
FlushFails ==
  /\ handler = "write"
  /\ digest \in Small
  /\ Fault
  /\ handler' = "rename"
  /\ UNCHANGED <<consumer, digest, step, disk>>

Rename ==
  /\ handler = "rename"
  /\ disk' = [disk EXCEPT ![<<Name, "">>] = disk[Temporary(Name)],
                          ![<<Name, ".tmp">>] = Absent]
  /\ IF step < Len(Files(digest))
     THEN handler' = "open" /\ step' = step + 1 /\ UNCHANGED <<consumer, digest>>
     ELSE Decide("kAck")
  /\ UNCHANGED faults

RenameFails ==
  /\ handler = "rename"
  /\ Fault
  /\ disk' = [disk EXCEPT ![Temporary(Name)] = Absent]
  /\ Decide(OnFailure)

Handle ==
  \/ Parse
  \/ Open
  \/ OpenFails
  \/ Write
  \/ WriteFails
  \/ FlushFails
  \/ Rename
  \/ RenameFails

-----------------------------------------------------------------------------
(* The session and the process                                             *)

Deliver ==
  /\ handler = "idle"
  /\ \E d \in Digests : Dispatch(d) /\ digest' = d
  /\ handler' = "parse"
  /\ UNCHANGED <<faults, step, disk>>

\* OnChannelReady.
Connect ==
  /\ Subscribe
  /\ UNCHANGED <<faults, call, disk>>

NoticeLoss ==
  /\ handler = "idle"
  /\ LoseSession
  /\ UNCHANGED <<call, disk>>

\* The process dies and is restarted.
Crash ==
  /\ Fault
  /\ Disconnect
  /\ handler' = "idle" /\ digest' = None /\ step' = 1
  /\ UNCHANGED disk

Queue == Broker /\ UNCHANGED <<call, disk>>

Next ==
  \/ Handle
  \/ Deliver
  \/ Connect
  \/ NoticeLoss
  \/ Crash
  \/ Queue

Spec == Init /\ [][Next]_vars

\* Calls return, and each end notices a session the other one has ended.
Fairness ==
  /\ WF_vars(Handle)
  /\ WF_vars(Connect)
  /\ WF_vars(Deliver)
  /\ WF_vars(Queue /\ ReceiveVerdict)
  /\ WF_vars(~session_open /\ NoticeLoss)
  /\ \A d \in Digests : WF_vars(Queue /\ DropGhost(d))

FairSpec == Spec /\ Fairness

-----------------------------------------------------------------------------
(* Properties                                                              *)

\* All of the file is there, unless it is a Small one whose flush failed.
Intact(file) == file.whole \/ file.digest \in Small

\* What the name shows is d, or a digest whose id makes the same file name.
Shows(name, d) ==
  LET file == disk[<<name, "">>]
  IN  file # Absent /\ Intact(file) /\ Token[file.digest] = Token[d]

\* The broker forgets a digest only when its file can be read.
AckedIsFiled == \A d \in acked : Shows(Archive(d), d)

\* "kAck, handled successfully" (amqp_service.hpp:33) without the exception.
AckedIsReadable == \A d \in acked : disk[<<Archive(d), "">>].whole

\* A reader never finds a part of a digest under a file's own name, whenever
\* the process died or a call failed (WriteFileAtomically).
FilesAreWhole ==
  \A name \in Names :
    LET file == disk[<<name, "">>] IN file # Absent => Intact(file)

\* The digest that latest.md shows is in its own file too, also after a crash
\* between the two writes and while an old digest is delivered again.
LatestIsFiled ==
  LET shown == disk[<<<<Latest>>, "">>].digest
  IN  shown # None => Shows(Archive(shown), shown)

\* latest.md shows a digest older than one the broker has forgotten on an ack
\* only if it was delivered after a newer one.
LatestIsNewest ==
  LET shown == disk[<<<<Latest>>, "">>].digest
  IN  \A d \in acked : d <= shown \/ shown \in late

\* kRequeue gives a digest another attempt, and once the faults are over one
\* of them succeeds (amqp_service.hpp:35).
EveryDigestIsFiled ==
  \A d \in Digests \ Malformed : (d <= arrived) ~> Shows(Archive(d), d)
=============================================================================
