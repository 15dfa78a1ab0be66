-------------------------- MODULE Notifier_proofs --------------------------
(***************************************************************************)
(* Proofs about the notifier for any digests, any ids that may share a     *)
(* file name and any number of failures: a digest is acknowledged only     *)
(* when its file can be read, no reader finds a part of a file, what       *)
(* latest.md shows is in a file of its own too, and it goes back to an     *)
(* older digest only when that one is delivered late.                      *)
(***************************************************************************)
EXTENDS Notifier, TLAPS

-----------------------------------------------------------------------------
(* The inductive invariant                                                 *)

\* What the handler works on is what the session holds, and a verdict on its
\* way is about it.
SessionInv ==
  /\ handler # "idle" => connected /\ digest \in Digests
  /\ handler # "idle" /\ session_open => delivered = digest
  /\ verdict # "none" => handler = "idle" /\ delivered \in Digests
  /\ handler \in {"idle", "parse"} => step = 1

\* Only an ack may make the broker forget a digest, and only when it is filed.
AckInv ==
  /\ verdict = "kAck" => Shows(Archive(delivered), delivered)
  /\ AckedIsFiled

\* A file under its own name is a digest's, whole but for a flush that failed.
Filed(file) == file = Absent \/ (file.digest \in Digests /\ Intact(file))

\* Which digests a name may show.
BelongsTo(name, d) == name = <<Latest>> \/ name = Archive(d)

NamesInv ==
  \A name \in Names :
    LET file == disk[<<name, "">>]
    IN  Filed(file) /\ (file # Absent => BelongsTo(name, file.digest))

\* The temporary file of the attempt at work holds its digest, and from the
\* close on all of it.  What an earlier attempt left is nobody's.
TemporaryInv ==
  LET file == disk[Temporary(Name)]
  IN  /\ handler \in {"write", "rename"} => file.digest = digest
      /\ handler = "rename" => Intact(file)

\* The second file is written only when the first one is in its place.
InOrder == handler # "idle" /\ step = 2 => Shows(Archive(digest), digest)

IInv ==
  /\ SessionInv
  /\ AckInv
  /\ NamesInv
  /\ TemporaryInv
  /\ InOrder
  /\ LatestIsFiled

-----------------------------------------------------------------------------
(* The session                                                             *)

CallTypeOK ==
  /\ handler \in {"idle", "parse", "open", "write", "rename"}
  /\ digest \in Digests \union {None}
  /\ step \in 1..2

\* Whatever happens to the session, a verdict answers what it holds.
LEMMA SessionStep ==
  ASSUME ConsumerTypeOK, CallTypeOK, SessionInv, [Next]_vars
  PROVE  ConsumerTypeOK' /\ CallTypeOK' /\ SessionInv'
<1> USE DEF CallTypeOK, SessionInv, Verdicts
<1>b. Digests = Messages /\ None \notin Messages
  BY DEF Digests, Messages, None
<1>f. ASSUME Fault \/ UNCHANGED faults
      PROVE  faults' \in 0..MaxFaults
  BY <1>f, ConsumerAssumption DEF Fault, ConsumerTypeOK
<1>d. ASSUME NEW m \in Messages, Dispatch(m)
      PROVE  newest' \in 0..NumMessages /\ late' \subseteq Messages
  BY <1>d DEF Dispatch, Messages, ConsumerTypeOK
<1>1. ASSUME NEW ack \in Verdicts, Decide(ack), handler # "idle",
             Fault \/ UNCHANGED faults
      PROVE  ConsumerTypeOK' /\ CallTypeOK' /\ SessionInv'
  BY <1>1, <1>b, <1>f DEF Decide, Answer, ConsumerTypeOK
<1>2. ASSUME handler \notin {"idle", "parse"}, handler' \notin {"idle", "parse"},
             UNCHANGED <<consumer, digest>>, step' \in {step, step + 1},
             step' \in 1..2, handler' \in {"open", "write", "rename"},
             Fault \/ UNCHANGED faults
      PROVE  ConsumerTypeOK' /\ CallTypeOK' /\ SessionInv'
  BY <1>2, <1>f DEF consumer, ConsumerTypeOK
<1>3. CASE Parse
  <2>1. CASE digest \in Malformed /\ Decide("kReject")
    BY <1>3, <2>1, <1>1 DEF Parse
  <2>2. CASE handler' = "open" /\ UNCHANGED <<consumer, digest, step>>
    BY <1>3, <2>2 DEF Parse, consumer, ConsumerTypeOK
  <2>3. QED
    BY <1>3, <2>1, <2>2 DEF Parse
<1>4. CASE Open \/ Write \/ FlushFails
  BY <1>4, <1>2 DEF Open, Write, FlushFails
<1>5. CASE OpenFails \/ WriteFails \/ RenameFails
  BY <1>5, <1>1 DEF OpenFails, WriteFails, RenameFails, OnFailure
<1>6. CASE Rename
  <2>0. Len(Files(digest)) = 2
    BY DEF Files
  <2>1. CASE /\ step < 2 /\ handler' = "open" /\ step' = step + 1
             /\ UNCHANGED <<consumer, digest>>
    <3>1. step' \in 1..2 /\ step' \in {step, step + 1}
      BY <2>1
    <3>2. handler = "rename" /\ UNCHANGED faults
      BY <1>6 DEF Rename
    <3>3. QED
      BY <2>1, <3>1, <3>2, <1>2
  <2>2. CASE Decide("kAck")
    BY <1>6, <2>2, <1>1 DEF Rename
  <2>3. QED
    <3>1. step < 2 \/ Decide("kAck")
      BY <1>6, <2>0 DEF Rename
    <3>2. step < 2 => /\ handler' = "open" /\ step' = step + 1
                      /\ UNCHANGED <<consumer, digest>>
      BY <1>6, <2>0 DEF Rename
    <3>3. QED
      BY <3>1, <3>2, <2>1, <2>2
<1>7. CASE Deliver
  BY <1>7, <1>b, <1>d DEF Deliver, Dispatch, ConsumerTypeOK
<1>8. CASE Connect
  BY <1>8, <1>b DEF Connect, Subscribe, call, ConsumerTypeOK
<1>9. CASE NoticeLoss
  BY <1>9, <1>b, <1>f DEF NoticeLoss, LoseSession, Disconnect, call, ConsumerTypeOK
<1>10. CASE Crash
  <2>1. handler' = "idle" /\ digest' = None /\ step' = 1 /\ Fault
    BY <1>10 DEF Crash
  <2>2. CallTypeOK' /\ SessionInv'
    BY <1>10, <2>1 DEF Crash, Disconnect
  <2>3. QED
    BY <1>10, <2>1, <2>2, <1>b, <1>f DEF Crash, Disconnect, ConsumerTypeOK
<1>11. CASE UNCHANGED vars
  BY <1>11 DEF vars, call, consumer, ConsumerTypeOK
<1>12. CASE Queue
  <2> UNCHANGED <<handler, digest, step>>
    BY <1>12 DEF Queue, call
  <2>1. CASE Publish
    <3>1. arrived' \in 0..NumMessages /\ arrived' \in Messages
      BY <2>1, ConsumerAssumption DEF Publish, Messages, ConsumerTypeOK
    <3>2. QED
      BY <2>1, <3>1 DEF Publish, ConsumerTypeOK
  <2>2. CASE ReceiveVerdict
    BY <2>2, <1>b DEF ReceiveVerdict, ConsumerTypeOK
  <2>3. CASE DropSession
    BY <2>3, <1>b, <1>f DEF DropSession, ConsumerTypeOK
  <2>4. CASE \E m \in Messages : DropGhost(m)
    BY <2>4 DEF DropGhost, ConsumerTypeOK
  <2>5. QED
    BY <1>12, <2>1, <2>2, <2>3, <2>4 DEF Queue, Broker
<1>13. QED
  BY <1>3, <1>4, <1>5, <1>6, <1>7, <1>8, <1>9, <1>10, <1>11, <1>12 DEF Next, Handle

-----------------------------------------------------------------------------
(* The directory                                                           *)

Paths == Names \X {"", ".tmp"}

DiskTypeOK == disk \in [Paths -> Contents]

\* The two files of a digest have different names, and only digests with the
\* same token share one.
LEMMA FileNames ==
  /\ <<Latest>> \in Names
  /\ \A d \in Digests : Archive(d) \in Names /\ Archive(d) # <<Latest>>
  /\ \A d, e \in Digests : Archive(d) = Archive(e) => Token[d] = Token[e]
  /\ digest \in Digests /\ step \in 1..2 =>
       /\ Name \in Names
       /\ step = 1 => Name = Archive(digest)
       /\ step = 2 => Name = <<Latest>>
<1>1. <<Latest>> \in Names /\ \A d \in Digests : Archive(d) \in Names
  BY DEF Names
<1>2. \A d \in Digests : Archive(d) # <<Latest>>
  BY DEF Archive
<1>3. \A d, e \in Digests : Archive(d) = Archive(e) => Token[d] = Token[e]
  BY DEF Archive
<1>4. Files(digest)[1] = Archive(digest) /\ Files(digest)[2] = <<Latest>>
  BY DEF Files
<1>5. QED
  BY <1>1, <1>2, <1>3, <1>4 DEF Name

\* A step that writes no file's own name changes nothing a reader sees.
Untouched == \A name \in Names : disk'[<<name, "">>] = disk[<<name, "">>]

\* latest.md shows a digest or nothing.
LEMMA LatestShowsDigest ==
  ASSUME NamesInv
  PROVE  LET shown == disk[<<<<Latest>>, "">>].digest
         IN  shown # None => shown \in Digests
<1>1. Filed(disk[<<<<Latest>>, "">>])
  BY FileNames DEF NamesInv
<1>2. Absent.digest = None
  BY DEF Absent
<1>3. QED
  BY <1>1, <1>2 DEF Filed

\* What holds of the files that readers see survives such a step.
LEMMA ReadersSeeTheSame ==
  ASSUME NamesInv, LatestIsFiled, Untouched
  PROVE  /\ NamesInv'
         /\ LatestIsFiled'
         /\ \A d \in Digests : Shows(Archive(d), d) => Shows(Archive(d), d)'
<1>1. NamesInv'
  BY DEF NamesInv, Untouched, Filed, BelongsTo, Intact
<1>2. \A d \in Digests : Shows(Archive(d), d) => Shows(Archive(d), d)'
  BY FileNames DEF Untouched, Shows, Intact
<1>3. LatestIsFiled'
  <2>1. disk'[<<<<Latest>>, "">>] = disk[<<<<Latest>>, "">>]
    BY FileNames DEF Untouched
  <2>2. QED
    BY <1>2, <2>1, LatestShowsDigest DEF LatestIsFiled
<1>4. QED
  BY <1>1, <1>2, <1>3

\* Open and Write work on the temporary file of the attempt.
LEMMA WriteStep ==
  ASSUME DiskTypeOK, CallTypeOK, SessionInv, TemporaryInv, Open \/ Write
  PROVE  DiskTypeOK' /\ Untouched /\ TemporaryInv'
<1> DEFINE tmp == Temporary(Name)
<1>1. digest \in Digests /\ step \in 1..2 /\ UNCHANGED <<digest, step>>
  BY DEF Open, Write, SessionInv, CallTypeOK
<1>2. tmp \in Paths /\ \A name \in Names : <<name, "">> \in Paths /\ <<name, "">> # tmp
  BY <1>1, FileNames DEF Paths, Temporary
<1>3. tmp' = tmp
  BY <1>1 DEF Temporary, Name, Files
<1> HIDE DEF tmp
<1>4. disk[tmp] \in Contents /\ DOMAIN disk = Paths
  BY <1>2 DEF DiskTypeOK
<1>5. PICK file \in Contents :
        /\ disk' = [disk EXCEPT ![tmp] = file]
        /\ handler' \in {"write", "rename"} /\ file.digest = digest
        /\ handler' = "rename" => Intact(file)
  <2>1. CASE Open
    <3> DEFINE file == [digest |-> digest, whole |-> FALSE]
    <3>1. disk' = [disk EXCEPT ![tmp] = file] /\ handler' = "write"
      BY <2>1 DEF Open, tmp
    <3>2. file \in Contents /\ file.digest = digest
      BY <1>1 DEF Contents
    <3>3. QED
      BY <3>1, <3>2
  <2>2. CASE Write
    <3> DEFINE file == [disk[tmp] EXCEPT !.whole = TRUE]
    <3>1. disk' = [disk EXCEPT ![tmp] = file] /\ handler' = "rename"
      BY <2>2 DEF Write, tmp
    <3>2. disk[tmp].digest = digest
      BY <2>2 DEF Write, TemporaryInv, tmp
    <3>3. file \in Contents /\ file.digest = digest /\ file.whole
      BY <1>4, <3>2 DEF Contents
    <3>4. QED
      BY <3>1, <3>3 DEF Intact
  <2>3. QED
    BY <2>1, <2>2
<1>6. DiskTypeOK' /\ Untouched /\ disk'[tmp] = file
  BY <1>2, <1>4, <1>5 DEF DiskTypeOK, Untouched
<1>7. TemporaryInv'
  BY <1>1, <1>3, <1>5, <1>6 DEF TemporaryInv, Intact, tmp
<1>8. QED
  BY <1>6, <1>7

\* The rename puts the digest's whole file in the place of what was there.
LEMMA RenameStep ==
  ASSUME DiskTypeOK, CallTypeOK, SessionInv, NamesInv, TemporaryInv, InOrder,
         LatestIsFiled, Rename
  PROVE  /\ DiskTypeOK' /\ NamesInv' /\ LatestIsFiled'
         /\ \A d \in Digests :
              d = digest \/ Shows(Archive(d), d) => Shows(Archive(d), d)'
<1> DEFINE own == <<Name, "">>
           tmp == <<Name, ".tmp">>
           file == disk[tmp]
<1>1. digest \in Digests /\ step \in 1..2 /\ handler = "rename"
  BY DEF Rename, SessionInv, CallTypeOK
<1>2. own \in Paths /\ tmp \in Paths /\ own # tmp
  BY <1>1, FileNames DEF Paths
<1>3. disk' = [disk EXCEPT ![own] = file, ![tmp] = Absent]
  BY DEF Rename, Temporary
<1>4. file \in Contents /\ file.digest = digest /\ Intact(file)
  BY <1>1, <1>2 DEF TemporaryInv, DiskTypeOK, Temporary
<1>5. Absent \in Contents /\ file # Absent
  BY <1>1, <1>4 DEF Absent, Contents, Digests, Messages, None
<1> HIDE DEF file
<1>6. DiskTypeOK' /\ disk'[own] = file
  BY <1>2, <1>3, <1>4, <1>5 DEF DiskTypeOK
<1>7. \A name \in Names \ {Name} : disk'[<<name, "">>] = disk[<<name, "">>]
  BY <1>2, <1>3 DEF DiskTypeOK, Paths
<1>8. BelongsTo(Name, digest)
  BY <1>1, FileNames DEF BelongsTo
<1>9. NamesInv'
  <2> SUFFICES ASSUME NEW name \in Names
               PROVE  /\ Filed(disk'[<<name, "">>])
                      /\ disk'[<<name, "">>] # Absent =>
                           BelongsTo(name, disk'[<<name, "">>].digest)
    BY DEF NamesInv, Filed, Intact, BelongsTo
  <2>1. CASE name = Name
    BY <1>1, <1>4, <1>6, <1>8, <2>1 DEF Filed
  <2>2. CASE name # Name
    BY <1>7, <2>2 DEF NamesInv
  <2>3. QED
    BY <2>1, <2>2
<1>10. ASSUME NEW d \in Digests, d = digest \/ Shows(Archive(d), d)
       PROVE  Shows(Archive(d), d)'
  <2>1. CASE Archive(d) = Name
    <3>1. Token[digest] = Token[d]
      BY <1>1, <2>1, FileNames
    <3>2. disk'[<<Archive(d), "">>] = file
      BY <1>6, <2>1
    <3>3. QED
      BY <1>4, <1>5, <3>1, <3>2 DEF Shows, Intact
  <2>2. CASE Archive(d) # Name
    <3>1. Shows(Archive(d), d)
      BY <1>1, <1>10, <2>2, FileNames DEF InOrder
    <3>2. disk'[<<Archive(d), "">>] = disk[<<Archive(d), "">>]
      BY <1>7, <2>2, FileNames
    <3>3. QED
      BY <3>1, <3>2 DEF Shows, Intact
  <2>3. QED
    BY <2>1, <2>2
<1>11. LatestIsFiled'
  <2>1. ASSUME NEW d, d = disk'[<<<<Latest>>, "">>].digest, d # None
        PROVE  Shows(Archive(d), d)'
    <3>1. CASE Name = <<Latest>>
      BY <1>1, <1>4, <1>6, <1>10, <2>1, <3>1
    <3>2. CASE Name # <<Latest>>
      <4>1. disk'[<<<<Latest>>, "">>] = disk[<<<<Latest>>, "">>]
        BY <1>7, <3>2, FileNames
      <4>2. d \in Digests
        BY <2>1, <4>1, LatestShowsDigest
      <4>3. Shows(Archive(d), d)
        BY <2>1, <4>1 DEF LatestIsFiled
      <4>4. QED
        BY <1>10, <4>2, <4>3
    <3>3. QED
      BY <3>1, <3>2
  <2>2. QED
    BY <2>1 DEF LatestIsFiled
<1>12. QED
  BY <1>6, <1>9, <1>10, <1>11
DirectoryInv ==
  DiskTypeOK /\ NamesInv /\ TemporaryInv /\ InOrder /\ LatestIsFiled

\* A step keeps what was filed, and one that finishes a file files it.
StaysFiled ==
  \A d \in Digests :
    Shows(Archive(d), d) \/ (Rename /\ d = digest) => Shows(Archive(d), d)'

\* Whatever the step, what was filed stays so, and the invariants of the
\* directory hold again.
LEMMA DirectoryStep ==
  ASSUME DirectoryInv, CallTypeOK, SessionInv, [Next]_vars
  PROVE  DirectoryInv' /\ StaysFiled
<1> USE DEF DirectoryInv
<1>1. CASE Rename
  <2>1. /\ DiskTypeOK' /\ NamesInv' /\ LatestIsFiled'
        /\ \A d \in Digests :
             d = digest \/ Shows(Archive(d), d) => Shows(Archive(d), d)'
    BY <1>1, RenameStep
  <2>2. digest \in Digests /\ step \in 1..2
    BY <1>1 DEF Rename, SessionInv, CallTypeOK
  <2>3. handler' = "idle" \/ (handler' = "open" /\ digest' = digest)
    BY <1>1 DEF Rename, Decide
  <2>4. InOrder'
    BY <2>1, <2>2, <2>3 DEF InOrder
  <2>5. QED
    BY <2>1, <2>3, <2>4 DEF TemporaryInv, StaysFiled
<1>2. ASSUME DiskTypeOK', Untouched, TemporaryInv', ~Rename,
             \/ handler' = "idle"
             \/ handler' # "idle" /\ step' = 1
             \/ handler # "idle" /\ UNCHANGED <<digest, step>>
      PROVE  DirectoryInv' /\ StaysFiled
  <2>1. /\ NamesInv' /\ LatestIsFiled'
        /\ \A d \in Digests : Shows(Archive(d), d) => Shows(Archive(d), d)'
    BY <1>2, ReadersSeeTheSame
  <2>2. handler # "idle" => digest \in Digests
    BY DEF SessionInv
  <2>3. InOrder'
    BY <1>2, <2>1, <2>2 DEF InOrder
  <2>4. QED
    BY <1>2, <2>1, <2>3 DEF StaysFiled
<1>3. CASE Open \/ Write
  <2>1. handler # "idle" /\ UNCHANGED <<digest, step>> /\ handler # "rename"
    BY <1>3 DEF Open, Write
  <2>2. QED
    BY <1>2, <1>3, <2>1, WriteStep DEF Rename
<1>4. ASSUME UNCHANGED disk, handler' \notin {"write", "rename"}, handler # "rename",
             \/ handler' = "idle"
             \/ handler' # "idle" /\ step' = 1
             \/ handler # "idle" /\ UNCHANGED <<digest, step>>
      PROVE  DirectoryInv' /\ StaysFiled
  BY <1>2, <1>4 DEF DiskTypeOK, Untouched, TemporaryInv, Rename
<1>5. CASE FlushFails
  <2>1. /\ UNCHANGED <<disk, digest, step>> /\ handler = "write"
        /\ handler' = "rename" /\ digest \in Small
    BY <1>5 DEF FlushFails
  <2>2. disk[Temporary(Name)].digest \in Small
    BY <2>1 DEF TemporaryInv
  <2>3. TemporaryInv'
    BY <2>1, <2>2 DEF TemporaryInv, Temporary, Name, Files, Intact
  <2>4. QED
    BY <1>2, <2>1, <2>3 DEF DiskTypeOK, Untouched, Rename
<1>6. CASE RenameFails /\ ~Rename
  <2>1. digest \in Digests /\ step \in 1..2 /\ handler' = "idle"
    BY <1>6 DEF RenameFails, Decide, SessionInv, CallTypeOK
  <2>2. Temporary(Name) \in Paths
        /\ \A name \in Names : <<name, "">> \in Paths /\ <<name, "">> # Temporary(Name)
    BY <2>1, FileNames DEF Paths, Temporary
  <2>3. disk' = [disk EXCEPT ![Temporary(Name)] = Absent] /\ Absent \in Contents
    BY <1>6 DEF RenameFails, Absent, Contents
  <2>4. DiskTypeOK' /\ Untouched
    BY <2>2, <2>3 DEF DiskTypeOK, Untouched
  <2>5. QED
    BY <1>6, <2>1, <2>4, <1>2 DEF TemporaryInv, Rename
<1>7. CASE Parse
  <2>1. handler = "parse" /\ step = 1 /\ UNCHANGED disk
    BY <1>7 DEF Parse, SessionInv
  <2>2. handler' = "idle" \/ (handler' = "open" /\ UNCHANGED <<digest, step>>)
    BY <1>7 DEF Parse, Decide
  <2>3. QED
    BY <1>4, <2>1, <2>2
<1>8. CASE OpenFails \/ WriteFails
  BY <1>4, <1>8 DEF OpenFails, WriteFails, Decide
<1>9. CASE Deliver
  BY <1>4, <1>9 DEF Deliver, SessionInv
<1>10. CASE NoticeLoss
  BY <1>4, <1>10 DEF NoticeLoss, call
<1>11. CASE Connect \/ Queue \/ UNCHANGED vars
  <2>1. UNCHANGED <<handler, digest, step, disk>> /\ ~Rename
    <3>1. UNCHANGED <<handler, digest, step, disk>>
      BY <1>11 DEF Connect, Queue, vars, call
    <3>2. QED
      BY <3>1 DEF Rename, Decide
  <2>2. TemporaryInv'
    BY <2>1 DEF TemporaryInv, Temporary, Name, Files, Intact
  <2>3. handler = "idle" => step' = 1
    BY <2>1 DEF SessionInv
  <2>4. QED
    BY <1>2, <2>1, <2>2, <2>3 DEF DiskTypeOK, Untouched
<1>12. CASE Crash /\ ~Rename
  <2>1. handler' = "idle" /\ UNCHANGED disk
    BY <1>12 DEF Crash
  <2>2. DiskTypeOK' /\ Untouched /\ TemporaryInv'
    BY <2>1 DEF DiskTypeOK, Untouched, TemporaryInv
  <2>3. ~Rename
    BY <1>12
  <2>4. QED
    BY <1>2, <2>1, <2>2, <2>3
<1>13. QED
  BY <1>1, <1>3, <1>5, <1>6, <1>7, <1>8, <1>9, <1>10, <1>11, <1>12 DEF Next, Handle

\* An ack is sent, and received, only for a digest that is filed.
LEMMA AckStep ==
  ASSUME SessionInv, CallTypeOK, ConsumerTypeOK, AckInv, [Next]_vars,
         StaysFiled
  PROVE  AckInv'
<1>1. acked \subseteq Digests
  BY DEF ConsumerTypeOK, Digests
<1>2. ASSUME acked' = acked, verdict' = "kAck" => verdict = "kAck" /\ delivered' = delivered
      PROVE  AckInv'
  <2>1. AckedIsFiled'
    BY <1>1, <1>2 DEF AckInv, AckedIsFiled, StaysFiled
  <2>2. ASSUME NEW d, d = delivered', verdict' = "kAck"
        PROVE  Shows(Archive(d), d)'
    BY <1>2, <2>2 DEF AckInv, SessionInv, StaysFiled
  <2>3. QED
    BY <2>1, <2>2 DEF AckInv
<1>3. CASE Rename
  <2>1. CASE verdict' = "kAck"
    <3>1. handler # "idle" /\ acked' = acked /\ delivered' = delivered
      BY <1>3 DEF Rename, Decide, Answer, consumer
    <3>2. verdict # "kAck"
      BY <3>1 DEF SessionInv
    <3>3. session_open
      BY <1>3, <2>1, <3>2 DEF Rename, Decide, Answer, consumer
    <3>4. delivered' = digest /\ digest \in Digests
      BY <3>1, <3>3 DEF SessionInv
    <3>5. ASSUME NEW d, d = delivered' PROVE Shows(Archive(d), d)'
      BY <1>3, <3>4, <3>5 DEF StaysFiled
    <3>6. AckedIsFiled'
      BY <1>1, <3>1 DEF AckInv, AckedIsFiled, StaysFiled
    <3>7. QED
      BY <3>5, <3>6 DEF AckInv
  <2>2. CASE verdict' # "kAck"
    BY <1>2, <1>3, <2>2 DEF Rename, Decide, Answer, consumer
  <2>3. QED
    BY <2>1, <2>2
<1>4. CASE Open \/ Write \/ FlushFails
  BY <1>2, <1>4 DEF Open, Write, FlushFails, consumer
<1>5. CASE Parse \/ OpenFails \/ WriteFails \/ RenameFails
  BY <1>2, <1>5 DEF Parse, OpenFails, WriteFails, RenameFails, OnFailure, Decide,
                    Answer, consumer
<1>6. CASE Deliver
  BY <1>2, <1>6 DEF Deliver, Dispatch, SessionInv, Digests, Messages, None
<1>7. CASE Connect \/ NoticeLoss \/ Crash \/ UNCHANGED vars
  BY <1>2, <1>7 DEF Connect, Subscribe, NoticeLoss, LoseSession, Crash, Disconnect,
                    vars, consumer
<1>8. CASE Queue
  <2>1. CASE Publish \/ DropSession \/ \E m \in Messages : DropGhost(m)
    BY <1>2, <2>1 DEF Publish, DropSession, DropGhost
  <2>2. CASE ReceiveVerdict
    <3>1. verdict' = "none" /\ acked' \subseteq acked \union {delivered}
      BY <2>2 DEF ReceiveVerdict
    <3>2. delivered \in acked' => delivered \in acked \/ verdict = "kAck"
      BY <2>2 DEF ReceiveVerdict
    <3>3. ASSUME NEW d \in acked' PROVE d \in Digests /\ Shows(Archive(d), d)
      <4>1. CASE d \in acked
        BY <1>1, <4>1 DEF AckInv, AckedIsFiled
      <4>2. CASE d = delivered /\ verdict = "kAck"
        BY <4>2 DEF AckInv, SessionInv
      <4>3. QED
        BY <3>1, <3>2, <4>1, <4>2
    <3>4. QED
      BY <3>1, <3>3 DEF AckInv, AckedIsFiled, StaysFiled
  <2>3. QED
    BY <1>8, <2>1, <2>2 DEF Queue, Broker
<1>9. QED
  BY <1>3, <1>4, <1>5, <1>6, <1>7, <1>8 DEF Next, Handle
-----------------------------------------------------------------------------
(* The theorems                                                            *)

\* Types and the inductive invariant hold in every reachable state.
THEOREM InvariantHolds == Spec => [](TypeOK /\ IInv)
<1>1. Init => TypeOK /\ IInv
  <2> SUFFICES ASSUME Init PROVE TypeOK /\ IInv
    OBVIOUS
  <2>1. ConsumerTypeOK
    <3>1. 0 \in 0..NumMessages /\ 0 \in 0..MaxFaults
      BY ConsumerAssumption
    <3>2. QED
      BY <3>1 DEF Init, ConsumerInit, ConsumerTypeOK, None
  <2>2. disk = [path \in Paths |-> Absent]
    BY DEF Init, Paths
  <2>3. \A name \in Names : disk[<<name, "">>] = Absent
    BY <2>2 DEF Paths
  <2>4. TypeOK
    <3>1. Absent \in Contents
      BY DEF Absent, Contents
    <3>2. disk \in [Paths -> Contents]
      BY <2>2, <3>1
    <3>3. 1 \in 1..2
      OBVIOUS
    <3>4. QED
      BY <2>1, <3>2, <3>3 DEF Init, TypeOK, Paths
  <2>5. LatestIsFiled
    <3>1. disk[<<<<Latest>>, "">>] = Absent /\ Absent.digest = None
      BY <2>3, FileNames DEF Absent
    <3>2. QED
      BY <3>1 DEF LatestIsFiled
  <2>6. SessionInv /\ AckInv
    BY DEF Init, ConsumerInit, SessionInv, AckInv, AckedIsFiled
  <2>7. QED
    BY <2>3, <2>4, <2>5, <2>6
    DEF Init, IInv, NamesInv, Filed, TemporaryInv, InOrder
<1>2. TypeOK /\ IInv /\ [Next]_vars => (TypeOK /\ IInv)'
  <2> SUFFICES ASSUME TypeOK, IInv, [Next]_vars PROVE (TypeOK /\ IInv)'
    OBVIOUS
  <2>1. ConsumerTypeOK /\ CallTypeOK /\ DiskTypeOK
    BY DEF TypeOK, CallTypeOK, DiskTypeOK, Paths
  <2>2. ConsumerTypeOK' /\ CallTypeOK' /\ SessionInv'
    BY <2>1, SessionStep DEF IInv
  <2>3. DirectoryInv' /\ StaysFiled
    BY <2>1, DirectoryStep DEF IInv, DirectoryInv
  <2>4. AckInv'
    BY <2>1, <2>3, AckStep DEF IInv
  <2>5. TypeOK'
    BY <2>2, <2>3 DEF TypeOK, CallTypeOK, DiskTypeOK, DirectoryInv, Paths
  <2>6. QED
    BY <2>2, <2>3, <2>4, <2>5 DEF IInv, DirectoryInv
<1>3. QED
  BY <1>1, <1>2, PTL DEF Spec

\* The volume and the session keep their types.
THEOREM TypeCorrect == Spec => []TypeOK
BY InvariantHolds, PTL

\* The broker forgets a digest only when a reader finds a whole file under its
\* name, or one whose flush failed: wherever the process died, whichever call
\* failed, and whatever was delivered again.
THEOREM AckedFiled == Spec => []AckedIsFiled
<1>1. IInv => AckedIsFiled
  BY DEF IInv, AckInv
<1>2. QED
  BY <1>1, InvariantHolds, PTL

\* Under its own name a file is never a part of a digest.
THEOREM FilesWhole == Spec => []FilesAreWhole
<1>1. IInv => FilesAreWhole
  BY DEF IInv, NamesInv, Filed, FilesAreWhole
<1>2. QED
  BY <1>1, InvariantHolds, PTL

\* latest.md never shows a digest that has no file of its own.
THEOREM LatestFiled == Spec => []LatestIsFiled
<1>1. IInv => LatestIsFiled
  BY DEF IInv
<1>2. QED
  BY <1>1, InvariantHolds, PTL

-----------------------------------------------------------------------------
(* What latest.md shows                                                    *)

LatestShown == disk[<<<<Latest>>, "">>].digest

\* latest.md does not stand for an older digest than d, unless for a late one.
NotOlder(d) == d <= LatestShown \/ LatestShown \in late

\* What is at work, held or acknowledged was delivered: it is not newer than the
\* newest, and what is at work is that one unless it was delivered late.
OrderInv ==
  /\ \A d \in acked : d <= newest
  /\ delivered <= newest
  /\ handler # "idle" => digest <= newest /\ (digest \in late \/ digest = newest)

NewestInv ==
  /\ LatestIsNewest
  /\ verdict = "kAck" => NotOlder(delivered)

\* Only the second rename of a digest writes latest.md.
LEMMA LatestStep ==
  ASSUME DiskTypeOK, CallTypeOK, SessionInv, TemporaryInv, [Next]_vars
  PROVE  LatestShown' = IF Rename /\ step = 2 THEN digest ELSE LatestShown
<1> DEFINE path == <<<<Latest>>, "">>
<1>1. path \in Paths /\ DOMAIN disk = Paths /\ \A name : path # Temporary(name)
  BY FileNames DEF Paths, DiskTypeOK, Temporary
<1>2. ASSUME NEW file, disk' = [disk EXCEPT ![Temporary(Name)] = file]
      PROVE  LatestShown' = LatestShown
  BY <1>1, <1>2 DEF LatestShown
<1>3. CASE ~Rename /\ (Open \/ Write \/ RenameFails)
  BY <1>2, <1>3 DEF Open, Write, RenameFails
<1>4. CASE Rename
  <2>1. digest \in Digests /\ step \in 1..2 /\ handler = "rename"
    BY <1>4 DEF Rename, SessionInv, CallTypeOK
  <2>2. disk' = [disk EXCEPT ![<<Name, "">>] = disk[<<Name, ".tmp">>],
                             ![<<Name, ".tmp">>] = Absent]
    BY <1>4 DEF Rename, Temporary
  <2>3. CASE step = 1
    <3>1. path # <<Name, "">> /\ path # <<Name, ".tmp">>
      BY <2>1, <2>3, FileNames
    <3>2. disk'[path] = disk[path]
      BY <1>1, <2>2, <3>1
    <3>3. LatestShown' = LatestShown
      BY <3>2 DEF LatestShown
    <3>4. QED
      BY <2>3, <3>3
  <2>4. CASE step = 2
    <3>1. path = <<Name, "">> /\ path # <<Name, ".tmp">>
      BY <2>1, <2>4, FileNames
    <3>2. disk'[path] = disk[<<Name, ".tmp">>]
      BY <1>1, <2>2, <3>1
    <3>3. disk[<<Name, ".tmp">>].digest = digest
      BY <2>1 DEF TemporaryInv, Temporary
    <3>4. QED
      BY <1>4, <2>4, <3>2, <3>3 DEF LatestShown
  <2>5. QED
    BY <2>1, <2>3, <2>4
<1>5. CASE ~Rename /\ UNCHANGED disk
  BY <1>5 DEF LatestShown
<1>6. QED
  BY <1>3, <1>4, <1>5
  DEF Next, Handle, Parse, OpenFails, WriteFails, FlushFails, Deliver, Connect,
      NoticeLoss, Crash, Queue, vars

\* Only a delivery writes the history of the deliveries.
LEMMA HistoryStep ==
  ASSUME [Next]_vars, ~Deliver
  PROVE  UNCHANGED <<newest, late>>
<1>1. CASE Handle
  BY <1>1
  DEF Handle, Parse, Open, OpenFails, Write, WriteFails, FlushFails, Rename,
      RenameFails, Decide, Answer, consumer
<1>2. CASE Connect \/ NoticeLoss \/ Crash \/ UNCHANGED vars
  BY <1>2
  DEF Connect, Subscribe, NoticeLoss, LoseSession, Disconnect, Crash, vars, consumer
<1>3. CASE Queue
  BY <1>3 DEF Queue, Broker, Publish, ReceiveVerdict, DropSession, DropGhost
<1>4. QED
  BY <1>1, <1>2, <1>3 DEF Next

\* What is acknowledged was held, and what is held was delivered.
LEMMA OrderStep ==
  ASSUME ConsumerTypeOK, SessionInv, OrderInv, [Next]_vars
  PROVE  OrderInv'
<1> USE DEF OrderInv
<1>0. /\ acked \subseteq Nat /\ delivered \in Nat /\ newest \in Nat
      /\ Digests \subseteq Nat
  BY DEF ConsumerTypeOK, Digests, Messages, None
<1>1. CASE Deliver
  <2>1. PICK m \in Digests :
          /\ digest' = m /\ delivered' = m
          /\ newest' = IF m > newest THEN m ELSE newest
          /\ late' = IF m < newest THEN late \union {m} ELSE late
          /\ UNCHANGED acked
    BY <1>1 DEF Deliver, Dispatch
  <2>2. m \in Nat
    BY <1>0
  <2>3. QED
    BY <1>0, <2>1, <2>2
<1>2. CASE ~Deliver
  <2>1. UNCHANGED <<newest, late>>
    BY <1>2, HistoryStep
  <2>2. /\ acked' \subseteq acked \union {delivered}
        /\ delivered' \in {delivered, None}
    <3>1. CASE Handle
      BY <3>1
      DEF Handle, Parse, Open, OpenFails, Write, WriteFails, FlushFails, Rename,
          RenameFails, Decide, Answer, consumer
    <3>2. CASE Connect \/ NoticeLoss \/ Crash \/ UNCHANGED vars
      BY <3>2
      DEF Connect, Subscribe, NoticeLoss, LoseSession, Disconnect, Crash, vars, consumer
    <3>3. CASE Queue
      BY <3>3 DEF Queue, Broker, Publish, ReceiveVerdict, DropSession, DropGhost
    <3>4. QED
      BY <1>2, <3>1, <3>2, <3>3 DEF Next
  <2>3. handler' = "idle" \/ (handler # "idle" /\ digest' = digest)
    <3>1. CASE Handle
      BY <3>1
      DEF Handle, Parse, Open, OpenFails, Write, WriteFails, FlushFails, Rename,
          RenameFails, Decide
    <3>2. CASE Connect \/ NoticeLoss \/ Crash \/ Queue \/ UNCHANGED vars
      BY <3>2 DEF Connect, NoticeLoss, Crash, Queue, vars, call
    <3>3. QED
      BY <1>2, <3>1, <3>2 DEF Next
  <2>4. QED
    BY <1>0, <2>1, <2>2, <2>3 DEF None
<1>3. QED
  BY <1>1, <1>2

\* A digest that is acknowledged has been the latest, and what takes its place
\* is newer or late.
LEMMA NewestStep ==
  ASSUME ConsumerTypeOK, DiskTypeOK, CallTypeOK, SessionInv, TemporaryInv, OrderInv,
         NewestInv, [Next]_vars
  PROVE  NewestInv'
<1> USE DEF NewestInv
<1>0. LatestIsNewest <=> \A d \in acked : NotOlder(d)
  BY DEF LatestIsNewest, NotOlder, LatestShown
<1>1. LatestIsNewest' <=> \A d \in acked' : NotOlder(d)'
  BY DEF LatestIsNewest, NotOlder, LatestShown
<1>2. late \subseteq late'
  BY HistoryStep DEF Deliver, Dispatch
<1>3. CASE Rename /\ step = 2
  <2>1. UNCHANGED <<acked, newest, late, delivered>> /\ handler # "idle"
    BY <1>3 DEF Rename, Decide, Answer, consumer
  <2>2. \A d : d <= newest => NotOlder(d)'
    <3>1. LatestShown' = digest
      BY <1>3, LatestStep
    <3>2. QED
      BY <2>1, <3>1 DEF OrderInv, NotOlder
  <2>3. QED
    BY <1>1, <2>1, <2>2 DEF OrderInv
<1>4. CASE ~(Rename /\ step = 2)
  <2>1. \A d : NotOlder(d) => NotOlder(d)'
    BY <1>2, <1>4, LatestStep DEF NotOlder
  <2>2. /\ verdict' = "kAck" => verdict = "kAck" /\ delivered' = delivered
        /\ acked' \subseteq acked \union (IF verdict = "kAck" THEN {delivered} ELSE {})
    <3>1. CASE Rename
      <4>1. step = 1 /\ Len(Files(digest)) = 2
        BY <1>4, <3>1 DEF CallTypeOK, Files
      <4>2. step < Len(Files(digest))
        BY <4>1
      <4>3. UNCHANGED consumer
        BY <3>1, <4>2 DEF Rename
      <4>4. QED
        BY <4>3 DEF consumer
    <3>2. CASE ~Rename /\ Handle
      <4>1. CASE Open \/ Write \/ FlushFails
        BY <4>1 DEF Open, Write, FlushFails, consumer
      <4>2. CASE Parse \/ OpenFails \/ WriteFails \/ RenameFails
        <5>1. \/ UNCHANGED consumer
              \/ Answer("kReject") \/ Answer("kRequeue")
          BY <4>2 DEF Parse, OpenFails, WriteFails, RenameFails, OnFailure, Decide
        <5>2. QED
          BY <5>1 DEF Answer, consumer
      <4>3. QED
        BY <3>2, <4>1, <4>2 DEF Handle
    <3>3. CASE Deliver
      BY <3>3 DEF Deliver, Dispatch, SessionInv, Digests, Messages, None
    <3>4. CASE Connect \/ NoticeLoss \/ Crash \/ UNCHANGED vars
      BY <3>4
      DEF Connect, Subscribe, NoticeLoss, LoseSession, Crash, Disconnect, vars, consumer
    <3>5. CASE Queue
      BY <3>5 DEF Queue, Broker, Publish, ReceiveVerdict, DropSession, DropGhost
    <3>6. QED
      BY <3>1, <3>2, <3>3, <3>4, <3>5 DEF Next
  <2>3. QED
    BY <1>0, <1>1, <2>1, <2>2
<1>5. QED
  BY <1>3, <1>4

\* latest.md goes back in time only with a digest that is delivered after a newer
\* one: the second file is written for every digest, in the order of delivery.
THEOREM LatestNewest == Spec => []LatestIsNewest
<1>1. Init => OrderInv /\ NewestInv
  <2> SUFFICES ASSUME Init PROVE OrderInv /\ NewestInv
    OBVIOUS
  <2>1. acked = {} /\ delivered = 0 /\ newest = 0 /\ handler = "idle" /\ verdict = "none"
    BY DEF Init, ConsumerInit, None
  <2>2. LatestIsNewest
    BY <2>1 DEF LatestIsNewest
  <2>3. QED
    BY <2>1, <2>2 DEF OrderInv, NewestInv
<1>2. /\ TypeOK /\ IInv
      /\ OrderInv /\ NewestInv
      /\ [Next]_vars
      => (OrderInv /\ NewestInv)'
  <2> SUFFICES ASSUME TypeOK, IInv, OrderInv, NewestInv, [Next]_vars
               PROVE  (OrderInv /\ NewestInv)'
    OBVIOUS
  <2>1. /\ ConsumerTypeOK /\ DiskTypeOK /\ CallTypeOK
        /\ SessionInv /\ TemporaryInv
    BY DEF TypeOK, CallTypeOK, DiskTypeOK, Paths, IInv
  <2>2. QED
    BY <2>1, OrderStep, NewestStep
<1>3. NewestInv => LatestIsNewest
  BY DEF NewestInv
<1>4. QED
  BY <1>1, <1>2, <1>3, InvariantHolds, PTL DEF Spec
=============================================================================
