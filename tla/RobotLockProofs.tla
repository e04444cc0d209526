--------------------------- MODULE RobotLockProofs ---------------------------
(***************************************************************************)
(* What the lock file guarantees for any number of processes, any number   *)
(* of requests and any crashes.  The argument: a live process between its  *)
(* O_EXCL create and its unlink is the creator of the file on the path, as *)
(* long as no unlink has hit a file its caller did not judge; and a file    *)
(* has one creator.                                                        *)
(***************************************************************************)
EXTENDS RobotLock, TLAPS

OwningLocations == {"write", "held", "relRead", "relUnlink"}

\* A descriptor is held only by a live process that finished acquire().
FdMeansHeld == \A p \in Proc : fd[p] => life[p] = "live" /\ pc[p] = "held"

\* A process about to unlink read a pid, and that process had exited.
JudgedDead ==
    \A p \in Proc : pc[p] = "unlink" => seen[p] \in Proc /\ life[seen[p]] # "live"

\* A process that read another's pid finds no file of its own: it cannot have made one since.
ForeignFile ==
    \A p \in Proc : pc[p] \in {"judge", "unlink"} /\ seen[p] \in Proc \ {p} => file.by # p

\* Past the loop test an iteration is left to count.
TriesInLoop ==
    \A p \in Proc : pc[p] \in {"read", "judge", "unlink"} => tries[p] < MaxTries

\* A live creator of the file on the path has not let go of it, or could not unlink it.
CreatorOwns ==
    file.by \in Proc =>
        \/ life[file.by] # "live" \/ pc[file.by] \in OwningLocations
        \/ file.by \in failed

\* The heart of the argument: whoever may hold the arm created the file.
OwnersCreated == \A p \in Owning : file.by = p

IInv ==
    /\ TypeOK
    /\ FdMeansHeld
    /\ JudgedDead
    /\ ForeignFile
    /\ TriesInLoop
    /\ CreatorOwns
    /\ ~strayUnlink => OwnersCreated

-----------------------------------------------------------------------------
LEMMA ConstantFacts == NoPid \notin Proc /\ NoFile.by = NoPid /\ NoFile.written = FALSE
BY RobotLockAssumption DEF Proc, NoFile

\* The state the programs start in satisfies the inductive invariant.
LEMMA InitIInv == Init => IInv
<1> SUFFICES ASSUME Init PROVE IInv
  OBVIOUS
<1>1. TypeOK
  <2>1. 0 \in 0 .. MaxTries /\ 0 \in 0 .. Rounds
    BY RobotLockAssumption DEF MaxTries
  <2>2. QED
    BY <2>1 DEF Init, TypeOK, Locations, NoFile
<1>2. FdMeansHeld /\ JudgedDead /\ ForeignFile /\ TriesInLoop
  BY DEF Init, FdMeansHeld, JudgedDead, ForeignFile, TriesInLoop
<1>3. CreatorOwns /\ OwnersCreated
  BY ConstantFacts DEF Init, CreatorOwns, OwnersCreated, Owning
<1>4. QED
  BY <1>1, <1>2, <1>3 DEF IInv

LEMMA StepStartAcquire ==
    ASSUME IInv, NEW p \in Proc, StartAcquire(p)
    PROVE  IInv'
BY ConstantFacts, RobotLockAssumption
DEF StartAcquire, At, Goto, history, IInv, TypeOK, FdMeansHeld, JudgedDead, ForeignFile, TriesInLoop, CreatorOwns,
    OwnersCreated, Owning, OwningLocations, Locations, NoFile

LEMMA StepCreateFile ==
    ASSUME IInv, NEW p \in Proc, CreateFile(p)
    PROVE  IInv'
<1> USE ConstantFacts DEF IInv, At, Goto, history
<1>1. CASE PathFree /\ file' = [by |-> p, written |-> FALSE]
           /\ tries' = [tries EXCEPT ![p] = 0] /\ Goto(p, "write")
  <2>1. TypeOK'
    BY <1>1 DEF CreateFile, TypeOK, Locations, NoFile, MaxTries
  <2>2. FdMeansHeld' /\ JudgedDead' /\ ForeignFile' /\ TriesInLoop' /\ CreatorOwns'
    BY <1>1 DEF CreateFile, TypeOK, FdMeansHeld, JudgedDead, ForeignFile, TriesInLoop, CreatorOwns,
                OwningLocations
  <2>3. ~strayUnlink' => OwnersCreated'
    <3>1. ASSUME ~strayUnlink PROVE Owning = {}
      BY <1>1, <3>1 DEF OwnersCreated, PathFree, Owning, NoFile
    <3>2. Owning' \subseteq Owning \cup {p}
      BY <1>1 DEF CreateFile, TypeOK, Owning
    <3>3. strayUnlink' = strayUnlink /\ file'.by = p
      BY <1>1 DEF CreateFile
    <3>4. QED
      BY <3>1, <3>2, <3>3 DEF OwnersCreated
  <2>4. QED
    BY <2>1, <2>2, <2>3
<1>2. CASE TryLeft(p) /\ Goto(p, "read") /\ UNCHANGED <<file, tries>>
  BY <1>2 DEF TryLeft, CreateFile, TypeOK, FdMeansHeld, JudgedDead, ForeignFile, TriesInLoop, CreatorOwns,
              OwnersCreated, Owning, OwningLocations, Locations, NoFile
<1>3. CASE Goto(p, "idle") /\ tries' = [tries EXCEPT ![p] = 0] /\ UNCHANGED file
  BY <1>3 DEF CreateFile, TypeOK, FdMeansHeld, JudgedDead, ForeignFile, TriesInLoop, CreatorOwns,
              OwnersCreated, Owning, OwningLocations, Locations, NoFile, MaxTries
<1>4. QED
  BY <1>1, <1>2, <1>3 DEF CreateFile

LEMMA StepReadOwner ==
    ASSUME IInv, NEW p \in Proc, ReadOwner(p)
    PROVE  IInv'
BY ConstantFacts
DEF ReadOwner, OwnerPid, At, Goto, history, IInv, TypeOK, FdMeansHeld, JudgedDead,
    ForeignFile, TriesInLoop, CreatorOwns, OwnersCreated, Owning, OwningLocations, Locations, NoFile

LEMMA StepJudgeOwner ==
    ASSUME IInv, NEW p \in Proc, JudgeOwner(p)
    PROVE  IInv'
<1> USE ConstantFacts DEF IInv, At, Goto, history
<1>1. CASE Stale(p) /\ Goto(p, "unlink") /\ UNCHANGED <<seen, tries>>
  <2>1. seen[p] \in Proc /\ life[seen[p]] # "live"
    BY <1>1 DEF Stale, PidAlive, TypeOK
  <2>2. QED
    BY <1>1, <2>1
    DEF JudgeOwner, TypeOK, FdMeansHeld, JudgedDead, ForeignFile, TriesInLoop, CreatorOwns, OwnersCreated,
        Owning, OwningLocations, Locations, NoFile
<1>2. CASE Goto(p, "idle") /\ seen' = [seen EXCEPT ![p] = NoPid]
           /\ tries' = [tries EXCEPT ![p] = 0]
  BY <1>2
  DEF JudgeOwner, TypeOK, FdMeansHeld, JudgedDead, ForeignFile, TriesInLoop, CreatorOwns, OwnersCreated,
      Owning, OwningLocations, Locations, NoFile, MaxTries
<1>3. QED
  BY <1>1, <1>2 DEF JudgeOwner

\* An unlink that fails touches the history only.
LEMMA StepUnlinkStale ==
    ASSUME IInv, NEW p \in Proc, UnlinkStale(p)
    PROVE  IInv'
<1> USE ConstantFacts DEF IInv, At, Goto
<1>1. CASE Unlinked(seen[p]) /\ tries' = [tries EXCEPT ![p] = @ + 1] /\ Goto(p, "create")
  <2>1. TypeOK'
    BY <1>1 DEF UnlinkStale, Unlinked, TypeOK, TriesInLoop, Locations, NoFile, MaxTries
  <2>2. FdMeansHeld' /\ JudgedDead' /\ ForeignFile' /\ TriesInLoop' /\ CreatorOwns'
    BY <1>1 DEF UnlinkStale, Unlinked, TypeOK, FdMeansHeld, JudgedDead, ForeignFile,
                TriesInLoop, CreatorOwns
  <2>3. ~strayUnlink' => OwnersCreated'
    <3>1. SUFFICES ASSUME ~strayUnlink' PROVE Owning' = {}
      BY DEF OwnersCreated
    <3>2. ~strayUnlink /\ file.by \in {NoPid, seen[p]}
      BY <1>1, <3>1 DEF Unlinked
    <3>3. seen[p] \in Proc /\ life[seen[p]] # "live"
      BY DEF UnlinkStale, JudgedDead
    <3>4. Owning = {}
      BY <3>2, <3>3 DEF OwnersCreated, Owning
    <3>5. Owning' \subseteq Owning
      BY <1>1 DEF UnlinkStale, TypeOK, Owning
    <3>6. QED
      BY <3>4, <3>5
  <2>4. QED
    BY <2>1, <2>2, <2>3
<1>2. CASE UnlinkFails(p) /\ tries' = [tries EXCEPT ![p] = 0] /\ Goto(p, "idle")
  <2>1. TypeOK'
    BY <1>2 DEF UnlinkStale, UnlinkFails, TypeOK, Locations, NoFile, MaxTries
  <2>2. FdMeansHeld' /\ JudgedDead' /\ ForeignFile' /\ TriesInLoop' /\ CreatorOwns'
    BY <1>2 DEF UnlinkStale, UnlinkFails, TypeOK, FdMeansHeld, JudgedDead, ForeignFile,
                TriesInLoop, CreatorOwns, OwningLocations
  <2>3. ~strayUnlink' => OwnersCreated'
    BY <1>2 DEF UnlinkStale, UnlinkFails, TypeOK, OwnersCreated, Owning
  <2>4. QED
    BY <2>1, <2>2, <2>3
<1>3. QED
  BY <1>1, <1>2 DEF UnlinkStale

LEMMA StepWritePayload ==
    ASSUME IInv, NEW p \in Proc, WritePayload(p)
    PROVE  IInv'
<1> USE ConstantFacts DEF IInv, At, Goto, history
<1>1. PICK ok \in BOOLEAN :
        file' = IF ok /\ file.by = p THEN [file EXCEPT !.written = TRUE] ELSE file
  BY DEF WritePayload
<1>2. TypeOK' /\ file'.by = file.by
  BY <1>1 DEF WritePayload, TypeOK, Locations, NoFile
<1>3. FdMeansHeld' /\ JudgedDead' /\ ForeignFile' /\ TriesInLoop' /\ CreatorOwns'
  BY <1>2 DEF WritePayload, TypeOK, FdMeansHeld, JudgedDead, ForeignFile, TriesInLoop, CreatorOwns,
              OwningLocations
<1>4. ~strayUnlink' => OwnersCreated'
  BY <1>2 DEF WritePayload, TypeOK, OwnersCreated, Owning
<1>5. QED
  BY <1>2, <1>3, <1>4

LEMMA StepCloseFd ==
    ASSUME IInv, NEW p \in Proc, CloseFd(p)
    PROVE  IInv'
BY ConstantFacts
DEF CloseFd, At, Goto, history, IInv, TypeOK, FdMeansHeld, JudgedDead, ForeignFile, TriesInLoop,
    CreatorOwns, OwnersCreated, Owning, OwningLocations, Locations, NoFile

LEMMA StepReadBeforeRelease ==
    ASSUME IInv, NEW p \in Proc, ReadBeforeRelease(p)
    PROVE  IInv'
<1> USE ConstantFacts DEF IInv, At, Goto, history, ReadBeforeRelease
<1>1. TypeOK' /\ FdMeansHeld' /\ JudgedDead' /\ ForeignFile' /\ TriesInLoop'
  BY DEF TypeOK, FdMeansHeld, JudgedDead, ForeignFile, TriesInLoop, Locations, NoFile
<1>2. CreatorOwns'
  <2>1. file.by = p => StillMine(p)
    BY DEF StillMine, OwnerPid
  <2>2. QED
    BY <2>1 DEF CreatorOwns, OwningLocations, TypeOK
<1>3. ~strayUnlink' => OwnersCreated'
  BY DEF OwnersCreated, Owning, TypeOK
<1>4. QED
  BY <1>1, <1>2, <1>3

\* p lets go; the file stays only when it could not be unlinked.
LEMMA StepUnlinkOwn ==
    ASSUME IInv, NEW p \in Proc, UnlinkOwn(p)
    PROVE  IInv'
<1> USE ConstantFacts DEF IInv, At, Goto, UnlinkOwn
<1>1. TypeOK'
  BY DEF Unlinked, UnlinkFails, TypeOK, Locations, NoFile
<1>2. FdMeansHeld' /\ JudgedDead' /\ ForeignFile' /\ TriesInLoop'
  BY DEF Unlinked, UnlinkFails, TypeOK, FdMeansHeld, JudgedDead, ForeignFile, TriesInLoop
<1>3. CreatorOwns'
  <2>1. CASE Unlinked(p)
    BY <2>1 DEF Unlinked, CreatorOwns
  <2>2. CASE UnlinkFails(p)
    BY <2>2 DEF UnlinkFails, CreatorOwns, OwningLocations, TypeOK
  <2>3. QED
    BY <2>1, <2>2
<1>4. ~strayUnlink' => OwnersCreated'
  <2>1. Owning' = Owning \ {p}
    BY DEF Owning, TypeOK
  <2>2. CASE Unlinked(p)
    <3>1. SUFFICES ASSUME ~strayUnlink' PROVE Owning' = {}
      BY DEF OwnersCreated
    <3>2. p \in Owning /\ \A q \in Owning : q = p
      BY <2>2, <3>1 DEF Unlinked, OwnersCreated, Owning, TypeOK
    <3>3. QED
      BY <2>1, <3>2
  <2>3. CASE UnlinkFails(p)
    BY <2>1, <2>3 DEF UnlinkFails, OwnersCreated
  <2>4. QED
    BY <2>2, <2>3
<1>5. QED
  BY <1>1, <1>2, <1>3, <1>4

LEMMA StepKilled ==
    ASSUME IInv, NEW p \in Proc, Killed(p)
    PROVE  IInv'
BY ConstantFacts
DEF Killed, history, IInv, TypeOK, FdMeansHeld, JudgedDead, ForeignFile, TriesInLoop, CreatorOwns,
    OwnersCreated, Owning, OwningLocations, Locations, NoFile

LEMMA StepReaped ==
    ASSUME IInv, NEW p \in Proc, Reaped(p)
    PROVE  IInv'
BY ConstantFacts
DEF Reaped, history, IInv, TypeOK, FdMeansHeld, JudgedDead, ForeignFile, TriesInLoop, CreatorOwns,
    OwnersCreated, Owning, OwningLocations, Locations, NoFile

LEMMA StepIInv == IInv /\ [Next]_vars => IInv'
<1> SUFFICES ASSUME IInv, [Next]_vars PROVE IInv'
  OBVIOUS
<1>1. CASE UNCHANGED vars
  BY <1>1
  DEF vars, IInv, TypeOK, FdMeansHeld, JudgedDead, ForeignFile, TriesInLoop, CreatorOwns,
      OwnersCreated, Owning
<1>2. ASSUME NEW p \in Proc, Acquire(p) PROVE IInv'
  BY <1>2, StepStartAcquire, StepCreateFile, StepReadOwner, StepJudgeOwner,
     StepUnlinkStale, StepWritePayload DEF Acquire
<1>3. ASSUME NEW p \in Proc, Release(p) PROVE IInv'
  BY <1>3, StepCloseFd, StepReadBeforeRelease, StepUnlinkOwn DEF Release
<1>4. QED
  BY <1>1, <1>2, <1>3, StepKilled, StepReaped DEF Next

\* The inductive invariant holds in every run of the lock protocol.
THEOREM IInvHolds == Spec => []IInv
BY InitIInv, StepIInv, PTL DEF Spec

\* Type correctness of the lock file and of each process's place in the calls.
THEOREM TypeCorrect == Spec => []TypeOK
<1>1. IInv => TypeOK
  BY DEF IInv
<1>2. QED
  BY <1>1, IInvHolds, PTL

-----------------------------------------------------------------------------
LEMMA ExclusiveFromIInv == IInv => ExclusiveUnlessStray
BY DEF IInv, FdMeansHeld, OwnersCreated, Owning, ExclusiveUnlessStray,
       MutualExclusion, Holders

\* One physical arm, one owner (acquire(), release()): whatever crashes and however
\* the calls interleave, two processes hold the lock only after an unlink has hit a
\* file its caller had not judged.
THEOREM ExclusiveOwnership == Spec => []ExclusiveUnlessStray
BY ExclusiveFromIInv, IInvHolds, PTL

LEMMA NoLeakFromIInv == IInv => NoLeak
BY DEF IInv, CreatorOwns, OwningLocations, Owning, NoLeak

\* release() and the refusals of acquire() leave no file of a live process on the path but
\* one whose unlink failed, whoever dies, waits or reclaims meanwhile.
THEOREM NothingLeaked == Spec => []NoLeak
BY NoLeakFromIInv, IInvHolds, PTL

-----------------------------------------------------------------------------
\* Every step of the file-level lock is a step of ArmMutex or changes no owner.
LEMMA StepArm ==
    ASSUME IInv, ~strayUnlink, [Next]_vars
    PROVE  [Arm!Next]_Holders
<1>1. CASE UNCHANGED vars
  BY <1>1 DEF vars, Holders
<1>2. ASSUME NEW p \in Proc, WritePayload(p) PROVE Arm!Take(p)
  <2>1. p \in Owning /\ \A q \in Owning : q = p
    BY <1>2 DEF IInv, OwnersCreated, Owning, WritePayload, At
  <2>2. Holders = {}
    <3>1. \A q \in Holders : q \in Owning /\ pc[q] = "held"
      BY DEF IInv, FdMeansHeld, Holders, Owning
    <3>2. QED
      BY <1>2, <2>1, <3>1 DEF WritePayload, At
  <2>3. Holders' = {p}
    BY <1>2, <2>2 DEF WritePayload, Holders, IInv, TypeOK
  <2>4. QED
    BY <2>2, <2>3 DEF Arm!Take
<1>3. ASSUME NEW p \in Proc, CloseFd(p) \/ Killed(p)
      PROVE  Arm!Drop(p) \/ UNCHANGED Holders
  <2>1. fd' = [fd EXCEPT ![p] = FALSE]
    BY <1>3 DEF CloseFd, Killed
  <2>2. Holders' = Holders \ {p}
    BY <2>1 DEF Holders, IInv, TypeOK
  <2>3. QED
    BY <2>2 DEF Arm!Drop
<1>4. ASSUME NEW p \in Proc,
             \/ StartAcquire(p) \/ CreateFile(p) \/ ReadOwner(p) \/ JudgeOwner(p)
             \/ UnlinkStale(p) \/ ReadBeforeRelease(p) \/ UnlinkOwn(p) \/ Reaped(p)
      PROVE  UNCHANGED Holders
  BY <1>4
  DEF StartAcquire, CreateFile, ReadOwner, JudgeOwner, UnlinkStale,
      ReadBeforeRelease, UnlinkOwn, Reaped, Holders
<1>5. QED
  BY <1>1, <1>2, <1>3, <1>4 DEF Next, Acquire, Release, Arm!Next

LEMMA StrayStays ==
    ASSUME TypeOK, strayUnlink, [Next]_vars
    PROVE  strayUnlink'
<1>1. CASE UNCHANGED vars
  BY <1>1 DEF vars
<1>2. ASSUME NEW p \in Proc, Acquire(p) PROVE strayUnlink'
  BY <1>2 DEF Acquire, StartAcquire, CreateFile, ReadOwner, JudgeOwner, UnlinkStale,
              Unlinked, UnlinkFails, WritePayload, history
<1>3. ASSUME NEW p \in Proc, Release(p) \/ Killed(p) \/ Reaped(p) PROVE strayUnlink'
  BY <1>3 DEF Release, CloseFd, ReadBeforeRelease, UnlinkOwn, Unlinked, UnlinkFails,
              Killed, Reaped, history
<1>4. QED
  BY <1>1, <1>2, <1>3 DEF Next

\* The lock files implement the abstract arm: until an unlink strays, every success of
\* acquire() is a Take of a free arm and every release() a Drop of one's own.
THEOREM LockImplementsArm == Spec => ImplementsArmMutex
<1>1. Init => Arm!Init
  BY DEF Init, Arm!Init, Holders
<1>2. IInv /\ [Next]_vars => [Arm!Next \/ strayUnlink']_Holders
  <2>1. IInv => TypeOK
    BY DEF IInv
  <2>2. QED
    BY <2>1, StepArm, StrayStays
<1>3. QED
  BY <1>1, <1>2, IInvHolds, PTL DEF Spec, ImplementsArmMutex
-----------------------------------------------------------------------------
(* When the claim of the module docstring holds                            *)

\* A stray unlink takes a reclaimer whose judged owner is neither itself nor the creator
\* of the file it hits.
LEMMA StrayTakesThree ==
    ASSUME IInv, [Next]_vars, ~strayUnlink, strayUnlink'
    PROVE  \E p \in Proc : /\ UnlinkStale(p) /\ life[seen[p]] # "live"
                           /\ seen[p] \in Proc /\ file.by \in Proc
                           /\ p # seen[p] /\ p # file.by /\ file.by # seen[p]
<1>1. PICK p \in Proc : UnlinkStale(p) \/ UnlinkOwn(p)
  BY DEF Next, vars, Acquire, Release, StartAcquire, CreateFile, ReadOwner, JudgeOwner,
         WritePayload, CloseFd, ReadBeforeRelease, Killed, Reaped, history
<1>2. CASE UnlinkOwn(p)
  BY <1>1, <1>2 DEF UnlinkOwn, Unlinked, UnlinkFails, At, IInv, OwnersCreated, Owning
<1>3. CASE UnlinkStale(p)
  <2>1. life[p] = "live" /\ pc[p] = "unlink" /\ file.by \notin {NoPid, seen[p]}
    BY <1>3 DEF UnlinkStale, Unlinked, UnlinkFails, At
  <2>2. seen[p] \in Proc /\ life[seen[p]] # "live" /\ seen[p] # p
    BY <2>1 DEF IInv, JudgedDead
  <2>3. file.by \in Proc /\ file.by # p
    BY <2>1, <2>2 DEF IInv, TypeOK, ForeignFile
  <2>4. QED
    BY <1>3, <2>1, <2>2, <2>3
<1>4. QED
  BY <1>1, <1>2, <1>3

\* acquire() and release() (robot_ownership_lock.py:129-169, 275-290): while every process
\* is alive the arm has one owner at a time, in whatever order they ask and let go.
THEOREM ExclusiveAmongTheLiving ==
    Spec => []((\A p \in Proc : life[p] = "live") => MutualExclusion)
<1> DEFINE AllLive == \A p \in Proc : life[p] = "live"
           Inv == AllLive => ~strayUnlink
<1>1. Init => Inv
  BY DEF Init
<1>2. IInv /\ Inv /\ [Next]_vars => Inv'
  <2> SUFFICES ASSUME IInv, Inv, [Next]_vars, AllLive' PROVE ~strayUnlink'
    OBVIOUS
  <2>1. AllLive
    BY DEF Next, vars, Acquire, Release, StartAcquire, CreateFile, ReadOwner, JudgeOwner,
           UnlinkStale, WritePayload, CloseFd, ReadBeforeRelease, UnlinkOwn, Killed, Reaped,
           IInv, TypeOK
  <2>2. QED
    BY <2>1, StrayTakesThree
<1>3. IInv /\ Inv => (AllLive => MutualExclusion)
  BY ExclusiveFromIInv DEF ExclusiveUnlessStray
<1>4. QED
  BY <1>1, <1>2, <1>3, IInvHolds, PTL DEF Spec

\* Two processes, such as one policy window and the VR runtime, never own the arm together,
\* whichever of them is killed and reclaimed from: the race of two reclaimers needs a third.
THEOREM ExclusiveForTwo ==
    ASSUME NEW a, NEW b, Proc \subseteq {a, b}
    PROVE  Spec => []MutualExclusion
<1>1. Init => ~strayUnlink
  BY DEF Init
<1>2. IInv /\ ~strayUnlink /\ [Next]_vars => ~strayUnlink'
  BY StrayTakesThree
<1>3. IInv /\ ~strayUnlink => MutualExclusion
  BY ExclusiveFromIInv DEF ExclusiveUnlessStray
<1>4. QED
  BY <1>1, <1>2, <1>3, IInvHolds, PTL DEF Spec
=============================================================================
