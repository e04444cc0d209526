------------------------------ MODULE RobotLock ------------------------------
(***************************************************************************)
(* The lock file that gives one process at a time the physical arm:        *)
(* intervene_base/robot/robot_ownership_lock.py, and its copy in the VR    *)
(* runtime (runtime_impl.RobotOwnershipLock), both on the same path.       *)
(*                                                                         *)
(* Every file-system call is one step, because nothing but O_EXCL orders   *)
(* the calls of two processes.  A process is one pid: it starts once, and  *)
(* a restarted program is another element of Proc.                         *)
(***************************************************************************)
EXTENDS Naturals, FiniteSets

CONSTANTS
    Policy,     \* pids of intervene_base/app.py processes
    Vr,         \* pids of VR runtime processes
    NoPid,      \* None: no pid could be read
    MayDie,     \* pids that may be killed at any point (a bound on crashes)
    Rounds      \* how many times one process asks for the lock (a bound)

ASSUME RobotLockAssumption ==
    /\ Policy \cap Vr = {}
    /\ NoPid \notin Policy \cup Vr
    /\ MayDie \subseteq Policy \cup Vr
    /\ Rounds \in Nat

Proc == Policy \cup Vr

NoFile == [by |-> NoPid, written |-> FALSE]

MaxTries == 2       \* for _ in range(2)

VARIABLES
    file,       \* the file at the lock path: its creator, and whether the pid line is in it
    pc,         \* where each process is in acquire() or release()
    fd,         \* self._fd is not None, i.e. `held`
    seen,       \* the pid _read_owner_pid() returned
    tries,      \* iterations of acquire()'s loop
    asked,      \* calls of acquire() so far, for the bound
    life,       \* "live", "zombie" (exited, not reaped) or "gone"
    strayUnlink,\* history: some process unlinked a file it had not judged
    failed      \* history: who tried to unlink the file now on the path and could not

vars == <<file, pc, fd, seen, tries, asked, life, strayUnlink, failed>>

history == <<strayUnlink, failed>>

Locations == {"idle", "create", "read", "judge", "unlink", "write", "held",
              "relRead", "relUnlink"}

TypeOK ==
    /\ file \in [by : Proc \cup {NoPid}, written : BOOLEAN]
    /\ file.by = NoPid => file = NoFile
    /\ pc \in [Proc -> Locations]
    /\ fd \in [Proc -> BOOLEAN]
    /\ seen \in [Proc -> Proc \cup {NoPid}]
    /\ tries \in [Proc -> 0 .. MaxTries]
    /\ asked \in [Proc -> 0 .. Rounds]
    /\ life \in [Proc -> {"live", "zombie", "gone"}]
    /\ strayUnlink \in BOOLEAN
    /\ failed \subseteq Proc

Init ==
    /\ file = NoFile
    /\ pc = [p \in Proc |-> "idle"]
    /\ fd = [p \in Proc |-> FALSE]
    /\ seen = [p \in Proc |-> NoPid]
    /\ tries = [p \in Proc |-> 0]
    /\ asked = [p \in Proc |-> 0]
    /\ life = [p \in Proc |-> "live"]
    /\ strayUnlink = FALSE
    /\ failed = {}

-----------------------------------------------------------------------------
(* What a process can tell about the file and about another process.       *)

\* A missing file, an empty one and an unreadable one all read as None.
OwnerPid == IF file.written THEN file.by ELSE NoPid

\* Mutated: the policy processes too trust kill(pid, 0) alone.
PidAliveNoZombieCheck(p, q) == life[q] \in {"live", "zombie"}

\* Only the policy processes look behind kill(pid, 0) for a zombie.
PidAlive(p, q) == life[q] = "live" \/ (p \in Vr /\ life[q] = "zombie")

TryLeft(p) == tries[p] < MaxTries

\* Mutated: a file with no pid in it yet is taken for no file.
PathFreeIfUnowned == OwnerPid = NoPid

PathFree == file = NoFile

\* Mutated: release() keeps a file with no pid in it.
StillMineOnlyIfNamed(p) == OwnerPid = p

StillMine(p) == OwnerPid \in {NoPid, p}

At(p, loc) == life[p] = "live" /\ pc[p] = loc
Goto(p, loc) == pc' = [pc EXCEPT ![p] = loc]

-----------------------------------------------------------------------------
(* acquire()                                                               *)

StartAcquire(p) ==
    /\ At(p, "idle")
    /\ asked[p] < Rounds
    /\ asked' = [asked EXCEPT ![p] = @ + 1]
    /\ Goto(p, "create")
    /\ UNCHANGED <<file, fd, seen, tries, life, history>>

\* os.open(O_CREAT | O_EXCL), or giving up when both tries are spent.
CreateFile(p) ==
    /\ At(p, "create")
    /\ \/ /\ TryLeft(p)
          /\ PathFree
          /\ file' = [by |-> p, written |-> FALSE]
          /\ tries' = [tries EXCEPT ![p] = 0]
          /\ Goto(p, "write")
       \/ /\ TryLeft(p)
          /\ ~PathFree
          /\ Goto(p, "read")
          /\ UNCHANGED <<file, tries>>
       \/ /\ ~TryLeft(p)
          /\ tries' = [tries EXCEPT ![p] = 0]
          /\ Goto(p, "idle")
          /\ UNCHANGED file
    /\ UNCHANGED <<fd, seen, asked, life, history>>

ReadOwner(p) ==
    /\ At(p, "read")
    /\ seen' = [seen EXCEPT ![p] = OwnerPid]
    /\ Goto(p, "judge")
    /\ UNCHANGED <<file, fd, tries, asked, life, history>>

\* Mutated: a known owner is taken for stale, as on a timeout.
StaleOnTimeout(p) == seen[p] # NoPid

\* Stale only when the pid is provably gone; an unknown owner is a refusal.
Stale(p) == IF seen[p] = NoPid THEN FALSE ELSE ~PidAlive(p, seen[p])

JudgeOwner(p) ==
    /\ At(p, "judge")
    /\ \/ /\ Stale(p)
          /\ Goto(p, "unlink")
          /\ UNCHANGED <<seen, tries>>
       \/ /\ ~Stale(p)
          /\ Goto(p, "idle")
          /\ seen' = [seen EXCEPT ![p] = NoPid]
          /\ tries' = [tries EXCEPT ![p] = 0]
    /\ UNCHANGED <<file, fd, asked, life, history>>

\* Unlinking names the path, not the file that was judged; no file is no error.
Unlinked(judged) ==
    /\ file' = NoFile
    /\ strayUnlink' = (strayUnlink \/ file.by \notin {NoPid, judged})
    /\ failed' = {}

\* Another user's file in a sticky directory, a read-only file system: the file stays.
UnlinkFails(p) ==
    /\ file # NoFile
    /\ failed' = failed \cup {p}
    /\ UNCHANGED <<file, strayUnlink>>

\* An unlink that fails ends the request.
UnlinkStale(p) ==
    /\ At(p, "unlink")
    /\ \/ /\ Unlinked(seen[p])
          /\ tries' = [tries EXCEPT ![p] = @ + 1]
          /\ Goto(p, "create")
       \/ /\ UnlinkFails(p)
          /\ tries' = [tries EXCEPT ![p] = 0]
          /\ Goto(p, "idle")
    /\ seen' = [seen EXCEPT ![p] = NoPid]
    /\ UNCHANGED <<fd, asked, life>>

\* The write goes to the file p created, which may be off the path by now, and
\* its failure is ignored.
WritePayload(p) ==
    /\ At(p, "write")
    /\ \E ok \in BOOLEAN :
          file' = IF ok /\ file.by = p THEN [file EXCEPT !.written = TRUE] ELSE file
    /\ fd' = [fd EXCEPT ![p] = TRUE]
    /\ Goto(p, "held")
    /\ UNCHANGED <<seen, tries, asked, life, history>>

-----------------------------------------------------------------------------
(* release()                                                               *)

CloseFd(p) ==
    /\ At(p, "held")
    /\ fd' = [fd EXCEPT ![p] = FALSE]
    /\ Goto(p, "relRead")
    /\ UNCHANGED <<file, seen, tries, asked, life, history>>

ReadBeforeRelease(p) ==
    /\ At(p, "relRead")
    /\ Goto(p, IF StillMine(p) THEN "relUnlink" ELSE "idle")
    /\ UNCHANGED <<file, fd, seen, tries, asked, life, history>>

\* An unlink that fails is a warning: p has let go all the same.
UnlinkOwn(p) ==
    /\ At(p, "relUnlink")
    /\ Unlinked(p) \/ UnlinkFails(p)
    /\ Goto(p, "idle")
    /\ UNCHANGED <<fd, seen, tries, asked, life>>

-----------------------------------------------------------------------------
(* The operating system: a kill leaves a zombie until the parent reaps it.  *)
(* The kernel closes the descriptor; the file stays.                        *)

Killed(p) ==
    /\ p \in MayDie
    /\ life[p] = "live"
    /\ life' = [life EXCEPT ![p] = "zombie"]
    /\ fd' = [fd EXCEPT ![p] = FALSE]
    /\ UNCHANGED <<file, pc, seen, tries, asked, history>>

Reaped(p) ==
    /\ life[p] = "zombie"
    /\ life' = [life EXCEPT ![p] = "gone"]
    /\ UNCHANGED <<file, pc, fd, seen, tries, asked, history>>

-----------------------------------------------------------------------------
Acquire(p) == StartAcquire(p) \/ CreateFile(p) \/ ReadOwner(p) \/ JudgeOwner(p)
              \/ UnlinkStale(p) \/ WritePayload(p)
Release(p) == CloseFd(p) \/ ReadBeforeRelease(p) \/ UnlinkOwn(p)

Next == \E p \in Proc : Acquire(p) \/ Release(p) \/ Killed(p) \/ Reaped(p)

Spec == Init /\ [][Next]_vars

\* A live process finishes a call it has started.  Nothing obliges it to ask, to
\* give the arm back, or to die, and nothing obliges a parent to reap a zombie.
FairSpec ==
    /\ Spec
    /\ \A p \in Proc :
          WF_vars(CreateFile(p) \/ ReadOwner(p) \/ JudgeOwner(p)
                  \/ UnlinkStale(p) \/ WritePayload(p)
                  \/ ReadBeforeRelease(p) \/ UnlinkOwn(p))

-----------------------------------------------------------------------------
(* Properties                                                              *)

Holders == {p \in Proc : fd[p]}

\* "There is one physical arm; ownership has to be exclusive" (module docstring,
\* lines 10-11): no two processes hold the lock of one arm.
MutualExclusion == \A p, q \in Holders : p = q

\* acquire() and release() with any number of crashes: two processes can hold the
\* arm only after some process unlinked a file other than the one it had judged.
ExclusiveUnlessStray == ~strayUnlink => MutualExclusion

\* A live process whose file is, or is about to be, the lock.
Owning == {p \in Proc : life[p] = "live"
                        /\ pc[p] \in {"write", "held", "relRead", "relUnlink"}}

\* release(), and the refusals and failed writes of acquire(): the lock file of a live
\* process that has let go of the arm, or never got it, is one it could not unlink
\* (lines 291-292), whatever others create, reclaim and leave behind meanwhile.
NoLeak ==
    \A p \in Proc :
        file.by = p /\ life[p] = "live" => p \in Owning \/ p \in failed

\* "A crashed owner must not lock the arm out forever" (lines 137-138), when its
\* pid reached the file: one request by a policy process removes the lock, reaped
\* owner or not, or is refused because this file could not be unlinked (lines 147-148).
StaleLockReclaimed ==
    \A p \in Policy, q \in Proc :
        (At(p, "create") /\ tries[p] = 0 /\ life[q] # "live"
             /\ file = [by |-> q, written |-> TRUE])
            ~> (file.by # q \/ life[p] # "live" \/ p \in failed)

-----------------------------------------------------------------------------
\* What the other components rely on: one owner at a time.
Arm == INSTANCE ArmMutex WITH owners <- Holders

\* The file-level lock implements ArmMutex up to the first stray unlink: acquire()
\* succeeds for one process only while no other holds the arm, and release() gives up
\* only one's own hold.
ImplementsArmMutex == Arm!Init /\ [][Arm!Next \/ strayUnlink']_Holders
=============================================================================
