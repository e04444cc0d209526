------------------------------- MODULE OodBand -------------------------------
(***************************************************************************)
(* The sessions of one launch agreeing on how many of them run an          *)
(* out-of-distribution scene: intervene_base/robot/ood_state_ledger.py, a  *)
(* JSON file replaced as a whole and a lock file around each               *)
(* read-decide-write, with the two calls app.py makes of it:               *)
(* register_initial() when the process starts and decide_for_new_episode() *)
(* at every episode boundary, the first one included.                      *)
(*                                                                         *)
(* What becomes of the answer inside one process is in EpisodeSession.     *)
(***************************************************************************)
EXTENDS Integers, FiniteSets

CONSTANTS
    Session,    \* the processes of the launch; each runs once, index and pid in one
    Initial,    \* the sessions run_main_policy.sh starts with INTERVENE_OOD_INITIAL_STATE=1
    Min, Max,   \* min_states, max_states
    NoPid,      \* no owner could be read from the lock file
    MayDie,     \* sessions that may exit or be killed (a bound)
    Faults      \* what may go wrong with the ledger file: reads that fail, writes that
                \* fail, entries of live sessions that outlive their TTL

ASSUME OodBandAssumption ==
    /\ IsFiniteSet(Session)
    /\ NoPid \notin Session
    /\ Initial \subseteq Session /\ MayDie \subseteq Session
    /\ Faults \subseteq {"unread", "unwritten", "expired"}
    /\ Min \in Nat \ {0} /\ Max \in Nat /\ Min <= Max
    /\ Cardinality(Initial) <= Min

VARIABLES
    lock,       \* the lock file: who created it, and whether its pid is in it
    entries,    \* the ledger file: each session's "ood" flag, "none" without an entry
    alive,      \* the sessions that have not exited
    pc,         \* where each session is
    boundary,   \* which call it makes or made last: "register", "first" or "next"
    fd,         \* _acquire_lock() returned a descriptor
    view,       \* the live entries it read
    label,      \* current_scene_ood
    mishaps     \* history: what has gone wrong so far

vars == <<lock, entries, alive, pc, boundary, fd, view, label, mishaps>>

NoLock == [by |-> NoPid, written |-> FALSE]
NoEntries == [t \in Session |-> "none"]

Mishap == {"race",      \* two sessions were in the critical section
           "timeout",   \* a session went on without the lock
           "unread",    \* a read failed
           "unregistered", \* the write of register_initial() failed
           "expired"}   \* a live session's entry had outlived its TTL

Locations == {"launch", "create", "writePid", "readPid", "unlink",
              "read", "publish", "unlock", "loading", "episode"}

TypeOK ==
    /\ lock \in [by : Session \cup {NoPid}, written : BOOLEAN]
    /\ lock.by = NoPid => lock = NoLock
    /\ entries \in [Session -> {"none", "id", "ood"}]
    /\ alive \subseteq Session
    /\ pc \in [Session -> Locations]
    /\ boundary \in [Session -> {"register", "first", "next"}]
    /\ fd \in [Session -> BOOLEAN]
    /\ \A s \in Session : fd[s] => pc[s] \in {"writePid", "read", "publish", "unlock"}
    /\ view \in [Session -> [Session -> {"none", "id", "ood"}]]
    /\ label \in [Session -> BOOLEAN]
    /\ mishaps \subseteq Mishap

Init ==
    /\ lock = NoLock
    /\ entries = NoEntries
    /\ alive = Session
    /\ pc = [s \in Session |-> "launch"]
    /\ boundary = [s \in Session |-> "register"]
    /\ fd = [s \in Session |-> FALSE]
    /\ view = [s \in Session |-> NoEntries]
    /\ label = [s \in Session |-> FALSE]
    /\ mishaps = {}

-----------------------------------------------------------------------------
At(s, loc) == s \in alive /\ pc[s] = loc
Goto(s, loc) == pc' = [pc EXCEPT ![s] = loc]

\* Between reading the ledger and replacing it.
InSection(s) == s \in alive /\ pc[s] \in {"read", "publish"}

Enter(s, how) ==
    /\ Goto(s, "read")
    /\ mishaps' = mishaps \cup how
         \cup (IF \E t \in Session \ {s} : InSection(t) THEN {"race"} ELSE {})

OodIn(e) == {t \in Session : e[t] = "ood"}

-----------------------------------------------------------------------------
(* _acquire_lock()                                                         *)

\* __init__ registers, init() decides for the first episode, a verdict for the next.
Begin(s) ==
    /\ \/ At(s, "launch") /\ UNCHANGED boundary
       \/ At(s, "loading") /\ boundary' = [boundary EXCEPT ![s] = "first"]
       \/ At(s, "episode") /\ boundary' = [boundary EXCEPT ![s] = "next"]
    /\ Goto(s, "create")
    /\ UNCHANGED <<lock, entries, alive, fd, view, label, mishaps>>

Create(s) ==
    /\ At(s, "create")
    /\ \/ /\ lock = NoLock
          /\ lock' = [by |-> s, written |-> FALSE]
          /\ fd' = [fd EXCEPT ![s] = TRUE]
          /\ Goto(s, "writePid")
       \/ /\ lock # NoLock
          /\ Goto(s, "readPid")
          /\ UNCHANGED <<lock, fd>>
    /\ UNCHANGED <<entries, alive, boundary, view, label, mishaps>>

\* The write goes to the file s created, at the path or unlinked from it.
WritePid(s) ==
    /\ At(s, "writePid")
    /\ lock' = IF lock.by = s THEN [lock EXCEPT !.written = TRUE] ELSE lock
    /\ Enter(s, {})
    /\ UNCHANGED <<entries, alive, boundary, fd, view, label>>

\* Mutated: a lock file without a pid is taken for a dead owner's.
OwnerGoneOrUnknown == ~lock.written \/ lock.by \notin alive

OwnerGone == lock.written /\ lock.by \notin alive

\* The pid is read and looked up in one step, the file is unlinked in another.
ReadPid(s) ==
    /\ At(s, "readPid")
    /\ Goto(s, IF OwnerGone THEN "unlink" ELSE "create")
    /\ UNCHANGED <<lock, entries, alive, boundary, fd, view, label, mishaps>>

Unlink(s) ==
    /\ At(s, "unlink")
    /\ lock' = NoLock
    /\ Goto(s, "create")
    /\ UNCHANGED <<entries, alive, boundary, fd, view, label, mishaps>>

\* Mutated: the budget is not spent on a lock file without an owner.
TimeOutIfOwned(s) ==
    /\ At(s, "create") /\ lock.by \in alive
    /\ Enter(s, {"timeout"})
    /\ UNCHANGED <<lock, entries, alive, boundary, fd, view, label>>

\* budget_s has passed: on without the lock.
TimeOut(s) ==
    /\ At(s, "create")
    /\ Enter(s, {"timeout"})
    /\ UNCHANGED <<lock, entries, alive, boundary, fd, view, label>>

-----------------------------------------------------------------------------
(* register_initial() and decide_for_new_episode(), inside the section      *)

\* _live_entries(_read()): entries of exited sessions, and expired ones, are dropped.
Read(s) ==
    /\ At(s, "read")
    /\ \E expired \in SUBSET {t \in alive \ {s} : "expired" \in Faults /\ pc[t] = "episode" /\ entries[t] # "none"} :
          /\ view' = [view EXCEPT ![s] =
                [t \in Session |-> IF t \in alive \ expired THEN entries[t] ELSE "none"]]
          /\ mishaps' = mishaps
                \cup (IF expired # {} THEN {"expired"} ELSE {})
    /\ Goto(s, "publish")
    /\ UNCHANGED <<lock, entries, alive, boundary, fd, label>>

\* An unreadable file reads as no entries; one that is not an object raises, and the
\* session reports ID.
ReadFails(s) ==
    /\ "unread" \in Faults
    /\ At(s, "read")
    /\ mishaps' = mishaps \cup {"unread"}
    /\ \/ /\ view' = [view EXCEPT ![s] = NoEntries]
          /\ Goto(s, "publish")
          /\ UNCHANGED label
       \/ /\ label' = [label EXCEPT ![s] = FALSE]
          /\ Goto(s, "unlock")
          /\ UNCHANGED view
    /\ UNCHANGED <<lock, entries, alive, boundary, fd>>

\* Mutated: an ID session still enters when the band is full.
DecideInclusive(current, others) ==
    IF current THEN others < Min ELSE others <= Max

\* Mutated: an OOD session leaves when it is the last the floor needs.
DecideFloorOffByOne(current, others) ==
    IF current THEN others + 1 < Min ELSE others < Max

\* decide() and the clamp after it.
Decide(current, others) ==
    /\ IF current THEN others < Min ELSE others < Max
    /\ others < Max

Answer(s) ==
    IF boundary[s] = "register" THEN s \in Initial
    ELSE Decide(label[s], Cardinality(OodIn(view[s]) \ {s}))

\* Mutated: the session runs OOD although its entry was not written.
PublishFailsUnnoticed(s) ==
    /\ "unwritten" \in Faults
    /\ At(s, "publish")
    /\ label' = [label EXCEPT ![s] = Answer(s)]
    /\ Goto(s, "unlock")
    /\ view' = [view EXCEPT ![s] = NoEntries]
    /\ UNCHANGED <<lock, entries, alive, boundary, fd, mishaps>>

\* Mutated: the file is replaced by the session's own entry.
PublishOwnEntry(s) ==
    /\ At(s, "publish")
    /\ entries' = [NoEntries EXCEPT ![s] = IF Answer(s) THEN "ood" ELSE "id"]
    /\ label' = [label EXCEPT ![s] = Answer(s)]
    /\ Goto(s, "unlock")
    /\ view' = [view EXCEPT ![s] = NoEntries]
    /\ UNCHANGED <<lock, alive, boundary, fd, mishaps>>

\* _write(): os.replace puts what s read, with its own entry, in place of the file.
Publish(s) ==
    /\ At(s, "publish")
    /\ entries' = [view[s] EXCEPT ![s] = IF Answer(s) THEN "ood" ELSE "id"]
    /\ label' = [label EXCEPT ![s] = Answer(s)]
    /\ Goto(s, "unlock")
    /\ view' = [view EXCEPT ![s] = NoEntries]
    /\ UNCHANGED <<lock, alive, boundary, fd, mishaps>>

\* An answer that could not be published is ID.
PublishFails(s) ==
    /\ "unwritten" \in Faults
    /\ At(s, "publish")
    /\ label' = [label EXCEPT ![s] = FALSE]
    /\ Goto(s, "unlock")
    /\ view' = [view EXCEPT ![s] = NoEntries]
    /\ mishaps' = mishaps \cup (IF boundary[s] = "register" THEN {"unregistered"} ELSE {})
    /\ UNCHANGED <<lock, entries, alive, boundary, fd>>

\* _release_lock() unlinks whatever is at the path; without a descriptor it does nothing.
Unlock(s) ==
    /\ At(s, "unlock")
    /\ lock' = IF fd[s] THEN NoLock ELSE lock
    /\ fd' = [fd EXCEPT ![s] = FALSE]
    /\ Goto(s, IF boundary[s] = "register" THEN "loading" ELSE "episode")
    /\ UNCHANGED <<entries, alive, boundary, view, label, mishaps>>

\* The process ends, its files stay.
Die(s) ==
    /\ s \in alive \cap MayDie
    /\ alive' = alive \ {s}
    /\ Goto(s, "launch")
    /\ boundary' = [boundary EXCEPT ![s] = "register"]
    /\ fd' = [fd EXCEPT ![s] = FALSE]
    /\ view' = [view EXCEPT ![s] = NoEntries]
    /\ label' = [label EXCEPT ![s] = FALSE]
    /\ UNCHANGED <<lock, entries, mishaps>>

-----------------------------------------------------------------------------
Calling(s) == \/ Create(s) \/ WritePid(s) \/ ReadPid(s) \/ Unlink(s)
              \/ Read(s) \/ ReadFails(s) \/ Publish(s) \/ PublishFails(s) \/ Unlock(s)

Next == \E s \in Session : Begin(s) \/ Calling(s) \/ TimeOut(s) \/ Die(s)

Spec == Init /\ [][Next]_vars

\* A call keeps running and its budget passes; nothing makes an episode end.
FairSpec ==
    /\ Spec
    /\ \A s \in Session : WF_vars(Calling(s)) /\ SF_vars(TimeOut(s))

-----------------------------------------------------------------------------
(* Properties                                                              *)

Running(s) == s \in alive /\ pc[s] = "episode"
RunningOod == {s \in Session : Running(s) /\ label[s]}

\* Nothing has gone wrong for the reads of the ledger.
Undisturbed == mishaps \cap {"race", "unread", "expired"} = {}

\* The module's promise, lines 5 and 24-25, as far as it holds: sessions may exit, locks
\* may time out, writes may fail and the launcher may be slower than the first episodes,
\* and still no more than MAX sessions run OOD.
CeilingUndisturbed == Undisturbed => Cardinality(RunningOod) <= Max

\* The critical section is one, lines 165-193, unless a budget ran out or a session exited.
SoleWriter == "race" \in mishaps => "timeout" \in mishaps \/ alive # Session

\* _write(), lines 119-121: an OOD session the others cannot see would not hold a slot.
OodIsPublished ==
    Undisturbed => \A s \in RunningOod : entries[s] = "ood"

\* The rule of lines 15-25, "with the lock held the count is exact" (line 260): as long as
\* nothing disturbs the reads, the sessions decide as if one at a time and at once, on what
\* the others run, although each reads, decides and replaces the file in steps between
\* which others exit, time out and fail to write; and the clamp after the decision changes
\* no answer.
Quota == INSTANCE OodQuota WITH live <- alive, shown <- entries
ImplementsOodQuota ==
    Quota!Init /\ [][Quota!Next \/ ~Undisturbed']_<<alive, entries, label>>

\* decide(), line 18: "leave only while the floor stays covered".  Once all have
\* registered the ledger never shows fewer than MIN (or all) of the sessions as OOD.
PublishedFloor ==
    (/\ Undisturbed /\ "unregistered" \notin mishaps /\ alive = Session
     /\ \A s \in Session : boundary[s] # "register" \/ pc[s] = "loading")
    => Cardinality(OodIn(entries)) >= Cardinality(Initial)

\* _acquire_lock(), line 169: "an episode boundary must never block on a lock".
BoundaryReturns ==
    \A s \in Session :
        s \in alive /\ pc[s] \notin {"launch", "loading", "episode"}
            ~> s \notin alive \/ pc[s] \in {"loading", "episode"}
=============================================================================
