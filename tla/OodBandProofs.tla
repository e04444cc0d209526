---------------------------- MODULE OodBandProofs ----------------------------
(***************************************************************************)
(* What the ledger guarantees for any number of sessions, any band and any *)
(* initial assignment, whatever exits, lock timeouts and write failures    *)
(* happen.  The argument for the ceiling: as long as the section was never *)
(* shared, what a session read is still what the file shows of the others  *)
(* when it publishes, and a session that labels itself OOD shows as OOD;   *)
(* so the sessions that decided for OOD never outnumber those the decision *)
(* counted.                                                                *)
(***************************************************************************)
EXTENDS OodBand, FiniteSetTheorems, TLAPS

\* A session whose label is its own decision, not the launcher's.
Decided(s) ==
    \/ boundary[s] = "next"
    \/ boundary[s] = "first" /\ pc[s] \in {"unlock", "episode"}

Counted == {s \in alive : Decided(s) /\ label[s]}

EpisodesDecided == \A s \in Session : pc[s] = "episode" => boundary[s] # "register"

SectionUnshared ==
    "race" \notin mishaps =>
        \A s, t \in Session : InSection(s) /\ InSection(t) => s = t

ViewExact ==
    Undisturbed =>
        \A s \in Session : At(s, "publish") => \A t \in alive \ {s} : view[s][t] = entries[t]

LabelPublished == Undisturbed => \A s \in alive : label[s] => entries[s] = "ood"

CountBound == Undisturbed => Cardinality(Counted) <= Max

CeilingInv ==
    /\ TypeOK
    /\ EpisodesDecided
    /\ SectionUnshared
    /\ ViewExact
    /\ LabelPublished
    /\ CountBound

\* As long as nobody exited or ran out of patience, whoever is past the O_EXCL create
\* is the creator of the file at the path.
Patient == alive = Session /\ "timeout" \notin mishaps

HoldersCreated ==
    Patient =>
        \A s \in Session :
            /\ pc[s] \in {"writePid", "read", "publish", "unlock"} => lock.by = s /\ fd[s]
            /\ pc[s] # "unlink"

SoleInv ==
    /\ TypeOK
    /\ HoldersCreated
    /\ SoleWriter

-----------------------------------------------------------------------------
(* Type correctness                                                        *)

LEMMA LockFacts ==
    /\ NoLock \in [by : Session \cup {NoPid}, written : BOOLEAN]
    /\ NoLock.by = NoPid
    /\ ~NoLock.written
    /\ NoPid \notin Session
    /\ NoEntries \in [Session -> {"none", "id", "ood"}]
BY OodBandAssumption DEF NoLock, NoEntries

LEMMA InitType == Init => TypeOK
BY LockFacts DEF Init, TypeOK, Locations, Mishap

LEMMA AnswerIsBoolean == \A s \in Session : Answer(s) \in BOOLEAN
<1> SUFFICES ASSUME NEW s \in Session PROVE Answer(s) \in BOOLEAN
  OBVIOUS
<1>1. CASE boundary[s] = "register"
  BY <1>1 DEF Answer
<1>2. CASE boundary[s] # "register"
  <2>1. Answer(s) = Decide(label[s], Cardinality(OodIn(view[s]) \ {s}))
    BY <1>2, Zenon DEF Answer
  <2>2. Decide(label[s], Cardinality(OodIn(view[s]) \ {s})) \in BOOLEAN
    BY Zenon DEF Decide
  <2>3. QED
    BY <2>1, <2>2
<1>3. QED
  BY <1>1, <1>2

LEMMA StepType == TypeOK /\ [Next]_vars => TypeOK'
<1> SUFFICES ASSUME TypeOK, [Next]_vars PROVE TypeOK'
  OBVIOUS
<1> USE LockFacts DEF TypeOK, Locations, Mishap, At, Goto, Enter
<1>1. ASSUME NEW s \in Session, Begin(s) PROVE TypeOK'
  BY <1>1 DEF Begin
<1>2. ASSUME NEW s \in Session, Create(s) PROVE TypeOK'
  <2>1. CASE lock = NoLock /\ lock' = [by |-> s, written |-> FALSE]
             /\ fd' = [fd EXCEPT ![s] = TRUE] /\ Goto(s, "writePid")
    BY <1>2, <2>1 DEF Create
  <2>2. CASE Goto(s, "readPid") /\ UNCHANGED <<lock, fd>>
    BY <1>2, <2>2 DEF Create
  <2>3. QED
    BY <1>2, <2>1, <2>2 DEF Create
<1>3. ASSUME NEW s \in Session, WritePid(s) PROVE TypeOK'
  <2>1. lock' = lock \/ lock' = [by |-> s, written |-> TRUE]
    BY <1>3 DEF WritePid
  <2>2. lock' \in [by : Session \cup {NoPid}, written : BOOLEAN]
    <3>1. CASE lock' = lock
      BY <3>1
    <3>2. CASE lock' = [by |-> s, written |-> TRUE]
      BY <3>2
    <3>3. QED
      BY <2>1, <3>1, <3>2
  <2>3. lock'.by = NoPid => lock' = NoLock
    BY <2>1
  <2>4. pc' = [pc EXCEPT ![s] = "read"] /\ mishaps' \subseteq Mishap
    BY <1>3 DEF WritePid
  <2>5. QED
    BY <1>3, <2>2, <2>3, <2>4 DEF WritePid
<1>4. ASSUME NEW s \in Session, ReadPid(s) PROVE TypeOK'
  BY <1>4 DEF ReadPid
<1>5. ASSUME NEW s \in Session, Unlink(s) PROVE TypeOK'
  BY <1>5 DEF Unlink
<1>6. ASSUME NEW s \in Session, TimeOut(s) PROVE TypeOK'
  BY <1>6 DEF TimeOut
<1>7. ASSUME NEW s \in Session, Read(s) PROVE TypeOK'
  BY <1>7 DEF Read
<1>8. ASSUME NEW s \in Session, ReadFails(s) PROVE TypeOK'
  <2>1. CASE view' = [view EXCEPT ![s] = NoEntries] /\ Goto(s, "publish") /\ UNCHANGED label
    BY <1>8, <2>1 DEF ReadFails
  <2>2. CASE label' = [label EXCEPT ![s] = FALSE] /\ Goto(s, "unlock") /\ UNCHANGED view
    BY <1>8, <2>2 DEF ReadFails
  <2>3. QED
    BY <1>8, <2>1, <2>2 DEF ReadFails
<1>9. ASSUME NEW s \in Session, Publish(s) PROVE TypeOK'
  <2>1. Answer(s) \in BOOLEAN
    BY AnswerIsBoolean
  <2>2. QED
    BY <1>9, <2>1 DEF Publish
<1>10. ASSUME NEW s \in Session, PublishFails(s) PROVE TypeOK'
  BY <1>10 DEF PublishFails
<1>11. ASSUME NEW s \in Session, Unlock(s) PROVE TypeOK'
  BY <1>11 DEF Unlock
<1>12. ASSUME NEW s \in Session, Die(s) PROVE TypeOK'
  BY <1>12 DEF Die
<1>13. CASE UNCHANGED vars
  BY <1>13 DEF vars
<1>14. QED
  BY <1>1, <1>2, <1>3, <1>4, <1>5, <1>6, <1>7, <1>8, <1>9, <1>10, <1>11, <1>12, <1>13
  DEF Next, Calling

\* Every value the ledger protocol handles stays of its type, and a descriptor is held
\* only between the create and the release.
THEOREM TypeCorrect == Spec => []TypeOK
<1>1. Init => TypeOK
  BY InitType
<1>2. TypeOK /\ [Next]_vars => TypeOK'
  BY StepType
<1>3. QED
  BY <1>1, <1>2, PTL DEF Spec
-----------------------------------------------------------------------------
(* The ceiling                                                             *)

LEMMA CardinalityBound ==
    ASSUME NEW S \in SUBSET Session, NEW T \in SUBSET S
    PROVE  /\ IsFiniteSet(S) /\ Cardinality(S) \in Nat /\ Cardinality(T) \in Nat
           /\ Cardinality(T) <= Cardinality(S)
<1>1. IsFiniteSet(S)
  BY OodBandAssumption, FS_Subset
<1>2. IsFiniteSet(T) /\ Cardinality(T) <= Cardinality(S)
  BY <1>1, FS_Subset
<1>3. QED
  BY <1>1, <1>2, FS_CardinalityType

\* A step that adds nobody to those counted keeps the bound.
LEMMA CountShrinks ==
    ASSUME TypeOK, CountBound, Counted' \subseteq Counted, Undisturbed' => Undisturbed
    PROVE  CountBound'
<1>1. Counted \in SUBSET Session
  BY DEF Counted, TypeOK
<1>2. Cardinality(Counted') <= Cardinality(Counted)
      /\ Cardinality(Counted) \in Nat /\ Cardinality(Counted') \in Nat
  BY <1>1, CardinalityBound
<1>3. QED
  BY <1>2, OodBandAssumption DEF CountBound

LEMMA InitCeiling == Init => CeilingInv
<1> SUFFICES ASSUME Init PROVE CeilingInv
  OBVIOUS
<1>1. EpisodesDecided /\ SectionUnshared /\ ViewExact /\ LabelPublished
  BY DEF Init, EpisodesDecided, SectionUnshared, InSection, ViewExact, At, LabelPublished
<1>2. Counted = {}
  BY DEF Init, Counted, Decided
<1>3. CountBound
  BY <1>2, FS_EmptySet, OodBandAssumption DEF CountBound
<1>4. QED
  BY <1>1, <1>3, InitType DEF CeilingInv

\* Steps outside the section leave the ledger and the labels alone.
LEMMA CeilingOutside ==
    ASSUME CeilingInv, TypeOK', NEW s \in Session,
           Begin(s) \/ Create(s) \/ ReadPid(s) \/ Unlink(s) \/ Unlock(s)
    PROVE  CeilingInv'
<1> USE DEF CeilingInv, At, Goto
<1>1. /\ UNCHANGED <<entries, alive, view, label, mishaps>>
      /\ \E l \in Locations \ {"read", "publish"} : pc' = [pc EXCEPT ![s] = l]
      /\ pc[s] \notin {"read", "publish"}
  BY DEF Begin, Create, ReadPid, Unlink, Unlock, Locations
<1>2. EpisodesDecided'
  BY DEF EpisodesDecided, TypeOK, Begin, Create, ReadPid, Unlink, Unlock
<1>3. SectionUnshared' /\ ViewExact' /\ LabelPublished' /\ (Undisturbed' <=> Undisturbed)
  BY <1>1 DEF TypeOK, SectionUnshared, InSection, ViewExact, LabelPublished, Undisturbed
<1>4. Counted' \subseteq Counted
  <2>1. Decided(s)' => Decided(s)
    BY DEF Decided, EpisodesDecided, TypeOK, Begin, Create, ReadPid, Unlink, Unlock
  <2>2. \A t \in Session \ {s} : pc'[t] = pc[t] /\ boundary'[t] = boundary[t]
    BY DEF TypeOK, Begin, Create, ReadPid, Unlink, Unlock
  <2>3. QED
    BY <1>1, <2>1, <2>2 DEF Counted, Decided, TypeOK
<1>5. QED
  BY <1>2, <1>3, <1>4, CountShrinks

\* Entering the section while another session is in it is a race.
LEMMA CeilingEnter ==
    ASSUME CeilingInv, TypeOK', NEW s \in Session, WritePid(s) \/ TimeOut(s)
    PROVE  CeilingInv'
<1> USE DEF CeilingInv, At, Goto
<1>1. /\ UNCHANGED <<entries, alive, view, label, boundary>>
      /\ pc' = [pc EXCEPT ![s] = "read"] /\ pc[s] \in {"writePid", "create"}
      /\ mishaps \subseteq mishaps'
      /\ (\E t \in Session \ {s} : InSection(t)) => "race" \in mishaps'
  BY DEF WritePid, TimeOut, Enter
<1>2. EpisodesDecided' /\ ViewExact' /\ LabelPublished' /\ (Undisturbed' => Undisturbed)
  BY <1>1 DEF TypeOK, EpisodesDecided, ViewExact, LabelPublished, Undisturbed
<1>3. SectionUnshared'
  BY <1>1 DEF TypeOK, SectionUnshared, InSection
<1>4. Counted' \subseteq Counted
  BY <1>1 DEF Counted, Decided, TypeOK
<1>5. QED
  BY <1>2, <1>3, <1>4, CountShrinks

LEMMA CeilingRead ==
    ASSUME CeilingInv, TypeOK', NEW s \in Session, Read(s)
    PROVE  CeilingInv'
<1> USE DEF CeilingInv, At, Goto
<1>1. PICK expired \in SUBSET (alive \ {s}) :
        /\ view' = [view EXCEPT ![s] =
              [t \in Session |-> IF t \in alive \ expired THEN entries[t] ELSE "none"]]
        /\ mishaps' = mishaps \cup (IF expired # {} THEN {"expired"} ELSE {})
  BY DEF Read
<1>2. EpisodesDecided' /\ SectionUnshared' /\ LabelPublished' /\ (Undisturbed' => Undisturbed)
  BY <1>1 DEF Read, TypeOK, EpisodesDecided, SectionUnshared, InSection, LabelPublished,
              Undisturbed
<1>3. ViewExact'
  <2> SUFFICES ASSUME Undisturbed', NEW r \in Session, At(r, "publish")',
                      NEW t \in alive \ {r}
               PROVE  view'[r][t] = entries[t]
    BY DEF Read, ViewExact
  <2>1. expired = {} /\ Undisturbed
    BY <1>1, <1>2 DEF Undisturbed
  <2>2. CASE r = s
    BY <1>1, <2>1, <2>2 DEF Read, TypeOK
  <2>3. CASE r # s
    BY <1>1, <2>1, <2>3 DEF Read, TypeOK, ViewExact
  <2>4. QED
    BY <2>2, <2>3
<1>4. Counted' \subseteq Counted
  BY DEF Read, Counted, Decided, TypeOK
<1>5. QED
  BY <1>2, <1>3, <1>4, CountShrinks

\* After a failed read nothing is claimed.
LEMMA CeilingReadFails ==
    ASSUME CeilingInv, TypeOK', NEW s \in Session, ReadFails(s)
    PROVE  CeilingInv'
<1> USE DEF CeilingInv, At, Goto
<1>1. ~Undisturbed'
  BY DEF ReadFails, Undisturbed
<1>2. pc' = [pc EXCEPT ![s] = "publish"] \/ pc' = [pc EXCEPT ![s] = "unlock"]
  BY DEF ReadFails
<1>3. /\ EpisodesDecided'
      /\ \A t \in Session : InSection(t)' => InSection(t)
      /\ mishaps \subseteq mishaps'
  <2>1. CASE pc' = [pc EXCEPT ![s] = "publish"]
    BY <2>1 DEF ReadFails, TypeOK, EpisodesDecided, InSection
  <2>2. CASE pc' = [pc EXCEPT ![s] = "unlock"] /\ boundary[s] # "register"
    BY <2>2 DEF ReadFails, TypeOK, EpisodesDecided, InSection
  <2>3. CASE pc' = [pc EXCEPT ![s] = "unlock"] /\ boundary[s] = "register"
    BY <2>3 DEF ReadFails, TypeOK, EpisodesDecided, InSection
  <2>4. QED
    BY <1>2, <2>1, <2>2, <2>3
<1>4. SectionUnshared'
  BY <1>3 DEF SectionUnshared
<1>5. QED
  BY <1>1, <1>3, <1>4 DEF ViewExact, LabelPublished, CountBound

LEMMA CeilingPublishFails ==
    ASSUME CeilingInv, TypeOK', NEW s \in Session, PublishFails(s)
    PROVE  CeilingInv'
<1> USE DEF CeilingInv, At, Goto
<1>1. /\ UNCHANGED <<entries, alive, boundary>> /\ mishaps \subseteq mishaps'
      /\ label' = [label EXCEPT ![s] = FALSE]
      /\ view' = [view EXCEPT ![s] = NoEntries]
      /\ pc' = [pc EXCEPT ![s] = "unlock"]
  BY DEF PublishFails
<1>2. EpisodesDecided' /\ SectionUnshared' /\ (Undisturbed' => Undisturbed)
  BY <1>1 DEF TypeOK, EpisodesDecided, SectionUnshared, InSection, Undisturbed
<1>3. ViewExact' /\ LabelPublished'
  BY <1>1, <1>2 DEF TypeOK, ViewExact, LabelPublished
<1>4. Counted' \subseteq Counted
  BY <1>1 DEF Counted, Decided, TypeOK
<1>5. QED
  BY <1>2, <1>3, <1>4, CountShrinks

LEMMA CeilingDie ==
    ASSUME CeilingInv, TypeOK', NEW s \in Session, Die(s)
    PROVE  CeilingInv'
<1> USE DEF CeilingInv, At, Goto
<1>1. /\ UNCHANGED <<entries, mishaps>> /\ alive' = alive \ {s}
      /\ label' = [label EXCEPT ![s] = FALSE]
      /\ view' = [view EXCEPT ![s] = NoEntries]
      /\ boundary' = [boundary EXCEPT ![s] = "register"]
      /\ pc' = [pc EXCEPT ![s] = "launch"]
  BY DEF Die
<1>2. EpisodesDecided' /\ SectionUnshared' /\ (Undisturbed' <=> Undisturbed)
  BY <1>1 DEF TypeOK, EpisodesDecided, SectionUnshared, InSection, Undisturbed
<1>3. ViewExact' /\ LabelPublished'
  BY <1>1, <1>2 DEF TypeOK, ViewExact, LabelPublished
<1>4. Counted' \subseteq Counted
  BY <1>1 DEF Counted, Decided, TypeOK
<1>5. QED
  BY <1>2, <1>3, <1>4, CountShrinks

\* The step that matters: what s read is still exact, so a decision for OOD counted
\* everybody who decided for OOD before.
LEMMA CeilingPublish ==
    ASSUME CeilingInv, TypeOK', NEW s \in Session, Publish(s)
    PROVE  CeilingInv'
<1> USE DEF CeilingInv, At, Goto
<1>1. /\ UNCHANGED <<alive, boundary, mishaps>>
      /\ s \in alive /\ pc[s] = "publish"
      /\ entries' = [view[s] EXCEPT ![s] = IF Answer(s) THEN "ood" ELSE "id"]
      /\ label' = [label EXCEPT ![s] = Answer(s)]
      /\ view' = [view EXCEPT ![s] = NoEntries]
      /\ pc' = [pc EXCEPT ![s] = "unlock"]
  BY DEF Publish
<1>2. EpisodesDecided' /\ SectionUnshared' /\ (Undisturbed' <=> Undisturbed)
  BY <1>1 DEF TypeOK, EpisodesDecided, SectionUnshared, InSection, Undisturbed
<1>3. ASSUME Undisturbed PROVE \A t \in alive \ {s} : view[s][t] = entries[t]
  BY <1>1, <1>3 DEF ViewExact
<1>4. entries'[s] = IF Answer(s) THEN "ood" ELSE "id"
  BY <1>1 DEF TypeOK
<1>5. \A t \in Session \ {s} : entries'[t] = view[s][t]
  BY <1>1 DEF TypeOK
<1>6. LabelPublished'
  <2> SUFFICES ASSUME Undisturbed', NEW t \in alive, label'[t]
               PROVE  entries'[t] = "ood"
    BY <1>1 DEF LabelPublished
  <2>1. CASE t = s
    BY <1>1, <1>4, <2>1 DEF TypeOK
  <2>2. CASE t # s
    BY <1>1, <1>2, <1>3, <1>5, <2>2 DEF TypeOK, LabelPublished
  <2>3. QED
    BY <2>1, <2>2
<1>7. ViewExact'
  <2> SUFFICES ASSUME Undisturbed', NEW r \in Session, At(r, "publish")'
               PROVE  FALSE
    BY DEF ViewExact
  <2>1. r # s /\ InSection(r) /\ InSection(s)
    BY <1>1 DEF TypeOK, InSection
  <2>2. "race" \notin mishaps
    BY <1>2 DEF Undisturbed
  <2>3. QED
    BY <2>1, <2>2 DEF SectionUnshared
<1>8. CountBound'
  <2>1. CASE Undisturbed /\ Decided(s)' /\ Answer(s)
    <3> DEFINE Others == OodIn(view[s]) \ {s}
    <3>1. Counted' \subseteq (Counted \ {s}) \cup {s}
      BY <1>1 DEF Counted, Decided, TypeOK
    <3>2. Counted \ {s} \subseteq Others
      BY <1>3, <2>1 DEF Counted, OodIn, LabelPublished, TypeOK
    <3>3. boundary[s] # "register"
      BY <1>1, <2>1 DEF Decided
    <3>4. Cardinality(Others) < Max
      BY <2>1, <3>3, Zenon DEF Answer, Decide
    <3>5. /\ Others \in SUBSET Session /\ Counted \in SUBSET Session
          /\ Counted' \in SUBSET Session
      BY <1>1 DEF OodIn, Counted, TypeOK
    <3>6. /\ IsFiniteSet(Others) /\ Cardinality(Others) \in Nat
          /\ IsFiniteSet(Others \cup {s})
          /\ Cardinality(Others \cup {s}) = Cardinality(Others) + 1
      BY <3>5, CardinalityBound, FS_AddElement
    <3>7. Counted' \subseteq Others \cup {s}
      BY <3>1, <3>2
    <3>8. Cardinality(Counted') \in Nat /\ Cardinality(Counted') <= Cardinality(Others \cup {s})
      BY <3>5, <3>6, <3>7, CardinalityBound, FS_Subset
    <3>9. QED
      BY <3>4, <3>6, <3>8, OodBandAssumption DEF CountBound
  <2>2. CASE ~(Decided(s)' /\ Answer(s))
    <3>1. Counted' \subseteq Counted
      BY <1>1, <2>2 DEF Counted, Decided, TypeOK
    <3>2. QED
      BY <1>2, <3>1, CountShrinks
  <2>3. CASE ~Undisturbed
    BY <1>2, <2>3 DEF CountBound
  <2>4. QED
    BY <2>1, <2>2, <2>3
<1>9. QED
  BY <1>2, <1>6, <1>7, <1>8

LEMMA StepCeiling == CeilingInv /\ [Next]_vars => CeilingInv'
<1> SUFFICES ASSUME CeilingInv, [Next]_vars PROVE CeilingInv'
  OBVIOUS
<1>1. TypeOK'
  BY StepType DEF CeilingInv
<1>2. CASE \E s \in Session : Begin(s) \/ Create(s) \/ ReadPid(s) \/ Unlink(s) \/ Unlock(s)
  BY <1>1, <1>2, CeilingOutside
<1>3. CASE \E s \in Session : WritePid(s) \/ TimeOut(s)
  BY <1>1, <1>3, CeilingEnter
<1>4. CASE \E s \in Session : Read(s)
  BY <1>1, <1>4, CeilingRead
<1>5. CASE \E s \in Session : ReadFails(s)
  BY <1>1, <1>5, CeilingReadFails
<1>6. CASE \E s \in Session : Publish(s)
  BY <1>1, <1>6, CeilingPublish
<1>7. CASE \E s \in Session : PublishFails(s)
  BY <1>1, <1>7, CeilingPublishFails
<1>8. CASE \E s \in Session : Die(s)
  BY <1>1, <1>8, CeilingDie
<1>9. CASE UNCHANGED vars
  BY <1>1, <1>9
  DEF vars, CeilingInv, EpisodesDecided, SectionUnshared, InSection, ViewExact, At,
      LabelPublished, CountBound, Counted, Decided, Undisturbed
<1>10. QED
  BY <1>2, <1>3, <1>4, <1>5, <1>6, <1>7, <1>8, <1>9 DEF Next, Calling

LEMMA CeilingInvHolds == Spec => []CeilingInv
BY InitCeiling, StepCeiling, PTL DEF Spec

\* No more than MAX sessions run an OOD scene, through exits, lock timeouts that met
\* nobody and failed writes: ood_state_ledger.py, the rule of lines 15-25.
THEOREM Ceiling == Spec => []CeilingUndisturbed
<1>1. CeilingInv => CeilingUndisturbed
  <2> SUFFICES ASSUME CeilingInv, Undisturbed PROVE Cardinality(RunningOod) <= Max
    BY DEF CeilingUndisturbed
  <2>1. RunningOod \subseteq Counted /\ Counted \in SUBSET Session
    BY DEF CeilingInv, TypeOK, EpisodesDecided, RunningOod, Running, Counted, Decided
  <2>2. /\ Cardinality(RunningOod) <= Cardinality(Counted)
        /\ Cardinality(RunningOod) \in Nat /\ Cardinality(Counted) \in Nat
    BY <2>1, CardinalityBound
  <2>3. QED
    BY <2>2, OodBandAssumption DEF CeilingInv, CountBound
<1>2. QED
  BY <1>1, CeilingInvHolds, PTL

\* A session that runs an OOD scene holds a slot the others can see, _write(), 119-121.
THEOREM PublishedOod == Spec => []OodIsPublished
<1>1. CeilingInv => OodIsPublished
  BY DEF CeilingInv, LabelPublished, OodIsPublished, RunningOod, Running
<1>2. QED
  BY <1>1, CeilingInvHolds, PTL

-----------------------------------------------------------------------------
(* The critical section                                                    *)

LEMMA InitSole == Init => SoleInv
BY InitType DEF Init, SoleInv, HoldersCreated, SoleWriter

\* A lock file with a pid in it names a session, which is alive while nobody exited.
LEMMA NobodyGone == TypeOK /\ Patient => ~OwnerGone
BY LockFacts DEF TypeOK, Patient, OwnerGone

LEMMA StepHolders == SoleInv /\ [Next]_vars => HoldersCreated'
<1> SUFFICES ASSUME SoleInv, [Next]_vars, Patient' PROVE HoldersCreated'
  BY DEF HoldersCreated
<1>1. Patient
  <2>1. \A s \in Session : ~Die(s)
    BY DEF Die, Patient, SoleInv, TypeOK
  <2>2. alive' = alive /\ mishaps \subseteq mishaps'
    BY <2>1 DEF Next, Calling, vars, Begin, Create, WritePid, ReadPid, Unlink, TimeOut, Enter,
                Read, ReadFails, Publish, PublishFails, Unlock
  <2>3. QED
    BY <2>2 DEF Patient
<1> USE <1>1 DEF SoleInv, TypeOK, HoldersCreated, At, Goto
<1>2. ASSUME NEW s \in Session, Begin(s) \/ Read(s) \/ Publish(s) \/ PublishFails(s)
      PROVE  HoldersCreated'
  BY <1>2 DEF Begin, Read, Publish, PublishFails
<1>3. ASSUME NEW s \in Session, Create(s) PROVE HoldersCreated'
  <2>1. CASE lock = NoLock /\ lock' = [by |-> s, written |-> FALSE]
             /\ fd' = [fd EXCEPT ![s] = TRUE] /\ Goto(s, "writePid")
    BY <1>3, <2>1, LockFacts DEF Create
  <2>2. CASE Goto(s, "readPid") /\ UNCHANGED <<lock, fd>>
    BY <1>3, <2>2 DEF Create
  <2>3. QED
    BY <1>3, <2>1, <2>2 DEF Create
<1>4. ASSUME NEW s \in Session, WritePid(s) PROVE HoldersCreated'
  <2>1. lock'.by = lock.by /\ fd' = fd /\ pc' = [pc EXCEPT ![s] = "read"]
    BY <1>4 DEF WritePid, Enter
  <2>2. pc[s] = "writePid"
    BY <1>4 DEF WritePid
  <2>3. QED
    BY <2>1, <2>2
<1>5. ASSUME NEW s \in Session, ReadPid(s) PROVE HoldersCreated'
  <2>1. Goto(s, "create") /\ UNCHANGED <<lock, fd>>
    BY <1>5, NobodyGone DEF ReadPid
  <2>2. QED
    BY <2>1
<1>6. ASSUME NEW s \in Session, Unlink(s) PROVE HoldersCreated'
  BY <1>6 DEF Unlink
<1>7. ASSUME NEW s \in Session, TimeOut(s) PROVE HoldersCreated'
  BY <1>7 DEF TimeOut, Enter, Patient
<1>8. ASSUME NEW s \in Session, ReadFails(s) PROVE HoldersCreated'
  <2>1. /\ UNCHANGED <<lock, fd>> /\ pc[s] = "read"
        /\ Goto(s, "publish") \/ Goto(s, "unlock")
    BY <1>8 DEF ReadFails
  <2>2. QED
    BY <2>1
<1>9. ASSUME NEW s \in Session, Unlock(s) PROVE HoldersCreated'
  <2>1. /\ lock.by = s
        /\ \A t \in Session \ {s} :
               pc[t] \notin {"writePid", "read", "publish", "unlock"} /\ pc'[t] = pc[t]
        /\ pc'[s] \in {"loading", "episode"}
    BY <1>9 DEF Unlock
  <2>2. QED
    BY <2>1
<1>10. ASSUME NEW s \in Session, Die(s) PROVE HoldersCreated'
  BY <1>10 DEF Die, Patient
<1>11. CASE UNCHANGED vars
  BY <1>11 DEF vars
<1>12. QED
  BY <1>2, <1>3, <1>4, <1>5, <1>6, <1>7, <1>8, <1>9, <1>10, <1>11 DEF Next, Calling

LEMMA StepSoleWriter == SoleInv /\ [Next]_vars => SoleWriter'
<1> SUFFICES ASSUME SoleInv, [Next]_vars PROVE SoleWriter'
  OBVIOUS
<1>1. ASSUME NEW s \in Session, WritePid(s) PROVE SoleWriter'
  <2>1. alive' = alive /\ ("timeout" \in mishaps => "timeout" \in mishaps')
    BY <1>1 DEF WritePid, Enter
  <2>2. ASSUME Patient PROVE \A t \in Session \ {s} : ~InSection(t)
    BY <1>1, <2>2 DEF SoleInv, HoldersCreated, InSection, WritePid, At
  <2>3. "race" \in mishaps' => "race" \in mishaps \/ \E t \in Session \ {s} : InSection(t)
    BY <1>1 DEF WritePid, Enter
  <2>4. QED
    BY <2>1, <2>2, <2>3 DEF SoleInv, SoleWriter, Patient
<1>2. ASSUME NEW s \in Session, TimeOut(s) PROVE SoleWriter'
  BY <1>2 DEF TimeOut, Enter, SoleWriter
<1>3. ASSUME NEW s \in Session, Die(s) PROVE SoleWriter'
  BY <1>3 DEF Die, SoleInv, SoleWriter, TypeOK
<1>4. CASE /\ alive' = alive
           /\ mishaps \subseteq mishaps' /\ ("race" \in mishaps' => "race" \in mishaps)
  BY <1>4 DEF SoleInv, SoleWriter
<1>5. ASSUME NEW s \in Session,
             Begin(s) \/ Create(s) \/ ReadPid(s) \/ Unlink(s) \/ Publish(s) \/ Unlock(s)
      PROVE  SoleWriter'
  BY <1>4, <1>5 DEF Begin, Create, ReadPid, Unlink, Publish, Unlock
<1>6. ASSUME NEW s \in Session, Read(s) \/ ReadFails(s) \/ PublishFails(s)
      PROVE  SoleWriter'
  BY <1>4, <1>6 DEF Read, ReadFails, PublishFails
<1>7. CASE UNCHANGED vars
  BY <1>4, <1>7 DEF vars
<1>8. QED
  BY <1>1, <1>2, <1>3, <1>5, <1>6, <1>7 DEF Next, Calling

\* The lock file keeps two sessions out of the read-decide-write as long as nobody
\* exits and no budget runs out: _acquire_lock(), lines 165-193.
THEOREM SectionIsExclusive == Spec => []SoleWriter
<1>1. SoleInv /\ [Next]_vars => SoleInv'
  BY StepType, StepHolders, StepSoleWriter DEF SoleInv
<1>2. SoleInv => SoleWriter
  BY DEF SoleInv
<1>3. QED
  BY InitSole, <1>1, <1>2, PTL DEF Spec

-----------------------------------------------------------------------------
(* The floor.  A session counts for it while it shows as OOD, and one the  *)
(* launcher assigned counts from the start: an OOD session that leaves, or *)
(* an ID session that stays, has seen MIN others when nothing disturbs the *)
(* reads, and nobody's entry is lost.                                      *)

Settled == Undisturbed /\ "unregistered" \notin mishaps /\ alive = Session

Unregistered(t) == boundary[t] = "register" /\ pc[t] \notin {"unlock", "loading"}

Covering == {t \in Session : entries[t] = "ood" \/ (t \in Initial /\ Unregistered(t))}

UnregisteredUnseen == Settled => \A t \in Session : Unregistered(t) => entries[t] # "ood"

Covered == Settled => Cardinality(Initial) <= Cardinality(Covering)

FloorInv ==
    /\ CeilingInv
    /\ UnregisteredUnseen
    /\ Covered

LEMMA InitFloor == Init => FloorInv
<1> SUFFICES ASSUME Init PROVE FloorInv
  OBVIOUS
<1>1. Covering = Initial
  BY OodBandAssumption DEF Init, Covering, Unregistered, NoEntries
<1>2. Initial \in SUBSET Session /\ Initial \in SUBSET Initial
  BY OodBandAssumption
<1>3. Covered
  BY <1>1, <1>2, CardinalityBound DEF Covered
<1>4. UnregisteredUnseen
  BY DEF Init, UnregisteredUnseen, NoEntries
<1>5. QED
  BY <1>3, <1>4, InitCeiling DEF FloorInv

\* A step that loses nobody keeps the floor.
LEMMA CoverGrows ==
    ASSUME TypeOK', Covered, Covering \subseteq Covering', Settled' => Settled
    PROVE  Covered'
<1>1. Covering' \in SUBSET Session
  BY DEF Covering
<1>2. /\ Cardinality(Covering) \in Nat /\ Cardinality(Covering') \in Nat
      /\ Cardinality(Covering) <= Cardinality(Covering')
  BY <1>1, CardinalityBound
<1>3. Cardinality(Initial) \in Nat
  BY OodBandAssumption, CardinalityBound
<1>4. QED
  BY <1>2, <1>3 DEF Covered

\* The steps that leave the ledger file and the registrations alone.
LEMMA FloorOutside ==
    ASSUME FloorInv, TypeOK', NEW s \in Session,
           \/ Begin(s) \/ Create(s) \/ WritePid(s) \/ ReadPid(s) \/ Unlink(s) \/ TimeOut(s)
           \/ Read(s) \/ ReadFails(s) \/ PublishFails(s) \/ Unlock(s) \/ Die(s)
    PROVE  UnregisteredUnseen' /\ Covered'
<1> USE DEF FloorInv, CeilingInv, At, Goto
<1>1. entries' = entries
  BY DEF Begin, Create, WritePid, ReadPid, Unlink, TimeOut, Read, ReadFails, PublishFails,
         Unlock, Die, Enter
<1>2. Settled' => Settled
  BY DEF Begin, Create, WritePid, ReadPid, Unlink, TimeOut, Read, ReadFails, PublishFails,
         Unlock, Die, Enter, Settled, Undisturbed, TypeOK
<1>3. ASSUME Settled', NEW t \in Session PROVE Unregistered(t)' <=> Unregistered(t)
  <2>1. CASE Begin(s)
    BY <2>1 DEF Begin, Unregistered, TypeOK, EpisodesDecided
  <2>2. CASE ReadFails(s)
    BY <2>2, <1>3 DEF ReadFails, Settled, Undisturbed
  <2>3. CASE PublishFails(s)
    BY <2>3, <1>3 DEF PublishFails, Settled, Unregistered, TypeOK
  <2>4. CASE Die(s)
    BY <2>4, <1>3 DEF Die, Settled
  <2>5. CASE Create(s) \/ WritePid(s) \/ ReadPid(s) \/ Unlink(s) \/ TimeOut(s) \/ Read(s)
    BY <2>5 DEF Create, WritePid, ReadPid, Unlink, TimeOut, Read, Enter, Unregistered, TypeOK
  <2>6. CASE Unlock(s)
    BY <2>6 DEF Unlock, Unregistered, TypeOK
  <2>7. QED
    BY <2>1, <2>2, <2>3, <2>4, <2>5, <2>6
<1>4. UnregisteredUnseen'
  BY <1>1, <1>2, <1>3 DEF UnregisteredUnseen
<1>5. CASE Settled'
  <2>1. Covering = Covering'
    BY <1>1, <1>3, <1>5 DEF Covering
  <2>2. QED
    BY <1>2, <1>4, <2>1, CoverGrows
<1>6. CASE ~ Settled'
  BY <1>4, <1>6 DEF Covered
<1>7. QED
  BY <1>5, <1>6

\* A session that publishes itself as ID has read MIN others that are OOD.
LEMMA StaysId ==
    ASSUME TypeOK, NEW s \in Session, boundary[s] # "register", ~ Answer(s)
    PROVE  Min <= Cardinality(OodIn(view[s]) \ {s})
<1> DEFINE others == Cardinality(OodIn(view[s]) \ {s})
<1>1. others \in Nat
  BY CardinalityBound DEF OodIn
<1>2. ~ Decide(label[s], others)
  BY Zenon DEF Answer
<1>3. label[s] \in BOOLEAN
  BY DEF TypeOK
<1>4. QED
  BY <1>1, <1>2, <1>3, OodBandAssumption DEF Decide

LEMMA FloorPublish ==
    ASSUME FloorInv, TypeOK', NEW s \in Session, Publish(s)
    PROVE  UnregisteredUnseen' /\ Covered'
<1> USE DEF FloorInv, CeilingInv, At, Goto
<1>1. /\ UNCHANGED <<alive, boundary, mishaps>>
      /\ s \in alive /\ pc[s] = "publish"
      /\ entries' = [view[s] EXCEPT ![s] = IF Answer(s) THEN "ood" ELSE "id"]
      /\ pc' = [pc EXCEPT ![s] = "unlock"]
  BY DEF Publish
<1>2. Settled' <=> Settled
  BY <1>1 DEF Settled, Undisturbed
<1>3. entries'[s] = IF Answer(s) THEN "ood" ELSE "id"
  BY <1>1 DEF TypeOK
<1>4. ASSUME Settled, NEW t \in Session \ {s} PROVE entries'[t] = entries[t]
  BY <1>1, <1>4 DEF TypeOK, Settled, ViewExact
<1>5. ~ Unregistered(s)' /\ \A t \in Session \ {s} : Unregistered(t)' <=> Unregistered(t)
  BY <1>1 DEF Unregistered, TypeOK
<1>6. UnregisteredUnseen'
  BY <1>2, <1>4, <1>5 DEF UnregisteredUnseen
<1>7. ASSUME Settled PROVE Covering \ {s} \subseteq Covering'
  BY <1>4, <1>5, <1>7 DEF Covering
<1>8. CASE Settled /\ Answer(s)
  <2>1. Covering \subseteq Covering'
    BY <1>3, <1>7, <1>8 DEF Covering
  <2>2. QED
    BY <1>2, <1>6, <2>1, CoverGrows
<1>9. CASE Settled /\ ~ Answer(s) /\ boundary[s] = "register"
  <2>1. s \notin Initial /\ Unregistered(s)
    BY <1>1, <1>9 DEF Answer, Unregistered
  <2>2. s \notin Covering
    BY <1>9, <2>1 DEF Covering, UnregisteredUnseen
  <2>3. QED
    BY <1>2, <1>6, <1>7, <1>9, <2>2, CoverGrows
<1>10. CASE Settled /\ ~ Answer(s) /\ boundary[s] # "register"
  <2> DEFINE others == OodIn(view[s]) \ {s}
  <2>1. others \subseteq Covering'
    BY <1>1 DEF OodIn, Covering, TypeOK
  <2>2. Covering' \in SUBSET Session
    BY DEF Covering
  <2>3. /\ Cardinality(others) \in Nat /\ Cardinality(Covering') \in Nat
        /\ Cardinality(others) <= Cardinality(Covering')
    BY <2>1, <2>2, CardinalityBound
  <2>4. Min <= Cardinality(others)
    BY <1>10, StaysId
  <2>5. Cardinality(Initial) \in Nat
    BY OodBandAssumption, CardinalityBound
  <2>6. QED
    BY <1>6, <2>3, <2>4, <2>5, OodBandAssumption DEF Covered
<1>11. CASE ~ Settled
  BY <1>2, <1>6, <1>11 DEF Covered
<1>12. QED
  BY <1>8, <1>9, <1>10, <1>11

LEMMA StepFloor == FloorInv /\ [Next]_vars => FloorInv'
<1> SUFFICES ASSUME FloorInv, [Next]_vars PROVE FloorInv'
  OBVIOUS
<1>1. CeilingInv'
  BY StepCeiling DEF FloorInv
<1>2. TypeOK'
  BY <1>1 DEF CeilingInv
<1>3. CASE UNCHANGED vars
  BY <1>1, <1>3 DEF vars, FloorInv, UnregisteredUnseen, Covered, Settled, Undisturbed,
                    Covering, Unregistered
<1>4. CASE \E s \in Session : Publish(s)
  BY <1>1, <1>2, <1>4, FloorPublish DEF FloorInv
<1>5. CASE \E s \in Session :
              \/ Begin(s) \/ Create(s) \/ WritePid(s) \/ ReadPid(s) \/ Unlink(s) \/ TimeOut(s)
              \/ Read(s) \/ ReadFails(s) \/ PublishFails(s) \/ Unlock(s) \/ Die(s)
  BY <1>1, <1>2, <1>5, FloorOutside DEF FloorInv
<1>6. QED
  BY <1>3, <1>4, <1>5 DEF Next, Calling

\* Once all have registered, the ledger never shows fewer OOD sessions than the launcher
\* assigned, whoever enters and leaves: decide(), line 18.
THEOREM Floor == Spec => []PublishedFloor
<1>1. FloorInv => PublishedFloor
  <2> SUFFICES ASSUME FloorInv, Settled,
                      \A s \in Session : boundary[s] # "register" \/ pc[s] = "loading"
               PROVE  Cardinality(OodIn(entries)) >= Cardinality(Initial)
    BY DEF PublishedFloor, Settled
  <2>1. Covering = OodIn(entries)
    BY DEF Covering, OodIn, Unregistered
  <2>2. Cardinality(Initial) \in Nat /\ Cardinality(Covering) \in Nat
    BY OodBandAssumption, CardinalityBound DEF Covering
  <2>3. QED
    BY <2>1, <2>2 DEF FloorInv, Covered
<1>2. Spec => []FloorInv
  BY InitFloor, StepFloor, PTL DEF Spec
<1>3. QED
  BY <1>1, <1>2, PTL
-----------------------------------------------------------------------------
(* One decision at a time.  A decision takes effect when its session       *)
(* publishes: what it read is by then still what the file shows, except of *)
(* sessions that have exited.                                              *)

ViewSays ==
    Undisturbed =>
        \A s \in Session : At(s, "publish") =>
            \A t \in Session \ {s} :
                view[s][t] = entries[t] \/ (t \notin alive /\ view[s][t] = "none")

NotShown ==
    Undisturbed =>
        \A s \in alive : Unregistered(s) => entries[s] = "none" /\ ~label[s]

QuotaInv ==
    /\ CeilingInv
    /\ ViewSays
    /\ NotShown

LEMMA InitQuota == Init => QuotaInv
BY InitCeiling DEF Init, QuotaInv, ViewSays, NotShown, At, NoEntries

\* The steps that leave the file, the labels and what was read alone.
LEMMA QuotaOutside ==
    ASSUME QuotaInv, TypeOK', NEW s \in Session,
           \/ Begin(s) \/ Create(s) \/ WritePid(s) \/ ReadPid(s) \/ Unlink(s) \/ TimeOut(s)
           \/ Unlock(s)
    PROVE  ViewSays' /\ NotShown'
<1> USE DEF QuotaInv, CeilingInv, At, Goto, Enter
<1>1. UNCHANGED <<entries, alive, view, label>> /\ (Undisturbed' => Undisturbed)
  BY DEF Begin, Create, WritePid, ReadPid, Unlink, TimeOut, Unlock, Undisturbed
<1>2. \A t \in Session : pc'[t] = "publish" => pc[t] = "publish"
  BY DEF Begin, Create, WritePid, ReadPid, Unlink, TimeOut, Unlock, TypeOK
<1>3. ViewSays'
  BY <1>1, <1>2 DEF ViewSays
<1>4. \A t \in Session : Unregistered(t)' => Unregistered(t)
  <2>1. CASE Begin(s)
    BY <2>1 DEF Begin, Unregistered, TypeOK, EpisodesDecided
  <2>2. CASE Create(s) \/ WritePid(s) \/ ReadPid(s) \/ Unlink(s) \/ TimeOut(s)
    BY <2>2 DEF Create, WritePid, ReadPid, Unlink, TimeOut, Unregistered, TypeOK
  <2>3. CASE Unlock(s)
    BY <2>3 DEF Unlock, Unregistered, TypeOK
  <2>4. QED
    BY <2>1, <2>2, <2>3
<1>5. NotShown'
  BY <1>1, <1>4 DEF NotShown, TypeOK
<1>6. QED
  BY <1>3, <1>5

LEMMA QuotaRead ==
    ASSUME QuotaInv, TypeOK', NEW s \in Session, Read(s)
    PROVE  ViewSays' /\ NotShown'
<1> USE DEF QuotaInv, CeilingInv, At, Goto
<1>1. PICK expired \in SUBSET (alive \ {s}) :
        /\ view' = [view EXCEPT ![s] =
              [t \in Session |-> IF t \in alive \ expired THEN entries[t] ELSE "none"]]
        /\ mishaps' = mishaps \cup (IF expired # {} THEN {"expired"} ELSE {})
  BY DEF Read
<1>2. /\ UNCHANGED <<entries, alive, label, boundary>> /\ pc[s] = "read"
      /\ pc' = [pc EXCEPT ![s] = "publish"]
  BY DEF Read
<1>3. Undisturbed' => Undisturbed /\ expired = {}
  BY <1>1 DEF Undisturbed
<1>4. ViewSays'
  <2> SUFFICES ASSUME Undisturbed', NEW r \in Session, At(r, "publish")',
                      NEW t \in Session \ {r}
               PROVE  view'[r][t] = entries[t] \/ (t \notin alive /\ view'[r][t] = "none")
    BY <1>2 DEF ViewSays
  <2>1. CASE r = s
    BY <1>1, <1>3, <2>1 DEF TypeOK
  <2>2. CASE r # s
    BY <1>1, <1>2, <1>3, <2>2 DEF TypeOK, ViewSays
  <2>3. QED
    BY <2>1, <2>2
<1>5. NotShown'
  BY <1>2, <1>3 DEF NotShown, Unregistered, TypeOK
<1>6. QED
  BY <1>4, <1>5

LEMMA QuotaFails ==
    ASSUME QuotaInv, TypeOK', NEW s \in Session, ReadFails(s) \/ PublishFails(s) \/ Die(s)
    PROVE  ViewSays' /\ NotShown'
<1> USE DEF QuotaInv, CeilingInv, At, Goto
<1>1. CASE ReadFails(s)
  BY <1>1 DEF ReadFails, Undisturbed, ViewSays, NotShown
<1>2. CASE PublishFails(s)
  <2>1. /\ UNCHANGED <<entries, alive, boundary>> /\ (Undisturbed' => Undisturbed)
        /\ label' = [label EXCEPT ![s] = FALSE]
        /\ view' = [view EXCEPT ![s] = NoEntries]
        /\ pc' = [pc EXCEPT ![s] = "unlock"] /\ pc[s] = "publish"
    BY <1>2 DEF PublishFails, Undisturbed
  <2>2. ViewSays'
    BY <2>1 DEF ViewSays, TypeOK
  <2>3. NotShown'
    BY <2>1 DEF NotShown, Unregistered, TypeOK
  <2>4. QED
    BY <2>2, <2>3
<1>3. CASE Die(s)
  <2>1. /\ UNCHANGED <<entries, mishaps>> /\ alive' = alive \ {s}
        /\ label' = [label EXCEPT ![s] = FALSE]
        /\ view' = [view EXCEPT ![s] = NoEntries]
        /\ boundary' = [boundary EXCEPT ![s] = "register"]
        /\ pc' = [pc EXCEPT ![s] = "launch"]
    BY <1>3 DEF Die
  <2>2. ViewSays'
    BY <2>1 DEF ViewSays, TypeOK, Undisturbed
  <2>3. NotShown'
    BY <2>1 DEF NotShown, Unregistered, TypeOK, Undisturbed
  <2>4. QED
    BY <2>2, <2>3
<1>4. QED
  BY <1>1, <1>2, <1>3

LEMMA QuotaPublish ==
    ASSUME QuotaInv, TypeOK', NEW s \in Session, Publish(s)
    PROVE  ViewSays' /\ NotShown'
<1> USE DEF QuotaInv, CeilingInv, At, Goto
<1>1. /\ UNCHANGED <<alive, boundary, mishaps>>
      /\ s \in alive /\ pc[s] = "publish"
      /\ entries' = [view[s] EXCEPT ![s] = IF Answer(s) THEN "ood" ELSE "id"]
      /\ label' = [label EXCEPT ![s] = Answer(s)]
      /\ pc' = [pc EXCEPT ![s] = "unlock"]
  BY DEF Publish
<1>2. ASSUME Undisturbed, NEW r \in Session, At(r, "publish")' PROVE FALSE
  <2>1. r # s /\ InSection(r) /\ InSection(s)
    BY <1>1, <1>2 DEF TypeOK, InSection
  <2>2. QED
    BY <1>2, <2>1 DEF SectionUnshared, Undisturbed
<1>3. ViewSays'
  BY <1>1, <1>2 DEF ViewSays, Undisturbed
<1>4. NotShown'
  <2> SUFFICES ASSUME Undisturbed, NEW t \in alive, Unregistered(t)'
               PROVE  entries'[t] = "none" /\ ~label'[t]
    BY <1>1 DEF NotShown, Undisturbed
  <2>1. t # s /\ Unregistered(t) /\ t \in Session
    BY <1>1 DEF Unregistered, TypeOK
  <2>2. entries'[t] = view[s][t] /\ label'[t] = label[t]
    BY <1>1, <2>1 DEF TypeOK
  <2>3. view[s][t] = entries[t]
    BY <1>1, <2>1 DEF ViewSays
  <2>4. QED
    BY <2>1, <2>2, <2>3 DEF NotShown
<1>5. QED
  BY <1>3, <1>4

LEMMA StepQuota == QuotaInv /\ [Next]_vars => QuotaInv'
<1> SUFFICES ASSUME QuotaInv, [Next]_vars PROVE QuotaInv'
  OBVIOUS
<1>1. CeilingInv'
  BY StepCeiling DEF QuotaInv
<1>2. TypeOK'
  BY <1>1 DEF CeilingInv
<1>3. CASE UNCHANGED vars
  BY <1>1, <1>3
  DEF vars, QuotaInv, ViewSays, NotShown, Undisturbed, At, Unregistered
<1>4. CASE \E s \in Session : Read(s) \/ Publish(s)
  BY <1>1, <1>2, <1>4, QuotaRead, QuotaPublish DEF QuotaInv
<1>5. CASE \E s \in Session : ReadFails(s) \/ PublishFails(s) \/ Die(s)
  BY <1>1, <1>2, <1>5, QuotaFails DEF QuotaInv
<1>6. CASE \E s \in Session :
              \/ Begin(s) \/ Create(s) \/ WritePid(s) \/ ReadPid(s) \/ Unlink(s) \/ TimeOut(s)
              \/ Unlock(s)
  BY <1>1, <1>2, <1>6, QuotaOutside DEF QuotaInv
<1>7. QED
  BY <1>3, <1>4, <1>5, <1>6 DEF Next, Calling

\* The rule is the one of the docstring: as MIN <= MAX, the clamp is never reached.
LEMMA ClampUnreachable ==
    ASSUME NEW current \in BOOLEAN, NEW others \in Nat
    PROVE  Decide(current, others) <=> others < (IF current THEN Min ELSE Max)
BY OodBandAssumption DEF Decide

\* The instance counts with the same Cardinality.
LEMMA SameCardinality == \A S : Quota!Cardinality(S) = Cardinality(S)
BY Zenon DEF Quota!Cardinality, Cardinality

LEMMA DecideAtOnce ==
    ASSUME QuotaInv, Undisturbed, NEW s \in Session, Publish(s)
    PROVE  Quota!Register(s) \/ Quota!Decide(s)
<1> USE DEF QuotaInv, CeilingInv, At, Goto
<1> DEFINE forgotten == {t \in Session \ alive : view[s][t] = "none"}
           others == {t \in Session \ (forgotten \cup {s}) : entries[t] = "ood"}
<1>1. /\ s \in alive /\ pc[s] = "publish" /\ UNCHANGED alive
      /\ entries' = [view[s] EXCEPT ![s] = IF Answer(s) THEN "ood" ELSE "id"]
      /\ label' = [label EXCEPT ![s] = Answer(s)]
  BY DEF Publish
<1>2. \A t \in Session \ {s} :
          view[s][t] = IF t \in forgotten THEN "none" ELSE entries[t]
  BY <1>1 DEF ViewSays
<1>3. entries' = [t \in Session |-> IF t = s THEN (IF Answer(s) THEN "ood" ELSE "id")
                                    ELSE IF t \in forgotten THEN "none" ELSE entries[t]]
  BY <1>1, <1>2 DEF TypeOK
<1>4. Quota!Show(s, Answer(s), forgotten)
  BY <1>1, <1>3 DEF Quota!Show, Quota!Set
<1>5. CASE boundary[s] = "register"
  <2>1. Answer(s) = (s \in Initial)
    BY <1>5 DEF Answer
  <2>2. entries[s] = "none" /\ ~label[s]
    BY <1>1, <1>5 DEF NotShown, Unregistered
  <2>3. Quota!Show(s, s \in Initial, forgotten)
    BY <1>4, <2>1, Zenon DEF Quota!Show, Quota!Set
  <2>4. forgotten \in SUBSET (Session \ alive)
    OBVIOUS
  <2>5. QED
    BY <1>1, <2>2, <2>3, <2>4, Zenon DEF Quota!Register
<1>6. CASE boundary[s] # "register"
  <2>1. OodIn(view[s]) \ {s} = others
    BY <1>2 DEF OodIn
  <2>2. Answer(s) = Decide(label[s], Cardinality(others))
    BY <1>6, <2>1, Zenon DEF Answer
  <2>3. Cardinality(others) \in Nat /\ label[s] \in BOOLEAN
    BY CardinalityBound DEF TypeOK
  <2>4. Decide(label[s], Cardinality(others))
          <=> Cardinality(others) < (IF label[s] THEN Min ELSE Max)
    BY <2>3, ClampUnreachable
  <2>5. Decide(label[s], Cardinality(others)) \in BOOLEAN
    BY Zenon DEF Decide
  <2>6. Answer(s) = (Cardinality(others) < (IF label[s] THEN Min ELSE Max))
    BY <2>2, <2>4, <2>5
  <2>7. Quota!Cardinality(others) = Cardinality(others)
    BY SameCardinality
  <2>8. Quota!Show(s, Quota!Cardinality(others) < (IF label[s] THEN Min ELSE Max), forgotten)
    BY <1>4, <2>6, <2>7, Zenon DEF Quota!Show, Quota!Set
  <2>9. \E f \in SUBSET (Session \ alive) :
           Quota!Show(s, Quota!Cardinality({t \in Session \ (f \cup {s}) : entries[t] = "ood"})
                           < (IF label[s] THEN Min ELSE Max), f)
    <3>1. forgotten \in SUBSET (Session \ alive)
      OBVIOUS
    <3>2. QED
      BY <2>8, <3>1, Zenon DEF Quota!Show, Quota!Set
  <2>10. QED
    BY <1>1, <2>9, Zenon DEF Quota!Decide, Quota!Show, Quota!Set
<1>7. QED
  BY <1>5, <1>6

LEMMA StepAtomic ==
    ASSUME QuotaInv, [Next]_vars
    PROVE  [Quota!Next \/ ~Undisturbed']_<<alive, entries, label>>
<1>1. CASE \E s \in Session : Publish(s)
  <2>1. Undisturbed' <=> Undisturbed
    BY <1>1 DEF Publish, Undisturbed
  <2>2. QED
    BY <1>1, <2>1, DecideAtOnce DEF Quota!Next
<1>2. CASE \E s \in Session : ReadFails(s)
  BY <1>2 DEF ReadFails, Undisturbed
<1>3. CASE \E s \in Session : PublishFails(s)
  BY <1>3 DEF PublishFails, At, QuotaInv, CeilingInv, TypeOK, Quota!Next, Quota!StayId, Quota!Set
<1>4. CASE \E s \in Session : Die(s)
  BY <1>4 DEF Die, Quota!Next, Quota!Exit, Quota!Set
<1>5. CASE \/ UNCHANGED vars
           \/ \E s \in Session :
                 \/ Begin(s) \/ Create(s) \/ WritePid(s) \/ ReadPid(s) \/ Unlink(s)
                 \/ TimeOut(s) \/ Read(s) \/ Unlock(s)
  BY <1>5 DEF vars, Begin, Create, WritePid, ReadPid, Unlink, TimeOut, Read, Unlock, Enter
<1>6. QED
  BY <1>1, <1>2, <1>3, <1>4, <1>5 DEF Next, Calling

\* The decisions of a launch are those of sessions that decide one at a time and at once,
\* by the rule of ood_state_ledger.py:15-25, until two share the section, a read fails or a
\* live entry expires.
THEOREM DecisionsAreAtomic == Spec => ImplementsOodQuota
<1>1. Init => Quota!Init
  BY DEF Init, Quota!Init, NoEntries
<1>2. QuotaInv /\ [Next]_vars => [Quota!Next \/ ~Undisturbed']_<<alive, entries, label>>
  BY StepAtomic
<1>3. QED
  BY <1>1, <1>2, InitQuota, StepQuota, PTL DEF Spec, ImplementsOodQuota
=============================================================================
