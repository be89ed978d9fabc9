------------------------- MODULE ContainmentProofs -------------------------
(***************************************************************************)
(* Theorems about Containment, for any agents, lock runs, files and any    *)
(* number of calls, runs and crashes: outside the named windows nothing    *)
(* that a lock run protects is changed, and nothing that the policy denied *)
(* is shown.  Everything below is said of states in which no window has    *)
(* been open; then at most one lock run is underway at a time.             *)
(***************************************************************************)
EXTENDS Containment, TLAPS

Fields == [form : {"list", "missing", "wrong"}, files : SUBSET Files]
Policies == [kind : {"none", "broken", "other", "undecodable", "object"},
             paths : Fields, writes : Fields]
Frames ==
  [pc : {"off", "tests", "verify", "scoring", "truncate", "write"},
   todo : SUBSET Files, at : SUBSET Files, scoring : BOOLEAN, hidden : BOOLEAN,
   augment : BOOLEAN, globs : SUBSET Files, done : SUBSET Files, failed : BOOLEAN,
   text : Policies]

TypeOK ==
  /\ present \subseteq Files
  /\ mode \in [Files -> {"rw", "ro", "wo", "none"}]
  /\ policy \in Policies
  /\ pc \in [Agents -> {"idle", "run"}]
  /\ event \in [Agents -> Events \cup {NoEvent}]
  /\ \A a \in Agents : pc[a] = "run" => event[a] \in Events
  /\ guarded \in [Agents -> SUBSET Files]
  /\ lock \in [Lockers -> Frames]
  /\ protected \subseteq Files

\* The write bits of a file that is there are off.
Shut(f) == f \in present /\ mode[f] \notin Writable

OneLock == \A l, m \in Lockers : Running(l) /\ Running(m) => l = m

\* The policy file holds what is protected and what was denied when all began;
\* from the read to the write of a lock run, so does the text it will write.
PolicyInv ==
  /\ (\A l \in Lockers : lock[l].pc # "write") =>
       /\ protected \subseteq LoadPolicy(policy).writes
       /\ LoadPolicy(policy).paths = LoadPolicy(initial).paths
  /\ \A l \in Lockers : lock[l].pc \in {"truncate", "write"} =>
       /\ protected \cup lock[l].globs \subseteq LoadPolicy(lock[l].text).writes
       /\ LoadPolicy(lock[l].text).paths = LoadPolicy(initial).paths

\* What the globs of a frame deny: files it has locked, and the scoring pattern.
Accounted(frame) ==
  frame.globs \subseteq frame.done \cup (IF frame.scoring THEN Scoring ELSE {})

\* What a lock run has locked so far stays locked.
LockInv ==
  \A l \in Lockers : Running(l) =>
    /\ Accounted(lock[l])
    /\ \A f \in lock[l].done \cup lock[l].at : Shut(f)

SealInv == \A f \in sealed : Shut(f)

\* A call the hook let through shows and changes nothing it should not.
CallInv ==
  \A a \in Agents : pc[a] = "run" =>
    /\ ~(WritesKnowingly(event[a]) /\ event[a].file \in guarded[a])
    /\ ~(ReadsKnowingly(event[a]) /\ event[a].file \in LoadPolicy(initial).paths)

NoHarm == changed = {} /\ leaked = {}

QuietInv == OneLock /\ PolicyInv /\ LockInv /\ SealInv /\ CallInv /\ NoHarm
CInv == TypeOK /\ (windows = {} => QuietInv)

-----------------------------------------------------------------------------
LEMMA CInvInit == Init => CInv
<1> SUFFICES ASSUME Init PROVE CInv
  OBVIOUS
<1>1. NoFile \in Policies /\ Unparsable \in Policies /\ NotAnObject \in Policies
  BY DEF NoFile, Unparsable, NotAnObject, Content, Missing, Policies, Fields
<1>2. Idle \in Frames
  BY <1>1 DEF Idle, Frames
<1>3. policy \in Policies
  BY <1>1 DEF Init, Initials, NotUtf8, Content, List, Missing, Wrong, Policies, Fields, Files
<1>4. TypeOK
  BY <1>2, <1>3 DEF Init, TypeOK
<1>5. QuietInv
  <2>1. \A l \in Lockers : lock[l].pc = "off"
    BY DEF Init, Idle
  <2>2. QED
    BY <2>1 DEF Init, QuietInv, OneLock, PolicyInv, LockInv, SealInv, CallInv, NoHarm, Running
<1>6. QED
  BY <1>4, <1>5 DEF CInv

-----------------------------------------------------------------------------
(* Agents.                                                                 *)

LEMMA HookStep ==
  ASSUME CInv, NEW a \in Agents, Hook(a)
  PROVE  CInv'
<1> USE DEF CInv
<1>1. UNCHANGED <<world, initial, changed, leaked, lockers>> /\ windows \subseteq windows'
  BY DEF Hook
<1>2. CASE UNCHANGED <<pc, event, guarded>>
  <2>1. TypeOK'
    BY <1>1, <1>2 DEF TypeOK, world, lockers, record
  <2>2. QuietInv => QuietInv'
    BY <1>1, <1>2
    DEF QuietInv, OneLock, PolicyInv, LockInv, SealInv, CallInv, NoHarm, Running, Shut, world,
        lockers, record
  <2>3. QED
    BY <1>1, <2>1, <2>2
<1>3. ASSUME NEW e \in Events, ~Denied(e, LoadPolicy(policy)),
             pc' = [pc EXCEPT ![a] = "run"], event' = [event EXCEPT ![a] = e],
             guarded' = [guarded EXCEPT ![a] = protected]
      PROVE  CInv'
  <2>1. TypeOK'
    BY <1>1, <1>3 DEF TypeOK, world, lockers, record
  <2>2. ASSUME windows' = {}  PROVE QuietInv'
    <3>1. QuietInv
      BY <1>1, <2>2
    <3>2. \A l \in Lockers : lock[l].pc # "write"
      BY <2>2 DEF Hook
    <3>3. /\ protected \subseteq LoadPolicy(policy).writes
          /\ LoadPolicy(policy).paths = LoadPolicy(initial).paths
      BY <3>1, <3>2 DEF QuietInv, PolicyInv
    <3>4. CallInv'
      BY <1>1, <1>3, <3>1, <3>3 DEF QuietInv, CallInv, Denied, TypeOK
    <3>5. QED
      BY <1>1, <3>1, <3>4
      DEF QuietInv, OneLock, PolicyInv, LockInv, SealInv, NoHarm, Running, Shut, world,
          lockers, record
  <2>3. QED
    BY <2>1, <2>2
<1>4. QED
  BY <1>2, <1>3 DEF Hook

\* An allowed call changes no file that stays sealed or that a lock run has
\* locked, or it opens a window; and it writes to none that was sealed.
LEMMA RunSpares ==
  ASSUME CInv, NEW a \in Agents, Run(a), windows' = {}, NEW f, Shut(f),
         \/ f \in sealed'
         \/ \E l \in Lockers : f \in lock[l].at \cup lock[l].done
  PROVE  Shut(f)'
<1> DEFINE e == event[a]
<1>1. windows = {} /\ pc[a] = "run"
  BY DEF Run
<1>2. e \in Events
  BY <1>1 DEF CInv, TypeOK
<1>3. ~(e.file = f /\ e.does # "read" /\ Possible(e))
  <2>1. SUFFICES ASSUME e.file = f, e.does # "read", Possible(e)  PROVE FALSE
    OBVIOUS
  <2>2. e.does # "overwrite"
    BY <2>1 DEF Possible, Shut
  <2>3. Loosens(e)
    BY <1>2, <2>1, <2>2 DEF Events, Loosens
  <2>4. f \notin sealed'
    BY <2>1, <2>3 DEF Run
  <2>5. QED
    BY <2>1, <2>3, <2>4 DEF Run
<1>4. \/ UNCHANGED <<present, mode>>
      \/ /\ Possible(e) /\ e.does # "read"
         /\ present' \in {present \cup {e.file}, present \ {e.file}}
         /\ mode' \in {mode, [mode EXCEPT ![e.file] = "rw"]}
  BY DEF Run
<1>5. CASE UNCHANGED <<present, mode>>
  BY <1>5 DEF Shut
<1>6. CASE e.file # f /\ f \in present' /\ mode'[f] = mode[f]
  BY <1>6 DEF Shut
<1>7. QED
  BY <1>3, <1>4, <1>5, <1>6 DEF Shut, CInv, TypeOK

LEMMA RunStep ==
  ASSUME CInv, NEW a \in Agents, Run(a)
  PROVE  CInv'
<1> DEFINE e == event[a]
<1>1. /\ UNCHANGED <<policy, initial, lock, protected, locks, crashes, calls>>
      /\ windows \subseteq windows' /\ sealed' \subseteq sealed
      /\ pc[a] = "run" /\ pc' = [pc EXCEPT ![a] = "idle"]
      /\ event' = [event EXCEPT ![a] = NoEvent]
      /\ guarded' = [guarded EXCEPT ![a] = {}]
  BY DEF Run
<1>2. TypeOK'
  <2>1. e \in Events
    BY <1>1 DEF CInv, TypeOK
  <2>2. present' \subseteq Files /\ mode' \in [Files -> {"rw", "ro", "wo", "none"}]
    <3>1. e.file \in Files
      BY <2>1 DEF Events
    <3>2. QED
      BY <3>1 DEF CInv, TypeOK, Run
  <2>3. QED
    BY <1>1, <2>2 DEF CInv, TypeOK
<1>3. ASSUME windows' = {}  PROVE QuietInv'
  <2>1. QuietInv
    BY <1>1, <1>3 DEF CInv
  <2>2. OneLock' /\ PolicyInv'
    BY <1>1, <2>1 DEF QuietInv, OneLock, PolicyInv, Running
  <2>3. LockInv'
    BY <1>1, <1>3, <2>1, RunSpares DEF QuietInv, LockInv, Running, Accounted
  <2>4. SealInv'
    BY <1>1, <1>3, <2>1, RunSpares DEF QuietInv, SealInv
  <2>5. CallInv'
    BY <1>1, <2>1 DEF QuietInv, CallInv, CInv, TypeOK
  <2>6. NoHarm'
    <3>1. ~Leaks(e)
      BY <1>1, <2>1 DEF QuietInv, CallInv, Leaks
    <3>2. ~(Possible(e) /\ Tampers(a, e))
      BY <1>1, <2>1 DEF QuietInv, CallInv, SealInv, Tampers, Possible, Shut
    <3>3. QED
      BY <2>1, <3>1, <3>2 DEF QuietInv, NoHarm, Run
  <2>7. QED
    BY <2>2, <2>3, <2>4, <2>5, <2>6 DEF QuietInv
<1>4. QED
  BY <1>2, <1>3 DEF CInv

\* A write to the policy file is a window.
LEMMA RewriteStep ==
  ASSUME CInv, NEW a \in Agents, RewritePolicy(a)
  PROVE  CInv'
<1>1. policy' \in Policies
  <2>1. /\ NoFile \in Policies /\ NotUtf8 \in Policies
        /\ Content("object", List({}), List({})) \in Policies
    BY DEF NoFile, NotUtf8, Content, Missing, List, Policies, Fields
  <2>2. QED
    BY <2>1 DEF RewritePolicy
<1>2. windows' # {}
  BY DEF RewritePolicy
<1>3. QED
  BY <1>1, <1>2 DEF RewritePolicy, CInv, TypeOK, lockers, record

-----------------------------------------------------------------------------
(* Lock runs.                                                              *)

\* What all steps of a lock run have in common: the run is alone, so that the
\* invariant speaks of its frame only.
LEMMA LockFrame ==
  ASSUME TypeOK, OneLock, NEW l \in Lockers, Running(l) \/ Underway = {},
         NEW frame \in Frames, Goto(l, frame)
  PROVE  /\ lock' \in [Lockers -> Frames] /\ lock'[l] = frame /\ OneLock'
         /\ \A m \in Lockers : m # l => ~Running(m) /\ ~Running(m)' /\ lock'[m] = lock[m]
<1>1. /\ lock' \in [Lockers -> Frames] /\ lock'[l] = frame
      /\ \A m \in Lockers : m # l => lock'[m] = lock[m]
  BY DEF TypeOK, Goto
<1>2. \A m \in Lockers : m # l => ~Running(m) /\ ~Running(m)'
  BY <1>1 DEF OneLock, Underway, Running
<1>3. QED
  BY <1>1, <1>2 DEF OneLock

LEMMA IdleFrame == Idle \in Frames
BY DEF Idle, Frames, NoFile, Content, Missing, Policies, Fields

\* A lock run that ends without success leaves what it did and protects
\* nothing; the policy file is whole if it does not end in the write.
LEMMA RaiseStep ==
  ASSUME CInv, NEW l \in Lockers, Running(l), Raise(l), lock[l].pc # "write",
         UNCHANGED <<policy, present, initial, agents, windows>>,
         \/ mode' = mode
         \/ \E f : mode' = [mode EXCEPT ![f] = ReadOnly(@)]
         \/ \E f : mode' = [mode EXCEPT ![f] = "none"]
  PROVE  CInv'
<1> USE DEF CInv
<1>1. TypeOK'
  BY IdleFrame DEF Raise, Goto, TypeOK, agents, record, ReadOnly
<1>2. ASSUME windows = {}  PROVE QuietInv'
  <2>1. /\ lock'[l] = Idle /\ OneLock'
        /\ \A m \in Lockers : m # l => ~Running(m) /\ ~Running(m)' /\ lock'[m] = lock[m]
    BY <1>2, IdleFrame, LockFrame DEF Raise, QuietInv
  <2>2. \A m \in Lockers : lock[m].pc # "write" /\ lock'[m].pc = "off"
    BY <2>1 DEF Running, Idle
  <2>3. PolicyInv' /\ LockInv'
    BY <1>2, <2>2 DEF Raise, record, QuietInv, PolicyInv, LockInv, Running
  <2>4. \A f : Shut(f) => Shut(f)'
    BY DEF Shut, ReadOnly, Writable, TypeOK
  <2>5. SealInv' /\ CallInv' /\ NoHarm'
    BY <1>2, <2>4 DEF Raise, record, agents, QuietInv, SealInv, CallInv, NoHarm
  <2>6. QED
    BY <2>1, <2>3, <2>5 DEF QuietInv
<1>3. QED
  BY <1>1, <1>2

\* A step that leaves the lock run underway, with the new frame.
LEMMA LockMoves ==
  ASSUME CInv, NEW l \in Lockers, Running(l) \/ Underway = {},
         NEW frame \in Frames, Goto(l, frame),
         UNCHANGED <<present, initial, agents, record>>, windows \subseteq windows',
         \/ mode' = mode
         \/ \E f : mode' = [mode EXCEPT ![f] = ReadOnly(@)]
         \/ \E f : mode' = [mode EXCEPT ![f] = "none"],
         policy' \in Policies,
         windows' = {} /\ QuietInv =>
           /\ Accounted(frame)
           /\ \A f \in frame.done \cup frame.at : Shut(f)'
           /\ frame.pc \in {"truncate", "write"} =>
                /\ protected \cup frame.globs \subseteq LoadPolicy(frame.text).writes
                /\ LoadPolicy(frame.text).paths = LoadPolicy(initial).paths
           /\ frame.pc # "write" => policy' = policy /\ lock[l].pc # "write"
  PROVE  CInv'
<1> USE DEF CInv
<1>1. TypeOK'
  BY DEF Goto, TypeOK, agents, record, ReadOnly
<1>2. ASSUME windows' = {}  PROVE QuietInv'
  <2>1. QuietInv
    BY <1>2
  <2>2. /\ lock'[l] = frame /\ OneLock'
        /\ \A m \in Lockers : m # l => ~Running(m) /\ ~Running(m)' /\ lock'[m] = lock[m]
    BY <2>1, LockFrame DEF QuietInv
  <2>3. LockInv'
    BY <1>2, <2>1, <2>2 DEF LockInv, Running
  <2>4. PolicyInv'
    <3>1. UNCHANGED <<protected, initial>>
      BY DEF record
    <3>2. \A m \in Lockers : m # l => lock'[m].pc = "off" /\ lock[m].pc = "off"
      BY <2>2 DEF Running
    <3>3. QED
      BY <1>2, <2>1, <2>2, <3>1, <3>2 DEF QuietInv, PolicyInv
  <2>5. \A f : Shut(f) => Shut(f)'
    BY DEF Shut, ReadOnly, Writable, TypeOK
  <2>6. SealInv' /\ CallInv' /\ NoHarm'
    BY <2>1, <2>5 DEF record, agents, QuietInv, SealInv, CallInv, NoHarm
  <2>7. QED
    BY <2>2, <2>3, <2>4, <2>6 DEF QuietInv
<1>3. QED
  BY <1>1, <1>2

\* A step with which a lock run returns: what counts as protected from now on
\* is in the policy file.
LEMMA ReturnStep ==
  ASSUME CInv, NEW l \in Lockers, Running(l), Return(l),
         UNCHANGED <<present, mode, initial, agents, windows>>, policy' \in Policies,
         windows = {} /\ QuietInv =>
           /\ protected \subseteq LoadPolicy(policy').writes
           /\ lock[l].augment => lock[l].globs \subseteq LoadPolicy(policy').writes
           /\ LoadPolicy(policy').paths = LoadPolicy(initial).paths
  PROVE  CInv'
<1> USE DEF CInv
<1>1. Goto(l, Idle) /\ Idle \in Frames
  BY IdleFrame DEF Return
<1>2. \/ UNCHANGED record
      \/ /\ lock[l].augment /\ protected' = protected \cup lock[l].globs
         /\ sealed' = sealed \cup lock[l].done
  BY DEF Return
<1>3. lock[l].globs \subseteq Files
  BY DEF TypeOK, Frames
<1>4. TypeOK'
  BY <1>1, <1>2, <1>3 DEF Goto, TypeOK, agents, record
<1>5. ASSUME windows = {}  PROVE QuietInv'
  <2>1. /\ lock'[l] = Idle /\ OneLock'
        /\ \A m \in Lockers : m # l => ~Running(m) /\ ~Running(m)' /\ lock'[m] = lock[m]
    BY <1>1, <1>5, LockFrame DEF QuietInv
  <2>2. \A m \in Lockers : lock'[m].pc = "off"
    BY <2>1 DEF Running, Idle
  <2>3. PolicyInv' /\ LockInv'
    BY <1>2, <1>5, <2>2 DEF record, QuietInv, PolicyInv, LockInv, Running
  <2>4. \A f : Shut(f) => Shut(f)'
    BY DEF Shut
  <2>5. \A f \in lock[l].done : Shut(f)
    BY <1>5 DEF QuietInv, LockInv
  <2>6. SealInv'
    BY <1>2, <1>5, <2>4, <2>5 DEF record, QuietInv, SealInv
  <2>7. CallInv' /\ NoHarm'
    BY <1>5 DEF agents, QuietInv, CallInv, NoHarm
  <2>8. QED
    BY <2>1, <2>3, <2>6, <2>7 DEF QuietInv
<1>6. QED
  BY <1>4, <1>5

\* While a lock run that is not writing is underway, no other one is, and so
\* the policy file is whole.
LEMMA PolicyIsWhole ==
  ASSUME QuietInv, NEW l \in Lockers, Running(l), lock[l].pc # "write"
  PROVE  /\ protected \subseteq LoadPolicy(policy).writes
         /\ LoadPolicy(policy).paths = LoadPolicy(initial).paths
<1>1. \A m \in Lockers : lock[m].pc # "write"
  BY DEF QuietInv, OneLock, Running
<1>2. QED
  BY <1>1 DEF QuietInv, PolicyInv

LEMMA StartLockStep ==
  ASSUME CInv, NEW l \in Lockers, StartLock(l)
  PROVE  CInv'
<1>1. PICK scoring, hidden, augment \in BOOLEAN :
        lock' = [lock EXCEPT ![l] =
          [Idle EXCEPT !.pc = "tests", !.todo = present \cap Tests, !.scoring = scoring,
                       !.hidden = hidden, !.augment = augment]]
  BY DEF StartLock
<1> DEFINE frame == [Idle EXCEPT !.pc = "tests", !.todo = present \cap Tests,
                       !.scoring = scoring, !.hidden = hidden, !.augment = augment]
<1>2. frame \in Frames
  BY IdleFrame DEF Frames, CInv, TypeOK
<1>3. UNCHANGED <<world, initial, agents, record>> /\ windows \subseteq windows'
  BY DEF StartLock
<1>4. CASE windows' = {}
  <2>1. Underway = {} /\ windows = {}
    BY <1>4 DEF StartLock
  <2>2. Goto(l, frame) /\ policy' \in Policies
    BY <1>1, <1>3 DEF Goto, CInv, TypeOK, world
  <2>3. /\ frame.done = {} /\ frame.at = {} /\ frame.pc = "tests" /\ lock[l].pc # "write"
        /\ Accounted(frame)
    BY <2>1 DEF Idle, Underway, Running, Accounted
  <2>4. QED
    BY <1>2, <1>3, <2>1, <2>2, <2>3, LockMoves DEF world
<1>5. CASE windows' # {}
  BY <1>1, <1>2, <1>3, <1>5 DEF CInv, TypeOK, world, agents, record
<1>6. QED
  BY <1>4, <1>5

LEMMA LockTestStep ==
  ASSUME CInv, NEW l \in Lockers, LockTest(l)
  PROVE  CInv'
<1>1. /\ lock[l].pc = "tests" /\ Running(l) /\ lock[l] \in Frames
      /\ UNCHANGED <<present, policy, initial, agents, windows>> /\ policy' \in Policies
  BY DEF LockTest, Running, CInv, TypeOK
<1>2. PICK f \in lock[l].todo :
        \/ Raise(l) /\ UNCHANGED mode
        \/ /\ f \in present /\ mode' = [mode EXCEPT ![f] = ReadOnly(@)]
           /\ Goto(l, [lock[l] EXCEPT !.pc = "verify", !.at = {f}])
           /\ UNCHANGED record
  BY DEF LockTest
<1>3. CASE Raise(l) /\ UNCHANGED mode
  BY <1>1, <1>3, RaiseStep
<1>4. CASE /\ f \in present /\ mode' = [mode EXCEPT ![f] = ReadOnly(@)]
           /\ Goto(l, [lock[l] EXCEPT !.pc = "verify", !.at = {f}])
           /\ UNCHANGED record
  <2> DEFINE frame == [lock[l] EXCEPT !.pc = "verify", !.at = {f}]
  <2>1. f \in Files /\ frame \in Frames
    BY <1>1 DEF Frames
  <2>2. Shut(f)' /\ \A g : Shut(g) => Shut(g)'
    BY <1>1, <1>4, <2>1 DEF Shut, ReadOnly, Readable, Writable, CInv, TypeOK
  <2>3. QuietInv => /\ Accounted(frame)
                    /\ \A g \in frame.done \cup frame.at : Shut(g)'
    BY <1>1, <2>2 DEF QuietInv, LockInv, Accounted, Frames
  <2>4. frame.pc = "verify"
    BY <1>1 DEF Frames
  <2>5. QED
    BY <1>1, <1>4, <2>1, <2>3, <2>4, LockMoves
<1>5. QED
  BY <1>2, <1>3, <1>4

LEMMA VerifyTestStep ==
  ASSUME CInv, NEW l \in Lockers, VerifyTest(l)
  PROVE  CInv'
<1>1. /\ lock[l].pc = "verify" /\ Running(l) /\ lock[l] \in Frames
      /\ UNCHANGED <<world, initial, agents, record, windows>> /\ policy' \in Policies
  BY DEF VerifyTest, Running, CInv, TypeOK, world
<1>2. PICK denied \in SUBSET lock[l].at :
        Goto(l, [lock[l] EXCEPT !.pc = "tests", !.todo = @ \ lock[l].at, !.at = {},
                   !.globs = @ \cup denied, !.done = @ \cup lock[l].at,
                   !.failed = @ \/ \E f \in lock[l].at : ~Refused(f)])
  BY DEF VerifyTest
<1> DEFINE frame == [lock[l] EXCEPT !.pc = "tests", !.todo = @ \ lock[l].at, !.at = {},
                       !.globs = @ \cup denied, !.done = @ \cup lock[l].at,
                       !.failed = @ \/ \E f \in lock[l].at : ~Refused(f)]
<1>3. frame \in Frames
  BY <1>1 DEF Frames
<1>4. /\ frame.pc = "tests" /\ frame.at = {} /\ frame.done = lock[l].done \cup lock[l].at
      /\ frame.globs = lock[l].globs \cup denied /\ frame.scoring = lock[l].scoring
  BY <1>1 DEF Frames
<1>5. QuietInv => /\ Accounted(frame)
                  /\ \A g \in frame.done \cup frame.at : Shut(g)'
  BY <1>1, <1>4 DEF QuietInv, LockInv, Accounted, Shut, world
<1>6. QED
  BY <1>1, <1>2, <1>3, <1>4, <1>5, LockMoves DEF world

LEMMA TestsLockedStep ==
  ASSUME CInv, NEW l \in Lockers, TestsLocked(l)
  PROVE  CInv'
<1>1. /\ lock[l].pc = "tests" /\ Running(l) /\ lock[l] \in Frames
      /\ UNCHANGED <<world, initial, agents, record, windows>> /\ policy' \in Policies
  BY DEF TestsLocked, Running, CInv, TypeOK, world
<1> lock[l].scoring
  BY DEF TestsLocked
<1> DEFINE frame == [lock[l] EXCEPT !.pc = "scoring", !.todo = present \cap Scoring,
                                    !.globs = @ \cup Scoring]
<1>2. Goto(l, frame)
  BY DEF TestsLocked
<1>3. frame \in Frames
  BY <1>1 DEF Frames, Files
<1>4. /\ frame.pc = "scoring" /\ frame.at = lock[l].at /\ frame.done = lock[l].done
      /\ frame.globs = lock[l].globs \cup Scoring /\ frame.scoring
  BY <1>1 DEF Frames
<1>5. QuietInv => /\ Accounted(frame)
                  /\ \A g \in frame.done \cup frame.at : Shut(g)'
  BY <1>1, <1>4 DEF QuietInv, LockInv, Accounted, Shut, world
<1>6. QED
  BY <1>1, <1>2, <1>3, <1>4, <1>5, LockMoves DEF world

LEMMA SealScoringStep ==
  ASSUME CInv, NEW l \in Lockers, SealScoring(l)
  PROVE  CInv'
<1>1. /\ lock[l].pc = "scoring" /\ Running(l) /\ lock[l] \in Frames
      /\ UNCHANGED <<present, policy, initial, agents, windows>> /\ policy' \in Policies
  BY DEF SealScoring, Running, CInv, TypeOK
<1>2. PICK f \in lock[l].todo :
        \/ Raise(l) /\ UNCHANGED mode
        \/ /\ f \in present
           /\ mode' = [mode EXCEPT ![f] = IF lock[l].hidden THEN "none" ELSE ReadOnly(@)]
           /\ Goto(l, [lock[l] EXCEPT !.todo = @ \ {f}, !.done = @ \cup {f}])
           /\ UNCHANGED record
  BY DEF SealScoring
<1>3. CASE Raise(l) /\ UNCHANGED mode
  BY <1>1, <1>3, RaiseStep
<1>4. CASE /\ f \in present
           /\ mode' = [mode EXCEPT ![f] = IF lock[l].hidden THEN "none" ELSE ReadOnly(@)]
           /\ Goto(l, [lock[l] EXCEPT !.todo = @ \ {f}, !.done = @ \cup {f}])
           /\ UNCHANGED record
  <2> DEFINE frame == [lock[l] EXCEPT !.todo = @ \ {f}, !.done = @ \cup {f}]
  <2>1. f \in Files /\ frame \in Frames
    BY <1>1 DEF Frames
  <2>2. Shut(f)' /\ \A g : Shut(g) => Shut(g)'
    BY <1>1, <1>4, <2>1 DEF Shut, ReadOnly, Readable, Writable, CInv, TypeOK
  <2>3. /\ frame.pc = "scoring" /\ frame.at = lock[l].at
        /\ frame.done = lock[l].done \cup {f} /\ frame.scoring = lock[l].scoring
        /\ frame.globs = lock[l].globs
    BY <1>1 DEF Frames
  <2>4. QuietInv => /\ Accounted(frame)
                    /\ \A g \in frame.done \cup frame.at : Shut(g)'
    BY <1>1, <2>2, <2>3 DEF QuietInv, LockInv, Accounted
  <2>5. \/ mode' = [mode EXCEPT ![f] = ReadOnly(@)]
        \/ mode' = [mode EXCEPT ![f] = "none"]
    BY <1>4
  <2>6. QED
    BY <1>1, <1>4, <2>1, <2>3, <2>4, <2>5, LockMoves
<1>5. QED
  BY <1>2, <1>3, <1>4

\* write_policy_augmentation keeps what the file denied already.
LEMMA MergedKeeps ==
  ASSUME NEW file \in Policies, NEW writes \in SUBSET Files, file.kind \notin Unusable
  PROVE  /\ Merged(file, writes) \in Policies
         /\ writes \cup LoadPolicy(file).writes \subseteq LoadPolicy(Merged(file, writes)).writes
         /\ LoadPolicy(Merged(file, writes)).paths = LoadPolicy(file).paths
<1>1. file.paths \in Fields /\ file.writes \in Fields
  BY DEF Policies
<1>2. Merged(file, writes) \in Policies
  BY <1>1 DEF Merged, Content, List, Missing, Policies, Fields
<1>3. QED
  BY <1>1, <1>2 DEF Merged, Content, List, Missing, LoadPolicy, Field, Unusable

LEMMA ReadPolicyStep ==
  ASSUME CInv, NEW l \in Lockers, ReadPolicy(l)
  PROVE  CInv'
<1>1. /\ lock[l].pc \in {"scoring", "tests"} /\ Running(l) /\ lock[l] \in Frames
      /\ lock[l].pc # "write" /\ policy' \in Policies
      /\ UNCHANGED <<world, initial, agents, windows>>
  BY DEF ReadPolicy, LocksDone, Running, CInv, TypeOK, world
<1>2. CASE Return(l) /\ (~lock[l].augment \/ (lock[l].done = {} /\ ~lock[l].scoring))
  <2>1. QuietInv /\ lock[l].augment => lock[l].globs = {}
    BY <1>1, <1>2 DEF QuietInv, LockInv, Accounted
  <2>2. QED
    BY <1>1, <1>2, <2>1, PolicyIsWhole, ReturnStep DEF world
<1>3. CASE Raise(l)
  BY <1>1, <1>3, RaiseStep DEF world
<1>4. ASSUME NEW garbage \in {{}, Files}, policy.kind \notin Unusable,
             Goto(l, [lock[l] EXCEPT !.pc = "truncate", !.text =
                   Merged(policy, lock[l].globs \cup garbage)]),
             UNCHANGED record
      PROVE  CInv'
  <2> DEFINE text == Merged(policy, lock[l].globs \cup garbage)
  <2> DEFINE frame == [lock[l] EXCEPT !.pc = "truncate", !.text = text]
  <2>1. /\ text \in Policies
        /\ lock[l].globs \cup LoadPolicy(policy).writes \subseteq LoadPolicy(text).writes
        /\ LoadPolicy(text).paths = LoadPolicy(policy).paths
    <3>1. lock[l].globs \cup garbage \in SUBSET Files /\ policy \in Policies
      BY <1>1 DEF Frames, CInv, TypeOK
    <3>2. QED
      BY <1>4, <3>1, MergedKeeps
  <2> HIDE DEF text
  <2>2. frame \in Frames
    BY <1>1, <2>1 DEF Frames
  <2>3. /\ frame.pc = "truncate" /\ frame.text = text
        /\ frame.globs = lock[l].globs /\ frame.done = lock[l].done /\ frame.at = lock[l].at
        /\ frame.scoring = lock[l].scoring
    BY <1>1 DEF Frames
  <2>4. QuietInv => /\ Accounted(frame)
                    /\ \A g \in frame.done \cup frame.at : Shut(g)'
                    /\ protected \cup frame.globs \subseteq LoadPolicy(frame.text).writes
                    /\ LoadPolicy(frame.text).paths = LoadPolicy(initial).paths
    BY <1>1, <2>1, <2>3, PolicyIsWhole DEF QuietInv, LockInv, Accounted, Shut, world
  <2>5. Goto(l, frame)
    BY <1>4 DEF text
  <2>6. QED
    BY <1>1, <1>4, <2>2, <2>3, <2>4, <2>5, LockMoves DEF world
<1>5. QED
  BY <1>2, <1>3, <1>4 DEF ReadPolicy

LEMMA TruncateStep ==
  ASSUME CInv, NEW l \in Lockers, Truncate(l)
  PROVE  CInv'
<1>1. /\ lock[l].pc = "truncate" /\ Running(l) /\ lock[l] \in Frames
      /\ UNCHANGED <<present, mode, initial, agents, record, windows>>
  BY DEF Truncate, Running, CInv, TypeOK
<1>2. policy' \in Policies
  BY DEF Truncate, Unparsable, Content, Missing, Policies, Fields
<1> DEFINE frame == [lock[l] EXCEPT !.pc = "write"]
<1>3. Goto(l, frame)
  BY DEF Truncate
<1>4. frame \in Frames
  BY <1>1 DEF Frames
<1>5. /\ frame.pc = "write" /\ frame.text = lock[l].text
      /\ frame.globs = lock[l].globs /\ frame.done = lock[l].done /\ frame.at = lock[l].at
        /\ frame.scoring = lock[l].scoring
  BY <1>1 DEF Frames
<1>6. QuietInv => /\ Accounted(frame)
                  /\ \A g \in frame.done \cup frame.at : Shut(g)'
                  /\ protected \cup frame.globs \subseteq LoadPolicy(frame.text).writes
                  /\ LoadPolicy(frame.text).paths = LoadPolicy(initial).paths
  BY <1>1, <1>5 DEF QuietInv, LockInv, Accounted, PolicyInv, Shut
<1>7. QED
  BY <1>1, <1>2, <1>3, <1>4, <1>5, <1>6, LockMoves

LEMMA WritePolicyStep ==
  ASSUME CInv, NEW l \in Lockers, WritePolicy(l)
  PROVE  CInv'
<1>1. /\ lock[l].pc = "write" /\ Running(l) /\ policy' = lock[l].text /\ Return(l)
      /\ UNCHANGED <<present, mode, initial, agents, windows>>
  BY DEF WritePolicy, Running
<1>2. policy' \in Policies
  BY <1>1 DEF CInv, TypeOK, Frames
<1>3. QuietInv => /\ protected \cup lock[l].globs \subseteq LoadPolicy(policy').writes
                  /\ LoadPolicy(policy').paths = LoadPolicy(initial).paths
  BY <1>1 DEF QuietInv, PolicyInv
<1>4. QED
  BY <1>1, <1>2, <1>3, ReturnStep

LEMMA CrashStep ==
  ASSUME CInv, NEW l \in Lockers, Crash(l)
  PROVE  CInv'
<1>1. Running(l) /\ Raise(l) /\ UNCHANGED <<world, initial, agents>>
  BY DEF Crash
<1>2. CASE lock[l].pc = "write"
  <2>1. windows' # {}
    BY <1>2 DEF Crash
  <2>2. QED
    BY <1>1, <2>1, IdleFrame DEF Raise, Goto, CInv, TypeOK, world, agents, record
<1>3. CASE lock[l].pc # "write"
  <2>1. UNCHANGED windows
    BY <1>3 DEF Crash
  <2>2. QED
    BY <1>1, <1>3, <2>1, RaiseStep DEF world
<1>4. QED
  BY <1>2, <1>3

\* The operator's own step: the file is no longer sealed, but still denied.
LEMMA MakeWritableStep ==
  ASSUME CInv, NEW f \in Files, MakeWritable(f)
  PROVE  CInv'
<1>1. /\ UNCHANGED <<present, policy, initial, agents, lock, protected, windows>>
      /\ Underway = {} /\ sealed' = sealed \ {f}
      /\ \A g : g # f /\ Shut(g) => Shut(g)'
  <2>1. \A g \in Files : g # f => mode'[g] = mode[g]
    BY DEF MakeWritable, CInv, TypeOK
  <2>2. QED
    BY <2>1 DEF MakeWritable, Shut, CInv, TypeOK
<1>2. TypeOK'
  BY <1>1 DEF MakeWritable, CInv, TypeOK, agents
<1>3. QuietInv => QuietInv'
  <2>1. SUFFICES ASSUME QuietInv PROVE QuietInv'
    OBVIOUS
  <2>2. \A l \in Lockers : ~Running(l) /\ ~Running(l)'
    BY <1>1 DEF Underway, Running
  <2>3. OneLock' /\ PolicyInv' /\ LockInv'
    BY <1>1, <2>1, <2>2 DEF QuietInv, OneLock, PolicyInv, LockInv
  <2>4. SealInv' /\ CallInv' /\ NoHarm'
    BY <1>1, <2>1 DEF QuietInv, SealInv, CallInv, NoHarm, agents
  <2>5. QED
    BY <2>3, <2>4 DEF QuietInv
<1>4. QED
  BY <1>1, <1>2, <1>3 DEF CInv

-----------------------------------------------------------------------------
LEMMA CInvNext == CInv /\ [Next]_vars => CInv'
<1> SUFFICES ASSUME CInv, [Next]_vars PROVE CInv'
  OBVIOUS
<1>1. CASE UNCHANGED vars
  BY <1>1
  DEF CInv, TypeOK, QuietInv, OneLock, PolicyInv, LockInv, SealInv, CallInv, NoHarm, Running,
      Shut, vars, world, agents, record, lockers
<1>2. ASSUME NEW f \in Files, MakeWritable(f) PROVE CInv'
  BY <1>2, MakeWritableStep
<1>3. ASSUME NEW a \in Agents, Hook(a) \/ Run(a) \/ RewritePolicy(a) PROVE CInv'
  BY <1>3, HookStep, RunStep, RewriteStep
<1>4. ASSUME NEW l \in Lockers,
             \/ StartLock(l) \/ LockTest(l) \/ VerifyTest(l)
             \/ TestsLocked(l) \/ SealScoring(l) \/ ReadPolicy(l)
             \/ Truncate(l) \/ WritePolicy(l) \/ Crash(l)
      PROVE  CInv'
  BY <1>4, StartLockStep, LockTestStep, VerifyTestStep, TestsLockedStep, SealScoringStep,
     ReadPolicyStep, TruncateStep, WritePolicyStep, CrashStep
<1>5. QED
  BY <1>1, <1>2, <1>3, <1>4 DEF Next

\* The inductive invariant itself: types in every state, the rest until a
\* window opens.
THEOREM ContainmentInvariant == Spec => []CInv
BY CInvInit, CInvNext, PTL DEF Spec

\* ProtectedUnchanged, for any number of agents and lock runs: neither a call
\* that shows it, nor an open for writing while nobody has loosened the file,
\* changes one that a lock run with status 0 protects, if no window was open.
THEOREM ProtectedStays == Spec => []ProtectedUnchanged
<1>1. CInv => ProtectedUnchanged
  BY DEF CInv, QuietInv, NoHarm, ProtectedUnchanged
<1>2. QED
  BY <1>1, ContainmentInvariant, PTL

\* ProtectedStaysDenied: between lock runs, and in one until it writes, the
\* policy file denies whatever an earlier lock run put in it.
THEOREM ProtectedIsDenied == Spec => []ProtectedStaysDenied
<1>1. CInv => ProtectedStaysDenied
  BY DEF CInv, QuietInv, PolicyInv, ProtectedStaysDenied
<1>2. QED
  BY <1>1, ContainmentInvariant, PTL

\* NothingLeaks: lock runs never loosen what the policy denied when all began.
THEOREM NothingIsLeaked == Spec => []NothingLeaks
<1>1. CInv => NothingLeaks
  BY DEF CInv, QuietInv, NoHarm, NothingLeaks
<1>2. QED
  BY <1>1, ContainmentInvariant, PTL
=============================================================================
