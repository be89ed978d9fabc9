---------------------------- MODULE Containment ----------------------------
(***************************************************************************)
(* How stage 0 keeps agents off the tests (harness/stage0_verification):   *)
(* `awh lock` (readonly.py, cli.py _cmd_lock) takes the write bits of the  *)
(* test and scoring files and adds them to .awh/policy.json; the           *)
(* PreToolUse hook (pretooluse_deny.py) loads that policy (config.py) for  *)
(* every tool call of an agent and decides (policy.py).  Lock runs and     *)
(* agents share the tree and take no lock.                                 *)
(*                                                                         *)
(* A glob list stands for the set of files it matches.  Agents do what the *)
(* module promises to stop (edits by tool, commands that name the file and *)
(* say what they do) and what it does not: commands on a directory, a shell*)
(* glob or a name of the program's own, and writes to the policy file.  The*)
(* destructive-command list is read like the list of secrets and left out. *)
(***************************************************************************)
EXTENDS Naturals, FiniteSets

CONSTANTS Agents, Lockers,
          Tests, Scoring, Secrets, Others,  \* the files, by what globs match them
          MaxCalls,                         \* bound: tool calls
          MaxLocks,                         \* bound: runs of awh lock
          MaxCrashes                        \* bound: lock runs that die

ASSUME ContainmentAssumption ==
    /\ MaxCalls \in Nat /\ MaxLocks \in Nat /\ MaxCrashes \in Nat

Files == Tests \cup Scoring \cup Secrets \cup Others

VARIABLES present, mode,   \* the files that exist; each one's access bits
          policy, initial, \* .awh/policy.json, now and when all began
          pc, event,       \* each agent: its place, the call it makes
          lock,            \* the frame of each lock run
          protected,       \* history: files that successful lock runs deny
          sealed,          \* history: those whose write bits they cleared, and
                           \* that no call or operator has loosened since
          guarded,         \* history: protected, when the agent's hook decided
          changed, leaked, \* history: calls that should have been stopped
          windows,         \* history: the gaps that were open at some point
          calls, locks, crashes

world == <<present, mode, policy>>
agents == <<pc, event, guarded, changed, leaked, calls>>
record == <<protected, sealed>>
lockers == <<lock, record, locks, crashes>>
vars == <<world, initial, agents, lockers, windows>>

-----------------------------------------------------------------------------
(* Policy files.  A field is a list of strings, missing, or of a wrong type.*)
List(files) == [form |-> "list", files |-> files]
Missing == [form |-> "missing", files |-> {}]
Wrong == [form |-> "wrong", files |-> {}]
Content(kind, paths, writes) == [kind |-> kind, paths |-> paths, writes |-> writes]
NoFile == Content("none", Missing, Missing)
Unparsable == Content("broken", Missing, Missing)   \* an empty file, for one
NotAnObject == Content("other", Missing, Missing)
NotUtf8 == Content("undecodable", Missing, Missing)

(* (Mutant: one field of a wrong type makes the whole file count for nothing *)
(* and leaves the lists empty.)                                            *)
FieldOrEmpty(file, field, default) ==
    IF file.kind # "object" THEN default ELSE field.files

(* from_dict: a field that is not a list of strings is the default's.      *)
Field(file, field, default) ==
    IF file.kind = "object" /\ field.form = "list" THEN field.files ELSE default

(* load_policy: a file that does not parse, is no object or is not there   *)
(* stands for the defaults.  One that is not UTF-8 raises what nobody      *)
(* catches: the hook ends with status 1, which denies no call.             *)
LoadPolicy(file) ==
    IF file.kind = "undecodable" THEN [paths |-> {}, writes |-> {}]
    ELSE [paths  |-> Field(file, file.paths, Secrets),
          writes |-> Field(file, file.writes, {})]

(* Tool calls: what the hook sees (the tool, the kinds of command words,   *)
(* whether a word of it matches the file), and what the call does to which *)
(* file.  A directory (rm -r tests), a shell glob (sed -i .. tests/x*.py)  *)
(* or a script that holds the name is no such word.  "replace" is rm, or a *)
(* write beside the file and a rename; a chmod does no more than that.     *)
Events ==
    {e \in [tool : {"Read", "Write", "Bash"}, words : SUBSET {"touch", "write"},
            named : BOOLEAN, file : Files,
            does : {"read", "overwrite", "replace"}] :
        /\ e.tool = "Read" => e.named /\ e.words = {} /\ e.does = "read"
        /\ e.tool = "Write" => e.named /\ e.words = {} /\ e.does = "overwrite"
        /\ ~e.named => e.words = {}}     \* they decide nothing then

ReadsKnowingly(e) == e.named /\ (e.tool # "Bash" \/ "touch" \in e.words)
WritesKnowingly(e) ==
    e.named /\ (e.tool = "Write" \/ (e.tool = "Bash" /\ "write" \in e.words))

(* (Mutant: the read-only rule is applied to the file tools only.)         *)
DeniedToTools(e, p) ==
    \/ ReadsKnowingly(e) /\ e.file \in p.paths
    \/ e.tool = "Write" /\ e.file \in p.writes

(* evaluate_event.                                                         *)
Denied(e, p) == \/ ReadsKnowingly(e) /\ e.file \in p.paths
                \/ WritesKnowingly(e) /\ e.file \in p.writes

-----------------------------------------------------------------------------
Initials == {NoFile, Unparsable, NotAnObject, NotUtf8} \cup
            {Content("object", p, w) : p \in {Wrong, List(Secrets \cup Others)},
                                       w \in {Missing, Wrong}}
Idle == [pc |-> "off", todo |-> {}, at |-> {}, scoring |-> FALSE, hidden |-> FALSE,
         augment |-> FALSE, globs |-> {}, done |-> {}, failed |-> FALSE, text |-> NoFile]
NoEvent == CHOOSE e \in Events : TRUE

Init == /\ present \in {Files, Files \ Tests} /\ mode = [f \in Files |-> "rw"]
        /\ policy \in Initials /\ initial = policy
        /\ pc = [a \in Agents |-> "idle"]
        /\ event = [a \in Agents |-> NoEvent]
        /\ guarded = [a \in Agents |-> {}]
        /\ lock = [l \in Lockers |-> Idle]
        /\ protected = {} /\ sealed = {} /\ changed = {} /\ leaked = {} /\ windows = {}
        /\ calls = 0 /\ locks = 0 /\ crashes = 0

Running(l) == lock[l].pc # "off"
Underway == {l \in Lockers : Running(l)}

-----------------------------------------------------------------------------
(* An agent's tool call: the hook (main) decides on the policy it finds,   *)
(* and the host makes an allowed call some time later.                     *)
Hook(a) ==
    /\ pc[a] = "idle"
    /\ \E e \in Events :
          IF Denied(e, LoadPolicy(policy))
            THEN UNCHANGED <<pc, event, guarded, calls>>
            ELSE /\ calls < MaxCalls /\ calls' = calls + 1
                 /\ pc' = [pc EXCEPT ![a] = "run"]
                 /\ event' = [event EXCEPT ![a] = e]
                 /\ guarded' = [guarded EXCEPT ![a] = protected]
    /\ windows' = windows \cup
          IF \E l \in Lockers : lock[l].pc = "write" THEN {"half-written policy"} ELSE {}
    /\ UNCHANGED <<world, initial, changed, leaked, lockers>>

Readable == {"rw", "ro"}
Writable == {"rw", "wo"}

(* What the file system lets the call do: a write needs the write bit of a *)
(* file that is there; a replacement does not.                             *)
Possible(e) == CASE e.does = "read" -> e.file \in present /\ mode[e.file] \in Readable
                 [] e.does = "overwrite" -> e.file \in present => mode[e.file] \in Writable
                 [] e.does = "replace" -> TRUE

(* A change that should have been stopped: a knowing one of a file that was *)
(* denied when the hook decided, or an open for writing of a file whose    *)
(* write bits were cleared and that nobody has loosened since.             *)
Tampers(a, e) ==
    \/ e.does # "read" /\ WritesKnowingly(e) /\ e.file \in guarded[a]
    \/ e.does = "overwrite" /\ e.file \in sealed

Loosens(e) == e.does = "replace"

(* A read that shows what it is, of a file denied when all began.          *)
Leaks(e) == e.does = "read" /\ ReadsKnowingly(e) /\ e.file \in LoadPolicy(initial).paths

Run(a) ==
    LET e == event[a] IN
    /\ pc[a] = "run"
    /\ pc' = [pc EXCEPT ![a] = "idle"] /\ event' = [event EXCEPT ![a] = NoEvent]
    /\ guarded' = [guarded EXCEPT ![a] = {}]
    /\ IF ~Possible(e) THEN UNCHANGED <<present, mode, changed, leaked>>
       ELSE /\ IF e.does = "read" THEN UNCHANGED <<present, mode>>
               ELSE \/ /\ present' = present \cup {e.file}
                       /\ mode' = [mode EXCEPT ![e.file] = "rw"]
                    \/ /\ e.does = "replace"   \* rm
                       /\ present' = present \ {e.file} /\ UNCHANGED mode
            /\ changed' = IF Tampers(a, e) THEN changed \cup {e.file}
                                                    ELSE changed
            /\ leaked' = IF Leaks(e) THEN leaked \cup {e.file} ELSE leaked
    /\ sealed' = IF Loosens(e) THEN sealed \ {e.file} ELSE sealed
    /\ windows' = windows \cup
          IF Loosens(e) /\ \E l \in Lockers : e.file \in lock[l].at \cup lock[l].done
            THEN {"undone while locking"} ELSE {}
    /\ UNCHANGED <<policy, initial, lock, protected, locks, crashes, calls>>

(* No rule denies an agent the policy file.                                *)
RewritePolicy(a) ==
    /\ pc[a] = "idle" /\ calls < MaxCalls
    /\ calls' = calls + 1
    /\ policy' \in {NoFile, NotUtf8, Content("object", List({}), List({}))}
    /\ windows' = windows \cup {"policy rewritten by an agent"}
    /\ UNCHANGED <<present, mode, initial, pc, event, guarded, changed, leaked, lockers>>

-----------------------------------------------------------------------------
(* A run of awh lock [--scoring] [--hidden] [--write-policy].              *)
StartLock(l) ==
    /\ ~Running(l) /\ locks < MaxLocks
    /\ locks' = locks + 1
    /\ \E scoring, hidden, augment \in BOOLEAN :
          /\ hidden => scoring
          /\ lock' = [lock EXCEPT ![l] =
                [Idle EXCEPT !.pc = "tests", !.todo = present \cap Tests,
                   !.scoring = scoring, !.hidden = hidden, !.augment = augment]]
    /\ windows' = windows \cup IF Underway # {} THEN {"two lock runs"} ELSE {}
    /\ UNCHANGED <<world, initial, agents, record, crashes>>

Goto(l, frame) == lock' = [lock EXCEPT ![l] = frame]

(* It ends, by an exception or in a report; with status 0, what it locked  *)
(* and denied counts as protected.                                         *)
Raise(l) == Goto(l, Idle) /\ UNCHANGED record
Return(l) == /\ Goto(l, Idle)
             /\ IF lock[l].augment /\ ~lock[l].failed
                  THEN /\ protected' = protected \cup lock[l].globs
                       /\ sealed' = sealed \cup lock[l].done
                  ELSE UNCHANGED record

(* make_readonly clears the write bits and leaves the others.              *)
ReadOnly(bits) == IF bits \in Readable THEN "ro" ELSE "none"

(* make_readonly of the next test file; it raises if the file has gone.    *)
LockTest(l) ==
    /\ lock[l].pc = "tests"
    /\ \E f \in lock[l].todo :
          IF f \notin present THEN Raise(l) /\ UNCHANGED mode
          ELSE /\ mode' = [mode EXCEPT ![f] = ReadOnly(@)]
               /\ Goto(l, [lock[l] EXCEPT !.pc = "verify", !.at = {f}])
               /\ UNCHANGED record
    /\ UNCHANGED <<present, policy, initial, agents, locks, crashes, windows>>

(* verify_unwritable: an open for writing that must be refused.  The name  *)
(* of the file is added as a glob, which denies the file unless it has [ ] *)
(* in it; either may be the case.                                          *)
Refused(f) == f \in present /\ mode[f] \notin Writable
VerifyTest(l) ==
    /\ lock[l].pc = "verify"
    /\ \E denied \in SUBSET lock[l].at :
          Goto(l, [lock[l] EXCEPT !.pc = "tests", !.todo = @ \ lock[l].at, !.at = {},
                     !.globs = @ \cup denied, !.done = @ \cup lock[l].at,
                     !.failed = @ \/ \E f \in lock[l].at : ~Refused(f)])
    /\ UNCHANGED <<world, initial, agents, record, locks, crashes, windows>>

(* The second walk: the whole scoring pattern is denied, files that are    *)
(* not there yet included.                                                 *)
TestsLocked(l) ==
    /\ lock[l].pc = "tests" /\ lock[l].todo = {} /\ lock[l].scoring
    /\ Goto(l, [lock[l] EXCEPT !.pc = "scoring", !.todo = present \cap Scoring,
                               !.globs = @ \cup Scoring])
    /\ UNCHANGED <<world, initial, agents, record, locks, crashes, windows>>

SealScoring(l) ==
    /\ lock[l].pc = "scoring"
    /\ \E f \in lock[l].todo :
          IF f \notin present THEN Raise(l) /\ UNCHANGED mode
          ELSE /\ mode' = [mode EXCEPT ![f] =
                     IF lock[l].hidden THEN "none" ELSE ReadOnly(@)]
               /\ Goto(l, [lock[l] EXCEPT !.todo = @ \ {f}, !.done = @ \cup {f}])
               /\ UNCHANGED record
    /\ UNCHANGED <<present, policy, initial, agents, locks, crashes, windows>>

LocksDone(l) == /\ lock[l].pc = IF lock[l].scoring THEN "scoring" ELSE "tests"
                /\ lock[l].todo = {}

(* (Mutants: the rest of the file is lost; the write list it has is lost.)  *)
MergedAlone(file, writes) ==
    Content("object", Missing, List(writes \cup file.writes.files))
MergedReplacing(file, writes) ==
    Content("object", IF file.kind = "object" THEN file.paths ELSE Missing, List(writes))

(* write_policy_augmentation: read, merge, and write_text, which truncates *)
(* the file first.  Of a write list of a wrong type, a string is taken for *)
(* the list of its characters, of which "*" matches everything; other types, and   *)
(* a file that is no object or not UTF-8, raise.                           *)
Unusable == {"other", "undecodable"}
Merged(file, writes) ==
    Content("object", IF file.kind = "object" THEN file.paths ELSE Missing,
            List(writes \cup file.writes.files))

ReadPolicy(l) ==
    /\ LocksDone(l)
    /\ IF ~lock[l].augment \/ (lock[l].done = {} /\ ~lock[l].scoring) THEN Return(l)
       ELSE \/ /\ policy.kind \in Unusable \/ policy.writes.form = "wrong"
               /\ Raise(l)
            \/ /\ policy.kind \notin Unusable
               /\ \E garbage \in {{}, Files} :
                     /\ policy.writes.form # "wrong" => garbage = {}
                     /\ Goto(l, [lock[l] EXCEPT !.pc = "truncate", !.text =
                          Merged(policy, lock[l].globs \cup garbage)])
               /\ UNCHANGED record
    /\ UNCHANGED <<world, initial, agents, locks, crashes, windows>>

Truncate(l) == /\ lock[l].pc = "truncate"
               /\ policy' = Unparsable
               /\ Goto(l, [lock[l] EXCEPT !.pc = "write"])
               /\ UNCHANGED <<present, mode, initial, agents, record, locks,
                              crashes, windows>>

WritePolicy(l) == /\ lock[l].pc = "write"
                  /\ policy' = lock[l].text
                  /\ Return(l)
                  /\ UNCHANGED <<present, mode, initial, agents, locks, crashes,
                                 windows>>

Crash(l) == /\ Running(l) /\ crashes < MaxCrashes
            /\ crashes' = crashes + 1
            /\ Raise(l)
            /\ windows' = windows \cup IF lock[l].pc = "write"
                            THEN {"half-written policy"} ELSE {}
            /\ UNCHANGED <<world, initial, agents, locks>>

(* make_writable: the operator sets the owner's write bit of a file again,  *)
(* between lock runs; the policy goes on denying it.                       *)
MakeWritable(f) ==
    /\ Underway = {} /\ f \in present
    /\ mode' = [mode EXCEPT ![f] = IF @ \in Readable THEN "rw" ELSE "wo"]
    /\ sealed' = sealed \ {f}
    /\ UNCHANGED <<present, policy, initial, agents, lock, protected, locks,
                   crashes, windows>>

Next == \/ \E f \in Files : MakeWritable(f)
        \/ \E a \in Agents : Hook(a) \/ Run(a) \/ RewritePolicy(a)
        \/ \E l \in Lockers : \/ StartLock(l) \/ LockTest(l) \/ VerifyTest(l)
                              \/ TestsLocked(l) \/ SealScoring(l) \/ ReadPolicy(l)
                              \/ Truncate(l) \/ WritePolicy(l) \/ Crash(l)
Spec == Init /\ [][Next]_vars
-----------------------------------------------------------------------------
(* A file that a lock run which returned 0 protects stays as it is against *)
(* calls that name it and show that they write, and against every open for *)
(* writing, a call the hook let through before the lock run included: the  *)
(* hook stops the former, the cleared write bits the latter, until a       *)
(* command the hook does not recognise or the operator loosens them.       *)
ProtectedUnchanged == windows = {} => changed = {}

(* "layer 2: PreToolUse deny_write_globs (policy - blocks Edit/Write/Bash  *)
(* mutations)" (readonly.py): no call decided after a lock run changes a   *)
(* file that run has protected and sealed.                                 *)
MutationsBlocked ==
    [][\A a \in Agents : \A f \in guarded[a] \cap sealed :
          Run(a) => /\ f \in present <=> f \in present'
                    /\ mode'[f] = mode[f]]_vars

(* "A broken policy file must fail safe to the strict defaults, never to   *)
(* allow all" (config.py): while a policy file that cannot be read as one  *)
(* is all there was, no call that shows it gets to read a secret.          *)
BrokenPolicyIsStrict ==
    initial.kind \notin {"object"} /\ policy = initial =>
        \A a \in Agents : pc[a] = "run" /\ ReadsKnowingly(event[a])
                              => event[a].file \notin Secrets

(* The same of the rule: no later lock run takes a protected file out of   *)
(* the policy ("Merge deny_write_globs into policy.json").                 *)
ProtectedStaysDenied ==
    windows = {} /\ (\A l \in Lockers : lock[l].pc # "write")
        => protected \subseteq LoadPolicy(policy).writes

(* Lock runs loosen nothing else: a read that the policy denied when all   *)
(* began never happens by a call that shows it.                            *)
NothingLeaks == windows = {} => leaked = {}
=============================================================================
