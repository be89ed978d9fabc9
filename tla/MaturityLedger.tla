--------------------------- MODULE MaturityLedger ---------------------------
(***************************************************************************)
(* The evolution ledger (harness/maturity.py, cli.py _cmd_maturity): each  *)
(* `awh maturity log` reads the ledger, derives whether the harness        *)
(* changed since the most recent run, and appends one line; `awh maturity` *)
(* reads it and says whether the harness has converged.  Recorders may     *)
(* overlap, and one may die while it writes.                               *)
(*                                                                         *)
(* A line is a run or junk (what json.loads or Run refuses).  A write cut  *)
(* short leaves the last line without its newline: either a prefix, which  *)
(* is junk, or all of the run.  The next append continues that line.       *)
(***************************************************************************)
EXTENDS Integers, Sequences, FiniteSets, FiniteSetsExt

CONSTANTS Recorders, Versions, NoVersion,
          ReadyStreak, Window,    \* --ready-streak, --window
          RateNum, RateDen,       \* --max-rate
          MaxRecords,             \* bound: runs recorded
          MaxCrashes,             \* bound: writes cut short
          MaxUpgrades             \* bound: changes of the harness

ASSUME MaturityAssumption ==
    /\ NoVersion \notin Versions /\ ReadyStreak \in Nat /\ Window \in Int
    /\ RateNum \in Nat /\ RateDen \in Nat \ {0}
    /\ MaxRecords \in Nat /\ MaxCrashes \in Nat /\ MaxUpgrades \in Nat

Run == [id : Nat, version : Versions, changed : BOOLEAN, category : BOOLEAN]
Junk == [id |-> 0, version |-> NoVersion, changed |-> FALSE, category |-> FALSE]

VARIABLES lines, cut,           \* the ledger; its last line has no newline
          harness,              \* the harness's version
          pc, run,              \* each recorder: its place, the run it makes
          acked,                \* ids of the runs record_run returned
          overlapped,           \* history: two recorders were at work at once
          records, crashes, upgrades
ledgerVars == <<lines, cut, harness, pc, run, acked, overlapped, records, crashes,
                upgrades>>

LedgerInit == /\ lines = <<>> /\ cut = FALSE
              /\ harness \in Versions
              /\ pc = [p \in Recorders |-> "idle"]
              /\ run = [p \in Recorders |-> Junk]
              /\ acked = {} /\ overlapped = FALSE /\ records = 0 /\ crashes = 0 /\ upgrades = 0

(* read_runs skips every line it cannot parse.                             *)
IsRun(line) == line # Junk
ReadRuns(file) ==
    LET read[n \in 0 .. Len(file)] ==
          IF n = 0 THEN <<>>
          ELSE IF IsRun(file[n]) THEN Append(read[n - 1], file[n]) ELSE read[n - 1]
    IN  read[Len(file)]

(* write after what is there: a complete line stands by itself, one after  *)
(* a missing newline makes junk of both.                                   *)
Appended(line) == IF cut THEN SubSeq(lines, 1, Len(lines) - 1) \o <<Junk>>
                         ELSE Append(lines, line)

(* (Mutant: compared with the first run of the ledger.)                    *)
ChangedSinceFirst(version, runs) == runs # <<>> /\ runs[1].version # version

(* The CLI takes the harness's version, record_run reads the ledger.       *)
Changed(version, runs) ==
    runs # <<>> /\ runs[Len(runs)].version # version

Read(p) == /\ pc[p] = "idle" /\ records < MaxRecords
           /\ records' = records + 1
           /\ pc' = [pc EXCEPT ![p] = "write"]
           /\ overlapped' = (overlapped \/ \E q \in Recorders : pc[q] # "idle")
           /\ \E category \in BOOLEAN :
                 run' = [run EXCEPT ![p] =
                           [id |-> records + 1, version |-> harness,
                            changed |-> Changed(harness, ReadRuns(lines)),
                            category |-> category]]
           /\ UNCHANGED <<lines, cut, harness, acked, crashes, upgrades>>

(* (Mutant: the ledger is rewritten from what the recorder had read.)      *)
WriteWhole(p) == /\ pc[p] = "write"
                 /\ lines' = <<run[p]>> /\ cut' = FALSE
                 /\ acked' = acked \cup {run[p].id}
                 /\ pc' = [pc EXCEPT ![p] = "idle"]
                 /\ run' = [run EXCEPT ![p] = Junk]
                 /\ UNCHANGED <<harness, overlapped, records, crashes, upgrades>>

Write(p) == /\ pc[p] = "write"
            /\ lines' = Appended(run[p]) /\ cut' = FALSE
            /\ acked' = acked \cup {run[p].id}
            /\ pc' = [pc EXCEPT ![p] = "idle"]
            /\ run' = [run EXCEPT ![p] = Junk]
            /\ UNCHANGED <<harness, overlapped, records, crashes, upgrades>>

(* The recorder dies in the write.                                         *)
WriteCut(p) == /\ pc[p] = "write" /\ crashes < MaxCrashes
               /\ crashes' = crashes + 1
               /\ \E part \in {Junk, run[p]} : lines' = Appended(part)
               /\ cut' = TRUE
               /\ pc' = [pc EXCEPT ![p] = "idle"]
               /\ run' = [run EXCEPT ![p] = Junk]
               /\ UNCHANGED <<harness, acked, overlapped, records, upgrades>>

(* Somebody changes the harness, forwards or back.                         *)
Upgrade == /\ upgrades < MaxUpgrades
           /\ upgrades' = upgrades + 1
           /\ harness' \in Versions \ {harness}
           /\ UNCHANGED <<lines, cut, pc, run, acked, overlapped, records,
                          crashes>>

LedgerNext == \/ \E p \in Recorders : Read(p) \/ Write(p) \/ WriteCut(p)
              \/ Upgrade
LedgerSpec == LedgerInit /\ [][LedgerNext]_ledgerVars
-----------------------------------------------------------------------------
(* summarize.                                                              *)
IsEvolution(r) == r.changed \/ r.category

(* The length of the longest suffix without an evolution event.            *)
Streak(runs) ==
    LET n == Len(runs)
    IN Max({k \in 0 .. n : \A i \in n - k + 1 .. n : ~IsEvolution(runs[i])})

Recent(runs) ==
    LET n == Len(runs)
        w == IF Window < 1 THEN 1 ELSE Window
    IN (IF n > w THEN n - w + 1 ELSE 1) .. n
EvolvedIn(runs, S) == Cardinality({i \in S : IsEvolution(runs[i])})

(* rate <= max_rate; the rate of no run at all is 0.                       *)
RateLow(runs) ==
    EvolvedIn(runs, Recent(runs)) * RateDen <= RateNum * Cardinality(Recent(runs))

(* (Mutant: a streak alone suffices.)                                      *)
VerdictOfStreak(runs) ==
    IF Len(runs) < ReadyStreak THEN "INSUFFICIENT_DATA"
    ELSE IF Streak(runs) >= ReadyStreak THEN "READY"
    ELSE "STILL_EVOLVING"

Verdict(runs) ==
    IF Len(runs) < ReadyStreak THEN "INSUFFICIENT_DATA"
    ELSE IF Streak(runs) >= ReadyStreak /\ RateLow(runs) THEN "READY"
    ELSE "STILL_EVOLVING"
-----------------------------------------------------------------------------
Readable == ReadRuns(lines)
Ids(runs) == {runs[i].id : i \in DOMAIN runs}

(* A crash costs at most one acknowledged run besides its own.             *)
OneLossPerCrash == Cardinality(acked \ Ids(Readable)) <= crashes

(* As long as recorders come one after the other, the flags tell the true  *)
(* history of versions: a readable run is flagged exactly when its version *)
(* differs from the run before it ("auto-derived from the harness git sha  *)
(* between runs", README.md), torn lines in between or not.                *)
FlagsAreTrue == ~overlapped => \A i \in DOMAIN Readable :
    Readable[i].changed =
        (i > 1 /\ Readable[i].version # Readable[i - 1].version)

(* READY is then said only of a ledger whose last ReadyStreak runs were    *)
(* clean (same version as the run before, nothing folded back) and whose   *)
(* recent runs changed no more than the rate allows.  The property looks   *)
(* at versions, not at the flags the verdict is computed from.             *)
CleanAt(i) == /\ i > 1 => Readable[i].version = Readable[i - 1].version
              /\ ~Readable[i].category
ReadyMeansConverged ==
    LET n == Len(Readable)
        recent == Recent(Readable)
    IN ~overlapped /\ Verdict(Readable) = "READY" =>
         /\ n >= ReadyStreak
         /\ \A i \in n - ReadyStreak + 1 .. n : CleanAt(i)
         /\ Cardinality({i \in recent : ~CleanAt(i)}) * RateDen
               <= RateNum * Cardinality(recent)
=============================================================================
