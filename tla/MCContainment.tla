--------------------------- MODULE MCContainment ---------------------------
(* Instances of Containment for TLC; agents are interchangeable, and so    *)
(* are lock runs.                                                          *)
EXTENDS Containment, TLC

ProcessSymmetry == Permutations(Agents) \cup Permutations(Lockers)

(* The properties speak of behaviours with no window open so far, and a    *)
(* window that opened stays on record: states past it are not explored.    *)
NoWindow == windows = {}

(* Of a call that the hook has let through only this decides what it does  *)
(* and whether it counts as harm: calls alike in it are not told apart.    *)
Pending(a) ==
    LET e == event[a]
    IN  IF e.does = "read" THEN <<"read", {f \in {e.file} : Leaks(e)}>>
        ELSE <<e.does, {e.file}, WritesKnowingly(e) /\ e.file \in guarded[a]>>
CallsByEffect == <<world, initial, pc, [a \in Agents |-> Pending(a)], changed, leaked,
                   calls, lockers, windows>>
=============================================================================
