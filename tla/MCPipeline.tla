----------------------------- MODULE MCPipeline -----------------------------
(* Small instances of Pipeline for TLC.                                    *)
EXTENDS Pipeline

CONSTANTS t1, t2, t3, shared, own1, own2

\* t1 and t2 edit a common file, so whichever merges second conflicts.
TouchesShared ==
  [b \in Branches |-> CASE b = t1 -> {shared, own1}
                        [] b = t2 -> {shared, own2}
                        [] OTHER  -> {}]

TwoTasks == {t1, t2}
ThreeTasks == {t1, t2, t3}

\* Both tasks, one of them alone, and a plan that plan() refuses.
TwoTaskPlans == {<<t1, t2>>, <<t2>>, <<t1, t1>>}
OneTaskPlans == {<<t1>>}
ThreeTaskPlans == {<<t1, t2, t3>>}
=============================================================================
