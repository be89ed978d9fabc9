----------------------------- MODULE ReviewGate -----------------------------
(***************************************************************************)
(* What the orchestrator promises about the integration branch, with no    *)
(* worktrees, threads or git in sight: work is proposed, proposed work may *)
(* be reviewed, reviewed work may land, and nothing ever goes back.        *)
(***************************************************************************)
CONSTANT Baseline   \* what the integration branch holds before any run

VARIABLES proposed, reviewed, landed

gate == <<proposed, reviewed, landed>>

GateInit ==
  /\ proposed = Baseline
  /\ reviewed \subseteq Baseline
  /\ landed = reviewed

Propose ==
  /\ proposed \subseteq proposed'
  /\ UNCHANGED <<reviewed, landed>>

Review ==
  /\ reviewed \subseteq reviewed' /\ reviewed' \subseteq proposed
  /\ UNCHANGED <<proposed, landed>>

LandReviewed ==
  /\ landed \subseteq landed' /\ landed' \subseteq reviewed
  /\ UNCHANGED <<proposed, reviewed>>

GateNext == Propose \/ Review \/ LandReviewed

GateSpec == GateInit /\ [][GateNext]_gate
=============================================================================
