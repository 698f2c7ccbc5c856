--------------------------- MODULE MC_SchedSwitch ---------------------------
(* The setup of MC_Sched for the scheduler with its context switches;    *)
(* MCIdleOf1 and MCHome3 are the one-CPU, three-process setup of the      *)
(* liveness run.                                                          *)
EXTENDS SchedSwitch, TLC

CONSTANTS c1, c2, p1, p2, p3, i1, i2

MCIdleOf  == (c1 :> i1) @@ (c2 :> i2)
MCIdleOf1 == c1 :> i1
MCHome    == (p1 :> c1) @@ (p2 :> c1)
MCHome3   == (p1 :> c1) @@ (p2 :> c1) @@ (p3 :> c1)
MCMinJiffies == -1
=============================================================================
