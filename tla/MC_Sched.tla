------------------------------ MODULE MC_Sched ------------------------------
(* Two CPUs; p1 and p2 share CPU c1 and are woken from either CPU; c2 runs *)
(* only its idle pcb and the wakeups it issues. A slice of 2 ticks lets a  *)
(* slice run out with a pcb still queued.                                  *)
EXTENDS Sched, TLC

CONSTANTS c1, c2, p1, p2, i1, i2

MCIdleOf  == (c1 :> i1) @@ (c2 :> i2)
MCHome    == (p1 :> c1) @@ (p2 :> c1)
MCMinJiffies == -1
=============================================================================
