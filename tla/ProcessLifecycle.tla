-------------------------- MODULE ProcessLifecycle --------------------------
(***************************************************************************)
(* The abstract life of a process as the process-control core promises it *)
(* (ProcessState in src/kernel/src/process/mod.rs): a process is Runnable,*)
(* Blocked(interruptible) or Exited(code); it moves Runnable -> Blocked,   *)
(* Blocked -> Runnable, and from either to Exited, which is absorbing.     *)
(* Nothing here says who makes a move; Sched.tla implements this module.  *)
(***************************************************************************)
EXTENDS Naturals

CONSTANTS
    Procs,      \* the processes (model values)
    ExitCodes   \* the exit codes a process may exit with

VARIABLE state

Runnable    == [tag |-> "Runnable"]
Blocked(b)  == [tag |-> "Blocked", intr |-> b]
Exited(x)   == [tag |-> "Exited", code |-> x]

States == {Runnable} \cup {Blocked(b) : b \in BOOLEAN} \cup {Exited(x) : x \in ExitCodes}

IsBlocked(s) == s.tag = "Blocked"
IsExited(s)  == s.tag = "Exited"

\* Any state but Exited is a state a process can start in.
Init == state \in [Procs -> States \ {Exited(x) : x \in ExitCodes}]

Sleep(p, b) ==
    /\ state[p] = Runnable
    /\ state' = [state EXCEPT ![p] = Blocked(b)]

Wake(p) ==
    /\ IsBlocked(state[p])
    /\ state' = [state EXCEPT ![p] = Runnable]

Exit(p, x) ==
    /\ ~IsExited(state[p])
    /\ state' = [state EXCEPT ![p] = Exited(x)]

Next ==
    \E p \in Procs :
        \/ \E b \in BOOLEAN : Sleep(p, b)
        \/ Wake(p)
        \/ \E x \in ExitCodes : Exit(p, x)

Spec == Init /\ [][Next]_state
=============================================================================
