---------------------------- MODULE SchedSwitch ----------------------------
(***************************************************************************)
(* Sched composed with the context switch that follows a sched() which    *)
(* returns Some(next): the architecture layer takes the arch_info locks of *)
(* the incoming and the outgoing pcb, leaks their guards, records both in  *)
(* the CPU's SWITCH_RESULT and switches stacks; on the new stack           *)
(* ProcessManager::switch_finish_hook takes prev and next out of           *)
(* SWITCH_RESULT and force-unlocks both locks.                             *)
(*                                                                         *)
(* The architecture layer is not in this source; its steps follow spec    *)
(* 4.1 (switch_finish_hook) and the scheduling loop of spec 4.2. Whether  *)
(* it switches when next is the current pcb is not said anywhere, so both  *)
(* readings are specifications here: SwSpec skips such a switch,        *)
(* SwSpecAll switches on every Some.                                       *)
(* While a CPU is inside a switch its interrupts are off and it does       *)
(* nothing else.                                                           *)
(***************************************************************************)
EXTENDS Sched

CONSTANT NoCpu   \* no CPU holds the lock (model value)

VARIABLES
    archLock,      \* archLock[p] : the CPU holding p's arch_info lock
    switchResult,  \* switchResult[c] : SWITCH_RESULT of CPU c, [prev, next]
    swpc           \* swpc[c] : how far CPU c is through a switch

swvars == <<archLock, switchResult, swpc>>
allvars == <<vars, swvars>>

\* SwitchResult::new(): both slots None.
NoSwitch == [prev |-> NoPcb, next |-> NoPcb]

SwInit ==
    /\ Init
    /\ archLock = [p \in PCBs |-> NoCpu]
    /\ switchResult = [c \in CPUS |-> NoSwitch]
    /\ swpc = [c \in CPUS |-> "none"]

-----------------------------------------------------------------------------
(* A step of Sched on a CPU that is not inside a switch.                  *)
sched_step(c) ==
    /\ swpc[c] = "none"
    /\ ProcessNext(c)
    /\ UNCHANGED swvars

\* Mutant: SWITCH_RESULT gets the next pcb only.
sched_switch_no_prev(c, skipSelf) ==
    LET prev == current[c]
        next == Cand(c)
    IN
    /\ swpc[c] = "none"
    /\ sched(c)
    /\ IF Switches(c, next) /\ ~(skipSelf /\ next = prev)
         THEN /\ switchResult' = [switchResult EXCEPT ![c] = [prev |-> NoPcb, next |-> next]]
              /\ swpc' = [swpc EXCEPT ![c] = "lock_next"]
         ELSE UNCHANGED <<switchResult, swpc>>
    /\ UNCHANGED archLock

(* sched() on CPU c; a Some(next) starts the switch, with prev the current *)
(* pcb. `skipSelf`: a next that is the current pcb is not switched to.     *)
sched_switch(c, skipSelf) ==
    LET prev == current[c]
        next == Cand(c)
    IN
    /\ swpc[c] = "none"
    /\ sched(c)
    /\ IF Switches(c, next) /\ ~(skipSelf /\ next = prev)
         THEN /\ switchResult' = [switchResult EXCEPT ![c] = [prev |-> prev, next |-> next]]
              /\ swpc' = [swpc EXCEPT ![c] = "lock_next"]
         ELSE UNCHANGED <<switchResult, swpc>>
    /\ UNCHANGED archLock

\* The architecture layer takes the incoming pcb's arch_info lock and
\* leaks the guard.
arch_lock_next(c) ==
    LET p == switchResult[c].next IN
    /\ swpc[c] = "lock_next"
    /\ archLock[p] = NoCpu
    /\ archLock' = [archLock EXCEPT ![p] = c]
    /\ swpc' = [swpc EXCEPT ![c] = "lock_prev"]
    /\ UNCHANGED <<vars, switchResult>>

\* ... then the outgoing pcb's, and switches to the next pcb's stack.
arch_lock_prev(c) ==
    LET p == switchResult[c].prev IN
    /\ swpc[c] = "lock_prev"
    /\ archLock[p] = NoCpu
    /\ archLock' = [archLock EXCEPT ![p] = c]
    /\ swpc' = [swpc EXCEPT ![c] = "hook"]
    /\ UNCHANGED <<vars, switchResult>>

\* Mutant: the hook force-unlocks only the incoming pcb's lock.
switch_finish_hook_next_only(c) ==
    /\ swpc[c] = "hook"
    /\ switchResult[c].prev # NoPcb /\ switchResult[c].next # NoPcb
    /\ archLock' = [archLock EXCEPT ![switchResult[c].next] = NoCpu]
    /\ switchResult' = [switchResult EXCEPT ![c] = NoSwitch]
    /\ swpc' = [swpc EXCEPT ![c] = "none"]
    /\ UNCHANGED vars

(* ProcessManager::switch_finish_hook on the new stack: take() prev and   *)
(* next (expect() panics on None), then force_unlock both arch_info locks.*)
switch_finish_hook(c) ==
    LET r == switchResult[c] IN
    /\ swpc[c] = "hook"
    /\ r.prev # NoPcb /\ r.next # NoPcb
    /\ archLock' = [p \in PCBs |-> IF p \in {r.prev, r.next} THEN NoCpu ELSE archLock[p]]
    /\ switchResult' = [switchResult EXCEPT ![c] = NoSwitch]
    /\ swpc' = [swpc EXCEPT ![c] = "none"]
    /\ UNCHANGED vars

SwNext(skipSelf) ==
    \E c \in CPUS :
        \/ sched_step(c)
        \/ sched_switch(c, skipSelf)
        \/ arch_lock_next(c)
        \/ arch_lock_prev(c)
        \/ switch_finish_hook(c)

SwSpec    == SwInit /\ [][SwNext(TRUE)]_allvars
SwSpecAll == SwInit /\ [][SwNext(FALSE)]_allvars

\* A step of Sched's action A on a CPU outside a switch.
Outside(c, A) == swpc[c] = "none" /\ A /\ UNCHANGED swvars

(* Fairness the code gives: a pending timer interrupt is latched and taken *)
(* once interrupts are on again (strong fairness, since wakeup, mark_sleep *)
(* and switches turn them off now and then); sched runs at the next       *)
(* interrupt return or is called by the process that slept or exited; a   *)
(* wakeup, once started with interrupts off, runs to its end; so does a   *)
(* switch, and on one CPU nothing else can hold the locks it takes, so    *)
(* only a lock leaked by an earlier switch can stop it. Starting a wakeup, *)
(* sleeping and exiting are the processes' choices, never forced.         *)
SwFairness ==
    \A c \in CPUS :
        /\ SF_allvars(Outside(c, timer_update_jiffies(c)))
        /\ WF_allvars(sched_switch(c, TRUE))
        /\ WF_allvars(Outside(c, wakeup_set_runnable(c)))
        /\ WF_allvars(Outside(c, wakeup_enqueue(c)))
        /\ WF_allvars(Outside(c, wakeup_insert(c)))
        /\ WF_allvars(arch_lock_next(c))
        /\ WF_allvars(arch_lock_prev(c))
        /\ WF_allvars(switch_finish_hook(c))

SwFairSpec == SwSpec /\ SwFairness

-----------------------------------------------------------------------------
SwTypeOK ==
    /\ TypeOK
    /\ archLock \in [PCBs -> CPUS \cup {NoCpu}]
    /\ switchResult \in [CPUS -> {NoSwitch} \cup [prev : PCBs, next : PCBs]]
    /\ swpc \in [CPUS -> {"none", "lock_next", "lock_prev", "hook"}]

\* The leaked arch_info guards are a hand-off between two stacks: a lock is
\* held only by a CPU inside a switch, only on that switch's prev or next,
\* and switch_finish_hook leaves no lock behind.
LocksOnlyAcrossSwitch ==
    \A p \in PCBs :
        archLock[p] # NoCpu =>
            /\ swpc[archLock[p]] # "none"
            /\ p \in {switchResult[archLock[p]].prev, switchResult[archLock[p]].next}

\* A switch that has started always gets its locks: the architecture layer
\* never spins on an arch_info lock that can never be released.
SwitchNeverSpins ==
    \A c \in CPUS :
        /\ swpc[c] = "lock_next" => archLock[switchResult[c].next] = NoCpu
        /\ swpc[c] = "lock_prev" => archLock[switchResult[c].prev] = NoCpu
=============================================================================
