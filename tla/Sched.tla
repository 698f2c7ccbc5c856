------------------------------- MODULE Sched -------------------------------
(***************************************************************************)
(* The process state machine of ProcessManager (wakeup, mark_sleep, exit)  *)
(* together with the per-CPU CFS run queues of SchedulerCFS                *)
(* (timer_update_jiffies, sched) on several CPUs.                          *)
(*                                                                         *)
(* src/kernel/src/process/mod.rs : ProcessManager, ProcessSchedulerInfo   *)
(* src/kernel/src/sched/cfs.rs    : CFSQueue, SchedulerCFS                *)
(*                                                                         *)
(* A run queue is the RBTree<i64, _> keyed by the virtual runtime read at  *)
(* insertion; it is a sequence sorted by key in which an entry with an     *)
(* equal key goes after the ones already there. Each CPU runs one context  *)
(* at a time; interrupts on a CPU are off while it is inside wakeup and    *)
(* between mark_sleep and the sched() its caller makes.                    *)
(***************************************************************************)
EXTENDS Integers, Sequences, SequencesExt, FiniteSets

CONSTANTS
    CPUS,         \* the CPUs
    Procs,        \* the non-idle processes
    IdleOf,       \* IdleOf[c] : the idle pcb (pid 0) of CPU c
    Home,         \* Home[p] : sched_info.on_cpu of p; nothing here migrates
    ExitCodes,    \* exit codes a process may pass to exit()
    TimeSlice,    \* value update_cpu_exec_proc_jiffies gives the slice (10)
    MaxVruntime,  \* bound: timer ticks stop at this virtual runtime
    MinJiffies,   \* bound: timer ticks stop when the slice falls to this
    MaxQueue,     \* bound: a wakeup does not enqueue into a queue this long
    NoPcb         \* no process (model value)

ASSUME Home \in [Procs -> CPUS]
ASSUME IdleOf \in [CPUS -> {IdleOf[c] : c \in CPUS}] /\ \A c \in CPUS : IdleOf[c] \notin Procs
ASSUME TimeSlice \in Nat \ {0} /\ MaxVruntime \in Nat /\ MinJiffies \in Int

Idles == {IdleOf[c] : c \in CPUS}
PCBs  == Procs \cup Idles

VARIABLES
    state,        \* sched_info.state of every pcb
    vruntime,     \* sched_info.virtual_runtime of every pcb
    needResched,  \* ProcessFlags::NEED_SCHEDULE of every pcb
    current,      \* current[c] : the pcb executing on CPU c
    rq,           \* rq[c] : CFSQueue.locked_queue of CPU c, <<[key, pcb]>>
    jiffies,      \* jiffies[c] : CFSQueue.cpu_exec_proc_jiffies of CPU c
    irqOff,       \* irqOff[c] : interrupts are disabled on CPU c
    wk            \* wk[c] : the wakeup CPU c is in the middle of

LC == INSTANCE ProcessLifecycle

Runnable   == LC!Runnable
Blocked(b) == LC!Blocked(b)
Exited(x)  == LC!Exited(x)

vars == <<state, vruntime, needResched, current, rq, jiffies, irqOff, wk>>

WakeStep == {"none", "write", "enqueue", "insert"}
NoWakeup == [pc |-> "none", pcb |-> NoPcb]
Vruntimes == 0..MaxVruntime
Entry == [key : Vruntimes, pcb : PCBs]

-----------------------------------------------------------------------------
(* Run-queue helpers                                                       *)

\* The pcbs with an entry in queue q.
Queued(q) == {q[i].pcb : i \in 1..Len(q)}

\* Mutant: an entry goes before the ones with an equal key.
Insert_before_equal(q, k, p) ==
    InsertAt(q, Cardinality({i \in 1..Len(q) : q[i].key < k}) + 1, [key |-> k, pcb |-> p])

\* RBTree::insert: after every entry whose key is not greater than k.
Insert(q, k, p) ==
    InsertAt(q, Cardinality({i \in 1..Len(q) : q[i].key <= k}) + 1, [key |-> k, pcb |-> p])

\* CFSQueue::enqueue: the idle pcb is never put in a queue; the key is the
\* virtual runtime the pcb has when it is inserted.
enqueue(q, p, vr) == IF p \in Idles THEN q ELSE Insert(q, vr[p], p)

\* Mutant: min_vruntime one below the first pcb's virtual runtime.
min_vruntime_off_by_one(q) == vruntime[Head(q).pcb] - 1

\* CFSQueue::min_vruntime: the virtual runtime the first pcb has now.
min_vruntime(q) == vruntime[Head(q).pcb]

\* update_cpu_exec_proc_jiffies, applied when the slice is used up.
RefreshSlice(c) == IF jiffies[c] <= 0 THEN TimeSlice ELSE jiffies[c]

\* The CPU runs no wakeup and takes interrupts: a new call may start.
Free(c) == wk[c] = NoWakeup /\ ~irqOff[c]

-----------------------------------------------------------------------------
Init ==
    /\ state = [p \in PCBs |-> IF p \in Idles THEN Runnable ELSE Blocked(FALSE)]
    /\ vruntime = [p \in PCBs |-> 0]
    /\ needResched = [p \in PCBs |-> FALSE]
    /\ current = IdleOf
    /\ rq = [c \in CPUS |-> <<>>]
    /\ jiffies = [c \in CPUS |-> 0]
    /\ irqOff = [c \in CPUS |-> FALSE]
    /\ wk = [c \in CPUS |-> NoWakeup]

-----------------------------------------------------------------------------
(* ProcessManager::wakeup(pcb), run by CPU c in process or interrupt       *)
(* context with its interrupts saved and disabled. It reads the state      *)
(* under the read lock; if Blocked it re-reads it under the write lock,    *)
(* sets Runnable, drops the lock and then calls sched_enqueue(pcb, true).  *)
(* The paths that return at once (not Blocked) change nothing.             *)

wakeup_check(c, p) ==
    /\ Free(c)
    /\ LC!IsBlocked(state[p])
    /\ irqOff' = [irqOff EXCEPT ![c] = TRUE]
    /\ wk' = [wk EXCEPT ![c] = [pc |-> "write", pcb |-> p]]
    /\ UNCHANGED <<state, vruntime, needResched, current, rq, jiffies>>

\* Mutant: the state read under the read lock is trusted, no re-check.
wakeup_set_runnable_no_recheck(c) ==
    /\ wk[c].pc = "write"
    /\ state' = [state EXCEPT ![wk[c].pcb] = Runnable]
    /\ wk' = [wk EXCEPT ![c].pc = "enqueue"]
    /\ UNCHANGED <<irqOff, vruntime, needResched, current, rq, jiffies>>

wakeup_set_runnable(c) ==
    LET p == wk[c].pcb IN
    /\ wk[c].pc = "write"
    /\ IF LC!IsBlocked(state[p])
         THEN /\ state' = [state EXCEPT ![p] = Runnable]
              /\ wk' = [wk EXCEPT ![c].pc = "enqueue"]
              /\ UNCHANGED irqOff
         ELSE /\ wk' = [wk EXCEPT ![c] = NoWakeup]
              /\ irqOff' = [irqOff EXCEPT ![c] = FALSE]
              /\ UNCHANGED state
    /\ UNCHANGED <<vruntime, needResched, current, rq, jiffies>>

(* sched_enqueue(pcb, true) = SchedulerCFS::enqueue_reset_vruntime on the *)
(* queue of the pcb's on_cpu. Under the queue lock, a non-empty queue      *)
(* gives the pcb its min_vruntime; the lock is dropped ...                 *)
wakeup_enqueue(c) ==
    LET p == wk[c].pcb
        q == rq[Home[p]]
    IN
    /\ wk[c].pc = "enqueue"
    /\ vruntime' = IF q # <<>> THEN [vruntime EXCEPT ![p] = min_vruntime(q)] ELSE vruntime
    /\ wk' = [wk EXCEPT ![c].pc = "insert"]
    /\ UNCHANGED <<state, needResched, current, rq, jiffies, irqOff>>

(* ... and CFSQueue::enqueue takes it again and inserts the pcb under the  *)
(* virtual runtime it has now.                                             *)
wakeup_insert(c) ==
    LET p == wk[c].pcb IN
    /\ wk[c].pc = "insert"
    /\ Len(rq[Home[p]]) < MaxQueue
    /\ rq' = [rq EXCEPT ![Home[p]] = enqueue(@, p, vruntime)]
    /\ wk' = [wk EXCEPT ![c] = NoWakeup]
    /\ irqOff' = [irqOff EXCEPT ![c] = FALSE]
    /\ UNCHANGED <<state, vruntime, needResched, current, jiffies>>

(* ProcessManager::mark_sleep(interruptable), called by the running        *)
(* process with interrupts disabled; its caller then calls sched().        *)
mark_sleep(c, b) ==
    LET p == current[c] IN
    /\ Free(c)
    /\ p \in Procs /\ state[p] = Runnable
    /\ state[p] # Exited(0)
    /\ state' = [state EXCEPT ![p] = Blocked(b)]
    /\ needResched' = [needResched EXCEPT ![p] = TRUE]
    /\ irqOff' = [irqOff EXCEPT ![c] = TRUE]
    /\ UNCHANGED <<vruntime, current, rq, jiffies, wk>>

(* ProcessManager::exit(code): Exited(code) under the write lock; the     *)
(* interrupt guard is dropped before the sched() that follows.            *)
exit(c, x) ==
    LET p == current[c] IN
    /\ Free(c)
    /\ p \in Procs /\ state[p] = Runnable
    /\ state' = [state EXCEPT ![p] = Exited(x)]
    /\ UNCHANGED <<vruntime, needResched, current, rq, jiffies, irqOff, wk>>

(* SchedulerCFS::timer_update_jiffies, on the timer interrupt of CPU c.   *)
timer_update_jiffies(c) ==
    LET p == current[c] IN
    /\ Free(c)
    /\ jiffies[c] > MinJiffies
    /\ vruntime[p] < MaxVruntime
    /\ jiffies' = [jiffies EXCEPT ![c] = @ - 1]
    /\ needResched' = IF jiffies'[c] <= 0 THEN [needResched EXCEPT ![p] = TRUE] ELSE needResched
    /\ vruntime' = [vruntime EXCEPT ![p] = @ + 1]
    /\ UNCHANGED <<state, current, rq, irqOff, wk>>

-----------------------------------------------------------------------------
(* SchedulerCFS::sched on CPU c, with the context switch it asks for. It  *)
(* is called when the current pcb has NEED_SCHEDULE set (at the interrupt  *)
(* return) or is no longer Runnable (after mark_sleep or exit). The queue  *)
(* holds process entities only, so the descent through group entities     *)
(* ends at the first one (see sched_as_written for the loop as written).   *)
(* An empty queue gives the idle pcb, as CFSQueue::dequeue does.           *)

\* Mutant: a switch does not put the still Runnable current pcb back.
SchedDecide_no_requeue(c, cand, rest) ==
    LET cur == current[c] IN
    \/ /\ state[cur] # Runnable \/ vruntime[cur] >= vruntime[cand]
       /\ rq' = [rq EXCEPT ![c] = rest]
       /\ current' = [current EXCEPT ![c] = cand]
    \/ /\ state[cur] = Runnable /\ vruntime[cur] < vruntime[cand]
       /\ rq' = [rq EXCEPT ![c] = enqueue(rest, cand, vruntime)]
       /\ UNCHANGED current

(* The comparison of sched: switch when the current pcb is not Runnable or *)
(* its virtual runtime is not below the candidate's.                      *)
Switches(c, cand) ==
    state[current[c]] # Runnable \/ vruntime[current[c]] >= vruntime[cand]

SchedDecide(c, cand, rest) ==
    LET cur == current[c] IN
    \/ /\ Switches(c, cand)
       /\ rq' = [rq EXCEPT ![c] = IF state[cur] = Runnable THEN enqueue(rest, cur, vruntime) ELSE rest]
       /\ current' = [current EXCEPT ![c] = cand]
    \/ /\ ~Switches(c, cand)
       /\ rq' = [rq EXCEPT ![c] = enqueue(rest, cand, vruntime)]
       /\ UNCHANGED current

SchedCalled(c) ==
    /\ wk[c] = NoWakeup
    /\ needResched[current[c]] \/ state[current[c]] # Runnable

SchedCommon(c) ==
    /\ needResched' = [needResched EXCEPT ![current[c]] = FALSE]
    /\ jiffies' = [jiffies EXCEPT ![c] = RefreshSlice(c)]
    /\ irqOff' = [irqOff EXCEPT ![c] = FALSE]
    /\ UNCHANGED <<state, vruntime, wk>>

\* CFSQueue::dequeue: the first pcb, or the idle pcb when the queue is empty.
Cand(c) == IF rq[c] = <<>> THEN IdleOf[c] ELSE Head(rq[c]).pcb

\* The queue dequeue leaves behind.
Rest(c) == IF rq[c] = <<>> THEN <<>> ELSE Tail(rq[c])

sched(c) ==
    /\ SchedCalled(c)
    /\ SchedDecide(c, Cand(c), Rest(c))
    /\ SchedCommon(c)

\* The loop as written: its header `while let Some(_) = dequeue()` pops a
\* second entry and drops it before the loop breaks.
sched_as_written(c) ==
    LET rest == IF Len(rq[c]) > 1 THEN Tail(Tail(rq[c])) ELSE <<>> IN
    /\ SchedCalled(c)
    /\ SchedDecide(c, Cand(c), rest)
    /\ SchedCommon(c)

-----------------------------------------------------------------------------
ProcessNext(c) ==
    \/ \E p \in Procs : wakeup_check(c, p)
    \/ wakeup_set_runnable(c)
    \/ wakeup_enqueue(c)
    \/ wakeup_insert(c)
    \/ \E b \in BOOLEAN : mark_sleep(c, b)
    \/ \E x \in ExitCodes : exit(c, x)
    \/ timer_update_jiffies(c)

Next == \E c \in CPUS : ProcessNext(c) \/ sched(c)

NextAsWritten == \E c \in CPUS : ProcessNext(c) \/ sched_as_written(c)

Spec == Init /\ [][Next]_vars

SpecAsWritten == Init /\ [][NextAsWritten]_vars

-----------------------------------------------------------------------------
TypeOK ==
    /\ state \in [PCBs -> LC!States]
    /\ vruntime \in [PCBs -> Vruntimes]
    /\ needResched \in [PCBs -> BOOLEAN]
    /\ current \in [CPUS -> PCBs]
    /\ rq \in [CPUS -> BoundedSeq(Entry, MaxQueue)]
    /\ jiffies \in [CPUS -> MinJiffies..TimeSlice]
    /\ irqOff \in [CPUS -> BOOLEAN]
    /\ wk \in [CPUS -> {NoWakeup} \cup [pc : WakeStep \ {"none"}, pcb : Procs]]

\* No Runnable process is forgotten: one that does not execute on a CPU
\* has an entry in a run queue, or a wakeup is about to enqueue it. Broken
\* if sched drops the current pcb or the candidate instead of re-enqueueing.
NoLostRunnable ==
    \A p \in Procs :
        state[p] = Runnable =>
            \/ \E c \in CPUS : current[c] = p
            \/ \E c \in CPUS : p \in Queued(rq[c])
            \/ \E c \in CPUS : wk[c].pcb = p /\ wk[c].pc \in {"enqueue", "insert"}

\* The model's bounds stop CPU c: its timer at MaxVruntime, or a wakeup
\* whose enqueue would pass MaxQueue.
AtBound(c) ==
    \/ vruntime[current[c]] = MaxVruntime
    \/ \E d \in CPUS : wk[d].pc = "insert" /\ Len(rq[Home[wk[d].pcb]]) = MaxQueue

\* A Runnable process, queued or still being enqueued by a wakeup, is
\* eventually chosen by its home CPU's sched, unless a bound of the model
\* is reached first. Broken if a process that keeps sleeping and waking
\* is inserted before the equal key of the waiting one (RBTree::insert,
\* cfs.rs:74), or if the slice is never flagged as used up (the timer then
\* stops at MinJiffies with the current pcb below MaxVruntime). A sched
\* that never switches is not caught: the current pcb then ticks up to
\* MaxVruntime, which AtBound exempts.
RunnableEventuallyRuns ==
    \A p \in Procs :
        state[p] = Runnable ~> (current[Home[p]] = p \/ AtBound(Home[p]))

\* The states of the processes follow ProcessLifecycle: Runnable and
\* Blocked alternate, Exited is never left (wakeup refuses an Exited pcb).
LCMapping == INSTANCE ProcessLifecycle WITH state <- [p \in Procs |-> state[p]]
LifecycleRefined == LCMapping!Spec

\* A process is in one place at a time: it executes on at most one CPU,
\* has at most one run-queue entry, and is not queued while it executes.
ExclusivePlacement ==
    \A p \in Procs :
        LET onCpus  == {c \in CPUS : current[c] = p}
            slots   == UNION {{<<c, i>> : i \in 1..Len(rq[c])} : c \in CPUS}
            entries == {e \in slots : rq[e[1]][e[2]].pcb = p}
        IN Cardinality(onCpus) + Cardinality(entries) <= 1

\* The idle pcb is a fallback, not a competitor (spec 3): a sched() run on
\* the idle pcb never leaves it running while its run queue is not empty.
IdleYields ==
    [][\A c \in CPUS :
          (needResched[IdleOf[c]] /\ ~needResched'[IdleOf[c]] /\ current'[c] = IdleOf[c])
          => rq'[c] = <<>>]_vars
=============================================================================
