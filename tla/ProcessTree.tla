---------------------------- MODULE ProcessTree ----------------------------
(***************************************************************************)
(* The PCB registry and the parent/child tree of the process manager      *)
(* (src/kernel/src/process/mod.rs): pid allocation and the insertion into *)
(* the parent's children map in do_create_pcb, add_pcb into ALL_PROCESS,   *)
(* and the adoption of the children by init in exit / exit_notify.         *)
(*                                                                         *)
(* A pcb is named by its pid. parent[p] is the weak parent_pcb link (and   *)
(* basic.ppid, which always agrees with it); children[q] the keys of q's  *)
(* children map. Pid 0 is the idle process; it is never in ALL_PROCESS.   *)
(* The strong references to a pcb are counted: the ALL_PROCESS entry, the *)
(* parent's children map, the raw Arc KernelStack::set_pcb leaves at the   *)
(* stack base, and the clones running code holds (the Arc do_create_pcb   *)
(* returns, the results of find). Drop runs when the count reaches zero.   *)
(***************************************************************************)
EXTENDS Naturals, FiniteSets

CONSTANTS
    MaxPid,    \* bound: pids 1..MaxPid are handed out
    MaxClones  \* bound: transient Arcs of one pcb held at a time

ASSUME MaxPid \in Nat \ {0} /\ MaxClones \in Nat

Pids  == 1..MaxPid
IdlePid == 0
InitPid == 1

VARIABLES
    nextPid,    \* NEXT_PID of generate_pid
    created,    \* pids whose pcb exists
    registry,   \* the keys of ALL_PROCESS
    parent,     \* parent_pcb (and ppid) of each created pcb
    children,   \* children[q] : the pids in q's children map
    exited,     \* pids whose state is Exited
    clones,     \* clones[p] : Arcs of p held by running code
    dropped,    \* pids whose pcb Drop has run
    panicked    \* a panic!/unwrap failure was reached

vars == <<nextPid, created, registry, parent, children, exited, clones, dropped, panicked>>

-----------------------------------------------------------------------------
\* generate_pid: NEXT_PID starts at Pid(1) and fetch_add returns the old value.
FirstPid == 1

\* ProcessManager::find(pid) finds the pid.
Found(q) == q \in registry

StrongCount(p) ==
    (IF p \in registry THEN 1 ELSE 0)
    + Cardinality({q \in Pids : p \in children[q]})
    + (IF p \in created \ dropped THEN 1 ELSE 0)
    + clones[p]

Init ==
    /\ nextPid = FirstPid
    /\ created = {}
    /\ registry = {}
    /\ parent = [p \in Pids |-> IdlePid]
    /\ children = [p \in Pids |-> {}]
    /\ exited = {}
    /\ clones = [p \in Pids |-> 0]
    /\ dropped = {}
    /\ panicked = FALSE

-----------------------------------------------------------------------------
(* ProcessControlBlock::do_create_pcb(name, kstack, false), run by the     *)
(* current process `cur`: the pid comes from generate_pid, the parent is  *)
(* find(ppid) of the current pid; for a pid above 1 the new pcb goes into  *)
(* the parent's children map, and a parent that is not found panics. The  *)
(* idle process runs it once, at boot, to create init.                     *)
do_create_pcb(cur) ==
    LET pid == nextPid IN
    /\ ~panicked
    /\ pid \in Pids
    /\ \/ cur \in registry \ exited
       \/ cur = IdlePid /\ created = {}
    /\ nextPid' = nextPid + 1
    /\ created' = created \cup {pid}
    /\ clones' = [clones EXCEPT ![pid] = 1]
    /\ parent' = [parent EXCEPT ![pid] = cur]
    /\ IF pid > InitPid
         THEN IF Found(cur)
                THEN /\ children' = [children EXCEPT ![cur] = @ \cup {pid}]
                     /\ UNCHANGED panicked
                ELSE /\ panicked' = TRUE
                     /\ UNCHANGED children
         ELSE UNCHANGED <<children, panicked>>
    /\ UNCHANGED <<registry, exited, dropped>>

\* Mutant: a pid that no pcb has yet is registered.
add_pcb_any(p) ==
    /\ ~panicked
    /\ p \in Pids \ registry
    /\ registry' = registry \cup {p}
    /\ UNCHANGED <<nextPid, created, parent, children, exited, clones, dropped, panicked>>

(* ProcessManager::add_pcb(pcb): the caller of do_create_pcb registers it *)
(* once.                                                                   *)
add_pcb(p) ==
    /\ ~panicked
    /\ p \in created \ registry
    /\ registry' = registry \cup {p}
    /\ UNCHANGED <<nextPid, created, parent, children, exited, clones, dropped, panicked>>

\* Mutant: init's map gets the children but p's map is not drained.
adopt_childen_no_drain(p) ==
    IF Found(InitPid)
      THEN /\ children' = [children EXCEPT ![InitPid] = @ \cup children[p]]
           /\ UNCHANGED panicked
      ELSE /\ panicked' = TRUE
           /\ UNCHANGED children

\* ProcessControlBlock::adopt_childen: children drained into init's map.
adopt_childen(p) ==
    IF Found(InitPid)
      THEN /\ children' = [children EXCEPT ![InitPid] = @ \cup children[p], ![p] = {}]
           /\ UNCHANGED panicked
      ELSE /\ panicked' = TRUE
           /\ UNCHANGED children

(* ProcessManager::exit(code) of the running process p: Exited, then      *)
(* exit_notify hands the children to init unless p is init; a missing    *)
(* init (ECHILD) panics.                                                   *)
exit(p) ==
    /\ ~panicked
    /\ p \in registry \ exited
    /\ exited' = exited \cup {p}
    /\ IF p # InitPid THEN adopt_childen(p) ELSE UNCHANGED <<children, panicked>>
    /\ UNCHANGED <<nextPid, created, registry, parent, clones, dropped>>

(* ProcessManager::find(p) by any running code: a clone of the registered *)
(* Arc, held until drop_clone.                                             *)
find(p) ==
    /\ ~panicked
    /\ Found(p) /\ clones[p] < MaxClones
    /\ clones' = [clones EXCEPT ![p] = @ + 1]
    /\ UNCHANGED <<nextPid, created, registry, parent, children, exited, dropped, panicked>>

(* Drop for ProcessControlBlock: p leaves its parent's children map (and   *)
(* its own map, a field, goes with it); release(pid) then finds no entry. *)
pcb_drop(p) ==
    /\ dropped' = dropped \cup {p}
    /\ children' = [q \in Pids |-> IF q = p THEN {} ELSE children[q] \ {p}]

\* A clone held by running code goes out of scope; the last one runs Drop.
drop_clone(p) ==
    /\ ~panicked
    /\ clones[p] > 0
    /\ clones' = [clones EXCEPT ![p] = @ - 1]
    /\ IF StrongCount(p) = 1 THEN pcb_drop(p) ELSE UNCHANGED <<children, dropped>>
    /\ UNCHANGED <<nextPid, created, registry, parent, exited, panicked>>

(* ProcessManager::release(pid): find(pid) takes its own clone; with       *)
(* `others` strong references besides it, the count it tests is others+1. *)
(* At most 1: the clone is dropped and the entry removed; else panic.      *)
release(p, others) ==
    IF Found(p)
      THEN IF others + 1 <= 1
             THEN /\ registry' = registry \ {p}
                  /\ UNCHANGED panicked
             ELSE /\ panicked' = TRUE
                  /\ UNCHANGED registry
      ELSE UNCHANGED <<registry, panicked>>

(* The reaper release is written for (spec 4.1, 8): the parent q takes the *)
(* exited child p out of its children map once no code holds p any more,   *)
(* and releases p's pid.                                                   *)
reap(q, p) ==
    /\ ~panicked
    /\ p \in exited /\ p \in children[q] /\ clones[p] = 0
    /\ children' = [children EXCEPT ![q] = @ \ {p}]
    /\ release(p, StrongCount(p) - 1)
    /\ UNCHANGED <<nextPid, created, parent, exited, clones, dropped>>

Next ==
    \/ \E cur \in {IdlePid} \cup Pids : do_create_pcb(cur)
    \/ \E p \in Pids : add_pcb(p)
    \/ \E p \in Pids : exit(p)
    \/ \E p \in Pids : find(p) \/ drop_clone(p)

Spec == Init /\ [][Next]_vars

\* With the reaper that calls release.
NextReap == Next \/ \E q, p \in Pids : reap(q, p)

SpecReap == Init /\ [][NextReap]_vars

-----------------------------------------------------------------------------
TypeOK ==
    /\ nextPid \in 1..MaxPid + 1
    /\ created \subseteq Pids /\ registry \subseteq created /\ exited \subseteq registry
    /\ parent \in [Pids -> {IdlePid} \cup Pids]
    /\ children \in [Pids -> SUBSET Pids]
    /\ clones \in [Pids -> 0..MaxClones]
    /\ dropped \subseteq created
    /\ panicked \in BOOLEAN

\* No path of create, register and exit reaches a panic: every creator is
\* found as parent, and init is registered whenever another process exits.
NoPanic == ~panicked

ChildrenPartition ==
    /\ \A p \in created \ {InitPid} : Cardinality({q \in Pids : p \in children[q]}) = 1
    /\ \A p \in exited \ {InitPid} : children[p] = {}

\* A child's parent link names the process whose children map holds it.
ParentLinkAccurate ==
    \A p, q \in Pids : p \in children[q] => parent[p] = q
=============================================================================
