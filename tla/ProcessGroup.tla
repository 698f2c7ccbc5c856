---------------------------- MODULE ProcessGroup ----------------------------
(***************************************************************************)
(* The process-group membership table of ProcessGroupManager              *)
(* (src/kernel/src/process/mod.rs): a BTreeMap<Pid, Vec<Pid>> from pgid   *)
(* to the ordered member pids, behind one SpinLock, so every operation is *)
(* one atomic step. The callers (fork, setpgid) are not in this source;    *)
(* they are modelled by what they pass: a fork calls add_process with the  *)
(* pgid the child inherits from its parent (do_create_pcb copies the       *)
(* current pcb's basic.pgid), setpgid calls set_pgid_by_pid with the group *)
(* the caller recorded as old. pgid[p] is that record (basic.pgid); a      *)
(* failed unwrap() panics.                                                 *)
(***************************************************************************)
EXTENDS Naturals, Sequences, SequencesExt, FiniteSets

CONSTANTS
    Pids,      \* the processes (small naturals, pid 0 excluded)
    NoGroup    \* pgid of a process the table does not know yet

Gids == {0} \cup Pids

VARIABLES
    known,     \* the keys of the BTreeMap
    lists,     \* lists[g] : the Vec<Pid> under key g (<<>> when not a key)
    pgid,      \* the pgid each caller recorded for its process
    panicked   \* an unwrap() on a missing key was reached

vars == <<known, lists, pgid, panicked>>

\* The pids the table lists anywhere.
Member(p) == \E g \in known : p \in ToSet(lists[g])

Init ==
    /\ known = {}
    /\ lists = [g \in Gids |-> <<>>]
    /\ pgid = [p \in Pids |-> NoGroup]
    /\ panicked = FALSE

-----------------------------------------------------------------------------
\* Mutant: pid 0 is pushed into its own new list too.
add_group_with_zero(g) ==
    /\ ~panicked
    /\ g \notin known
    /\ g # 0 => (~Member(g) /\ pgid[g] = NoGroup)
    /\ known' = known \cup {g}
    /\ lists' = [lists EXCEPT ![g] = <<g>>]
    /\ pgid' = IF g # 0 THEN [pgid EXCEPT ![g] = g] ELSE pgid
    /\ UNCHANGED panicked

(* add_group(pgid): a new list, holding pgid itself unless it is 0. The   *)
(* caller names a group the table does not have (the insert replaces).    *)
add_group(g) ==
    /\ ~panicked
    /\ g \notin known
    /\ g # 0 => (~Member(g) /\ pgid[g] = NoGroup)
    /\ known' = known \cup {g}
    /\ lists' = [lists EXCEPT ![g] = IF g # 0 THEN <<g>> ELSE <<>>]
    /\ pgid' = IF g # 0 THEN [pgid EXCEPT ![g] = g] ELSE pgid
    /\ UNCHANGED panicked

\* Mutant: the pid is pushed onto the clone, which is never inserted back.
add_process_no_insert(g, p) ==
    /\ ~panicked
    /\ ~Member(p) /\ pgid[p] = NoGroup
    /\ IF g \in known
         THEN /\ pgid' = [pgid EXCEPT ![p] = g]
              /\ UNCHANGED <<lists, panicked>>
         ELSE /\ panicked' = TRUE
              /\ UNCHANGED <<lists, pgid>>
    /\ UNCHANGED known

(* add_process(pgid, pid): get(pgid).cloned().unwrap(), push, insert.     *)
add_process(g, p) ==
    /\ ~panicked
    /\ ~Member(p) /\ pgid[p] = NoGroup
    /\ IF g \in known
         THEN /\ lists' = [lists EXCEPT ![g] = Append(@, p)]
              /\ pgid' = [pgid EXCEPT ![p] = g]
              /\ UNCHANGED panicked
         ELSE /\ panicked' = TRUE
              /\ UNCHANGED <<lists, pgid>>
    /\ UNCHANGED known

\* Mutant: the pid is not removed from its old list.
set_pgid_by_pid_no_retain(p, new, old) ==
    /\ ~panicked
    /\ old = pgid[p]
    /\ IF old \notin known
         THEN /\ panicked' = TRUE
              /\ UNCHANGED <<known, lists, pgid>>
         ELSE /\ IF new \in known
                   THEN /\ lists' = [lists EXCEPT ![new] = Append(@, p)]
                        /\ UNCHANGED known
                   ELSE /\ lists' = [lists EXCEPT ![new] = <<new>>]
                        /\ known' = known \cup {new}
              /\ pgid' = [pgid EXCEPT ![p] = new]
              /\ UNCHANGED panicked

\* Mutant: a new group's list is built but not inserted into the map.
set_pgid_by_pid_no_insert(p, new, old) ==
    LET without == [lists EXCEPT ![old] = SelectSeq(@, LAMBDA x : x # p)] IN
    /\ ~panicked
    /\ old = pgid[p]
    /\ IF old \notin known
         THEN /\ panicked' = TRUE
              /\ UNCHANGED <<known, lists, pgid>>
         ELSE /\ IF new \in known
                   THEN lists' = [without EXCEPT ![new] = Append(@, p)]
                   ELSE lists' = without
              /\ pgid' = [pgid EXCEPT ![p] = new]
              /\ UNCHANGED <<known, panicked>>

(* set_pgid_by_pid(pid, new_pgid, old_pgid): unwrap the old list and drop *)
(* pid from it; push pid onto an existing new list, or else insert the     *)
(* new list vec![new_pgid]. The caller then records new_pgid for pid. An  *)
(* old pgid with no list panics in the first unwrap().                     *)
set_pgid_by_pid(p, new, old) ==
    LET without == [lists EXCEPT ![old] = SelectSeq(@, LAMBDA x : x # p)] IN
    /\ ~panicked
    /\ old = pgid[p]
    /\ IF old \notin known
         THEN /\ panicked' = TRUE
              /\ UNCHANGED <<known, lists, pgid>>
         ELSE /\ IF new \in known
                   THEN /\ lists' = [without EXCEPT ![new] = Append(@, p)]
                        /\ UNCHANGED known
                   ELSE /\ lists' = [without EXCEPT ![new] = <<new>>]
                        /\ known' = known \cup {new}
              /\ pgid' = [pgid EXCEPT ![p] = new]
              /\ UNCHANGED panicked

\* A fork of `parent`: the child inherits the parent's pgid and is added to
\* that group.
fork(parent, p) ==
    /\ pgid[parent] # NoGroup
    /\ add_process(pgid[parent], p)

\* setpgid of a process the table knows.
Listed(p) == pgid[p] # NoGroup

\* setpgid as POSIX allows it: into an existing group, or a new group led
\* by the process itself.
PosixTarget(p, new) == new \in known \/ new = p

Next ==
    \/ \E g \in Gids : add_group(g)
    \/ \E parent, p \in Pids : fork(parent, p)
    \/ \E p \in Pids, new \in Gids : Listed(p) /\ PosixTarget(p, new) /\ set_pgid_by_pid(p, new, pgid[p])

\* Any target pgid, as set_pgid_by_pid itself accepts.
NextAnyTarget ==
    \/ \E g \in Gids : add_group(g)
    \/ \E parent, p \in Pids : fork(parent, p)
    \/ \E p \in Pids, new \in Gids : Listed(p) /\ set_pgid_by_pid(p, new, pgid[p])

Spec == Init /\ [][Next]_vars
SpecAnyTarget == Init /\ [][NextAnyTarget]_vars

-----------------------------------------------------------------------------
TypeOK ==
    /\ known \subseteq Gids
    /\ lists \in [Gids -> Seq(Pids)]
    /\ pgid \in [Pids -> Gids \cup {NoGroup}]
    /\ panicked \in BOOLEAN

\* A process is listed once in the whole table: set_pgid_by_pid removes it
\* from the old list before it adds it to the new one.
MembershipExclusive ==
    \A p \in Pids :
        LET slots == UNION {{<<g, i>> : i \in DOMAIN lists[g]} : g \in known}
        IN  Cardinality({s \in slots : lists[s[1]][s[2]] = p}) <= 1

\* A process is listed under the pgid its caller recorded for it (spec 4.3:
\* set_pgid_by_pid moves the pid into the destination group).
MemberOfOwnGroup ==
    \A p \in Pids : pgid[p] \in known => p \in ToSet(lists[pgid[p]])

\* No sequence of forks and setpgids reaches one of the table's unwrap()
\* panics: the group a parent passes on to its child, and the old group a
\* process leaves, always have a list. Broken if a new group's list is not
\* inserted when set_pgid_by_pid creates it.
NoUnwrapPanic == ~panicked
=============================================================================
