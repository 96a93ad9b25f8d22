------------------------------- MODULE RcsMngr -------------------------------
(***************************************************************************)
(* The resource manager, volcom_rcsmngr.c: a table of child cgroups, each  *)
(* with an array of the pids put into it, kept beside what the kernel      *)
(* knows: the cgroup directories and which process is in which.            *)
(*                                                                         *)
(* A call is one action, volcom_delete_main_cgroup one action per round of *)
(* its loop.  Callers make the calls in any order.  The kernel may refuse  *)
(* to create or to limit a directory, memory may run out, and processes    *)
(* end.  An array is known by whether it is there (live), was given to     *)
(* free(), or is a null pointer; wrong collects the uses of an array that  *)
(* C leaves undefined and the arrays nothing points to any more.           *)
(***************************************************************************)
EXTENDS Naturals, Sequences, SequencesExt

CONSTANTS
    Names,        \* names callers give child cgroups
    Main,         \* the name of the main cgroup
    Pids,
    InitChildren, \* the initial child_capacity (5)
    InitPids,     \* the initial pid_capacity (10)
    MaxChildren,  \* bound: children created
    MaxPids,      \* bound: pids recorded for one cgroup
    MaxFaults     \* bound: refusals of the kernel and allocations that fail

ASSUME NamesAssumption == Main \notin Names
ASSUME BoundsAssumption ==
    /\ InitChildren \in Nat \ {0} /\ InitPids \in Nat \ {0}
    /\ MaxChildren \in Nat /\ MaxPids \in Nat /\ MaxFaults \in Nat

VARIABLES
    pc,                \* "ready", "delete_main" inside that loop, "crashed"
    is_initialized, main_cgroup,
    child_cgroups,     \* the rows in use: their number is child_count
    children,          \* the array they are in
    child_capacity,
    dirs,              \* the cgroup directories there are
    member,            \* the cgroup of each process
    faults,
    slips,             \* what callers or the system did that README rules out
    wrong

manager == <<is_initialized, main_cgroup, child_cgroups, children, child_capacity>>
kernel  == <<dirs, member>>
vars    == <<pc, manager, kernel, faults, slips, wrong>>

Fault == faults < MaxFaults /\ faults' = faults + 1

NewCgroup(name) == [name |-> name, is_created |-> name # Main, pids |-> "live",
                    list |-> <<>>, pid_capacity |-> InitPids]
ZeroMain == [name |-> Main, is_created |-> FALSE, pids |-> "null",
             list |-> <<>>, pid_capacity |-> 0]

PointersStay ==                        \* mutant: the main array's pointer stays
    /\ is_initialized' = FALSE /\ main_cgroup' = [main_cgroup EXCEPT !.pids = "freed"]
    /\ child_cgroups' = <<>> /\ children' = "null" /\ child_capacity' = 0

\* A manager whose bytes are all zero.
Zeroed ==
    /\ is_initialized' = FALSE /\ main_cgroup' = ZeroMain
    /\ child_cgroups' = <<>> /\ children' = "null" /\ child_capacity' = 0

Init ==
    /\ pc = "ready"
    /\ is_initialized = FALSE /\ main_cgroup = ZeroMain
    /\ child_cgroups = <<>> /\ children = "null" /\ child_capacity = 0
    /\ dirs = {} /\ member = [p \in Pids |-> "outside"]
    /\ faults = 0 /\ slips = {} /\ wrong = {}

-----------------------------------------------------------------------------
Rows == DOMAIN child_cgroups
Children == {child_cgroups[i].name : i \in Rows}

\* The cgroup a search by name stops at, if there is one.
FirstRow(name, i) ==
    /\ i \in Rows /\ child_cgroups[i].name = name
    /\ \A k \in 1 .. i - 1 : child_cgroups[k].name # name
Target(name) == IF name = Main THEN {main_cgroup}
                ELSE {child_cgroups[i] : i \in {k \in Rows : FirstRow(name, k)}}
Replace(name, cgroup) ==
    \/ name = Main /\ main_cgroup' = cgroup /\ UNCHANGED child_cgroups
    \/ /\ name # Main
       /\ \E i \in Rows : FirstRow(name, i)
                          /\ child_cgroups' = [child_cgroups EXCEPT ![i] = cgroup]
       /\ UNCHANGED main_cgroup

\* What each use of an array can do wrong.  The system ends a program that
\* follows a null pointer, and may end one that did anything else wrong.
FreeOf(array) == IF array = "freed" THEN {"double free"} ELSE {}
UseOf(array) == CASE array = "freed" -> {"use after free"}
                  [] array = "null"  -> {"null pointer"}
                  [] OTHER           -> {}
LossOf(arrays) == IF "live" \in arrays THEN {"leak"} ELSE {}
Scan == IF child_cgroups = <<>> THEN {} ELSE UseOf(children)

Blame(what, next) ==
    /\ wrong' = wrong \cup what
    /\ pc' = IF "null pointer" \in what THEN "crashed" ELSE next

Crash ==
    /\ wrong # {} /\ pc # "crashed"
    /\ pc' = "crashed"
    /\ UNCHANGED <<manager, kernel, faults, slips, wrong>>

\* memset forgets the arrays of a manager that is in use.
volcom_rcsmngr_init ==
    /\ pc = "ready"
    /\ \/ /\ is_initialized' = TRUE
          /\ main_cgroup' = [NewCgroup(Main) EXCEPT !.is_created = FALSE]
          /\ child_cgroups' = <<>> /\ children' = "live" /\ child_capacity' = InitChildren
          /\ UNCHANGED faults
       \/ Fault /\ Zeroed              \* out of memory: cleanup of what there is
    /\ Blame(LossOf({main_cgroup.pids, children} \cup {child_cgroups[i].pids : i \in Rows}),
             "ready")
    /\ slips' = IF is_initialized THEN slips \cup {"initialized twice"} ELSE slips
    /\ UNCHANGED kernel

\* The directory may be there already.  Enabling the controllers can fail
\* without being noticed.
volcom_create_main_cgroup ==
    /\ pc = "ready" /\ is_initialized /\ ~main_cgroup.is_created
    /\ \/ /\ dirs' = dirs \cup {Main}
          /\ main_cgroup' = [main_cgroup EXCEPT !.is_created = TRUE]
          /\ UNCHANGED faults
       \/ /\ Fault                     \* no directory, or one without limits
          /\ dirs' \in {dirs, dirs \cup {Main}}
          /\ UNCHANGED main_cgroup
    /\ UNCHANGED <<pc, is_initialized, child_cgroups, children, child_capacity, member,
                   slips, wrong>>

\* rmdir succeeds: nobody is in the cgroup, and nothing is below it.
Removable(d) ==
    /\ d \in dirs
    /\ \A p \in Pids : member[p] # d
    /\ d = Main => dirs = {Main}

\* mkdir, the limits, and the pid array, in this order; each may fail and
\* leaves what was done before, but for rmdir after the last.
MakeChild(name) ==
    \/ /\ child_cgroups' = Append(child_cgroups, NewCgroup(name))
       /\ dirs' = dirs \cup {name}
       /\ slips' = IF name \in Children THEN slips \cup {"named twice"} ELSE slips
       /\ UNCHANGED faults
    \/ /\ Fault
       /\ dirs' \in {dirs, dirs \cup {name}}
       /\ UNCHANGED <<child_cgroups, slips>>
    \/ /\ Fault
       /\ dirs' = IF name \notin dirs \/ Removable(name) THEN dirs \ {name} ELSE dirs
       /\ slips' = slips \cup {"out of memory"}
       /\ UNCHANGED child_cgroups

OverFull == Len(child_cgroups) > child_capacity      \* mutant: one row too late
TableFull == Len(child_cgroups) >= child_capacity

\* realloc of no array allocates one; if it fails, the old array is forgotten.
volcom_create_child_cgroup(name) ==
    /\ pc = "ready" /\ is_initialized /\ main_cgroup.is_created
    /\ Len(child_cgroups) < MaxChildren
    /\ child_capacity' = IF TableFull THEN child_capacity * 2 ELSE child_capacity
    /\ \/ /\ children' = IF TableFull /\ children = "null" THEN "live" ELSE children
          /\ Blame(UseOf(children'), "ready")
          /\ MakeChild(name)
       \/ /\ TableFull /\ Fault
          /\ children' = "null"
          /\ Blame(LossOf({children}), "ready")
          /\ slips' = slips \cup {"out of memory"}
          /\ UNCHANGED <<child_cgroups, dirs>>
    /\ UNCHANGED <<is_initialized, main_cgroup, member>>

-----------------------------------------------------------------------------
\* The kernel may move a process that has not ended, but to no cgroup that has
\* controllers enabled for its children, as the main cgroup has.  fprintf fills a
\* buffer that fclose writes, and nobody looks at what fclose returns: a refused
\* write goes unnoticed, and the pid is recorded all the same.
Joins(p, d) == d # Main /\ member[p] # "ended"
Write(p, d) ==
    \/ Joins(p, d) /\ member' = [member EXCEPT ![p] = d]
    \/ UNCHANGED member

\* How the pid array may come out: grown if it has to be, or lost.
Full(cgroup) == Len(cgroup.list) >= cgroup.pid_capacity
Room(cgroup) == IF Full(cgroup)
                THEN [cgroup EXCEPT !.pid_capacity = @ * 2,
                                    !.pids = IF @ = "null" THEN "live" ELSE @]
                ELSE cgroup
Recorded(cgroup, p) == [Room(cgroup) EXCEPT !.list = Append(@, p)]

AddPid(name, cgroup, p) ==
    /\ cgroup.is_created
    /\ Len(cgroup.list) < MaxPids
    /\ cgroup.name \in dirs           \* else fopen fails
    /\ Write(p, cgroup.name)
    /\ \/ /\ Replace(name, Recorded(cgroup, p))
          /\ Blame(Scan \cup UseOf(Room(cgroup).pids), "ready")
          /\ UNCHANGED <<faults, slips>>
       \/ /\ Full(cgroup) /\ Fault     \* realloc fails
          /\ Replace(name, [Room(cgroup) EXCEPT !.pids = "null"])
          /\ Blame(Scan \cup LossOf({cgroup.pids}), "ready")
          /\ slips' = slips \cup {"out of memory"}
    /\ UNCHANGED <<is_initialized, children, child_capacity, dirs>>

volcom_add_pid_to_cgroup(name, p) ==
    pc = "ready" /\ is_initialized /\ \E cgroup \in Target(name) : AddPid(name, cgroup, p)

\* The pid leaves the array, at its first place; the process stays where it is.
RemovePid(name, cgroup, p) ==
    /\ \E k \in DOMAIN cgroup.list :
          /\ cgroup.list[k] = p /\ \A l \in 1 .. k - 1 : cgroup.list[l] # p
          /\ Replace(name, [cgroup EXCEPT !.list = RemoveAt(@, k)])
    /\ Blame(Scan \cup UseOf(cgroup.pids), "ready")
    /\ UNCHANGED <<is_initialized, children, child_capacity, kernel, faults, slips>>

\* volcom_get_cgroup_pids copies the array, volcom_print_cgroup_info prints it,
\* and a search for a pid that is not there reads it to its end.
ReadPids(cgroup) ==
    /\ cgroup.list # <<>>
    /\ Blame(Scan \cup UseOf(cgroup.pids), "ready")
    /\ UNCHANGED <<manager, kernel, faults, slips>>

volcom_remove_pid_from_cgroup(name, p) ==
    /\ pc = "ready" /\ is_initialized
    /\ \E cgroup \in Target(name) : RemovePid(name, cgroup, p)

volcom_get_cgroup_pids(name) ==
    /\ pc = "ready" /\ is_initialized
    /\ \E cgroup \in Target(name) : ReadPids(cgroup)

\* The array is freed first, whether or not the directory can be removed.
LastRow(i) == child_cgroups' = SubSeq(child_cgroups, 1, Len(child_cgroups) - 1)
KeepRow(i) == UNCHANGED child_cgroups  \* mutants: no row is shifted, or counted off
RemoveRow(i) == child_cgroups' = RemoveAt(child_cgroups, i)

DeleteChild(name) ==
    \E i \in Rows :
        /\ FirstRow(name, i)
        /\ Blame(Scan \cup FreeOf(child_cgroups[i].pids), pc)
        /\ \/ /\ Removable(name)
              /\ dirs' = dirs \ {name}
              /\ RemoveRow(i)
              /\ UNCHANGED slips
           \/ /\ ~Removable(name)
              /\ child_cgroups' = [child_cgroups EXCEPT ![i].pids =
                                      IF @ = "null" THEN @ ELSE "freed"]
              /\ slips' = slips \cup {"removal refused"}
              /\ UNCHANGED dirs
        /\ UNCHANGED <<is_initialized, main_cgroup, children, child_capacity, member, faults>>

volcom_delete_child_cgroup(name) == pc = "ready" /\ is_initialized /\ DeleteChild(name)

\* The loop takes the first row until no row is left.
volcom_delete_main_cgroup ==
    /\ pc = "ready" /\ is_initialized
    /\ pc' = "delete_main"
    /\ UNCHANGED <<manager, kernel, faults, slips, wrong>>

DeleteNext ==
    /\ pc = "delete_main"
    /\ child_cgroups # <<>>
    /\ DeleteChild(child_cgroups[1].name)

DeleteMain ==
    /\ pc = "delete_main"
    /\ child_cgroups = <<>>
    /\ pc' = "ready"
    /\ \/ /\ main_cgroup.is_created /\ Removable(Main)
          /\ dirs' = dirs \ {Main}
          /\ main_cgroup' = [main_cgroup EXCEPT !.is_created = FALSE]
       \/ /\ ~main_cgroup.is_created \/ ~Removable(Main)
          /\ UNCHANGED <<dirs, main_cgroup>>
    /\ UNCHANGED <<is_initialized, child_cgroups, children, child_capacity, member, faults,
                   slips, wrong>>

\* Directories are left alone.
volcom_rcsmngr_cleanup ==
    /\ pc = "ready"
    /\ Blame(FreeOf(main_cgroup.pids) \cup Scan \cup FreeOf(children)
                \cup UNION {FreeOf(child_cgroups[i].pids) : i \in Rows}, "ready")
    /\ Zeroed
    /\ UNCHANGED <<kernel, faults, slips>>

\* A process ends, by itself or because the caller kills it.
Exit(p) ==
    /\ member[p] # "ended"
    /\ member' = [member EXCEPT ![p] = "ended"]
    /\ UNCHANGED <<pc, manager, dirs, faults, slips, wrong>>

Next ==
    \/ volcom_rcsmngr_init \/ volcom_create_main_cgroup
    \/ \E name \in Names :
          volcom_create_child_cgroup(name) \/ volcom_delete_child_cgroup(name)
    \/ \E name \in Names \cup {Main} :
          \/ volcom_get_cgroup_pids(name)
          \/ \E p \in Pids : \/ volcom_add_pid_to_cgroup(name, p)
                             \/ volcom_remove_pid_from_cgroup(name, p)
    \/ volcom_delete_main_cgroup \/ DeleteNext \/ DeleteMain
    \/ volcom_rcsmngr_cleanup
    \/ Crash
    \/ \E p \in Pids : Exit(p)

Spec == Init /\ [][Next]_vars

\* The loop goes on once it is entered.  That a process ever ends is not assumed: the
\* program neither kills the node servers it starts nor waits for them.
FairSpec == Spec /\ WF_vars(DeleteNext) /\ WF_vars(DeleteMain)

-----------------------------------------------------------------------------
CgroupType(cgroup) ==
    /\ cgroup.name \in Names \cup {Main} /\ cgroup.is_created \in BOOLEAN
    /\ cgroup.pids \in {"live", "freed", "null"}
    /\ cgroup.list \in Seq(Pids) /\ cgroup.pid_capacity \in Nat
    /\ Len(cgroup.list) <= cgroup.pid_capacity

\* Type correctness: above all, no row and no pid is written past the end of its
\* array, through every order of growing, removing, deleting and starting anew.
TypeOK ==
    /\ pc \in {"ready", "delete_main", "crashed"}
    /\ is_initialized \in BOOLEAN /\ children \in {"live", "null"}
    /\ CgroupType(main_cgroup) /\ \A i \in Rows : CgroupType(child_cgroups[i])
    /\ child_capacity \in Nat /\ Len(child_cgroups) <= child_capacity
    /\ dirs \subseteq Names \cup {Main}
    /\ member \in [Pids -> Names \cup {"outside", "ended"}]
    /\ faults \in 0 .. MaxFaults

\* Every array is freed once and not used after, unless the kernel refused to
\* remove a directory before (delete_child frees the array first and keeps the
\* row); none is lost, unless the manager was initialized twice or memory ran
\* out; and no null pointer is followed unless memory ran out.
HeapSound ==
    /\ wrong \cap {"double free", "use after free"} # {} => "removal refused" \in slips
    /\ "leak" \in wrong => slips \cap {"initialized twice", "out of memory"} # {}
    /\ "null pointer" \in wrong => "out of memory" \in slips

\* The table never promises more than the kernel has: each child cgroup in it has
\* its directory, under the main one, as long as no name was given twice and no
\* allocation failed.
RowsHaveDirectories ==
    slips \cap {"named twice", "out of memory"} = {} =>
        /\ Children \subseteq dirs
        /\ main_cgroup.is_created => Main \in dirs

\* volcom_delete_main_cgroup repeats until every child is gone.  It comes to an end
\* once no process is left in a child cgroup, unless a name was given twice or memory
\* ran out before, which leaves rows without a directory of their own: whatever was
\* removed, refused or freed before, nothing else keeps it in the loop.
NobodyInside == \A p \in Pids : member[p] \notin Names
DeleteMainEnds ==
    (pc = "delete_main" /\ NobodyInside /\ slips \cap {"named twice", "out of memory"} = {})
        ~> pc # "delete_main"
=============================================================================
