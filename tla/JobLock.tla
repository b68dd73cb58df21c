------------------------------ MODULE JobLock ------------------------------
(***************************************************************************)
(* What a named middlewared job lock promises (spec.md section 5: "one    *)
(* in-flight transition at a time", start and stop "never interleave").   *)
(* A job takes the lock when it is free and enters its locked section;   *)
(* only the holder leaves the section, and leaving releases the lock.     *)
(* ActiveDirectory (lock AD_start_stop) and SysDataset (lock              *)
(* sysdataset_update) implement this specification.                       *)
(***************************************************************************)
CONSTANTS
    Jobs,   \* the jobs that take the lock
    Free    \* the value of holder when no job has it

VARIABLES
    holder,   \* the job holding the lock, or Free
    running   \* the jobs inside their locked section

vars == <<holder, running>>

Init ==
    /\ holder = Free
    /\ running = {}

(* The job queue starts job j: the lock is free, j takes it and runs.     *)
Acquire(j) ==
    /\ holder = Free
    /\ holder' = j
    /\ running' = {j}

(* Job j, the holder, ends (returns or raises) and releases the lock.     *)
Release(j) ==
    /\ holder = j
    /\ j \in running
    /\ holder' = Free
    /\ running' = running \ {j}

Next == \E j \in Jobs : Acquire(j) \/ Release(j)

Spec == Init /\ [][Next]_vars
=============================================================================
