--------------------------- MODULE SysDatasetProofs ---------------------------
(***************************************************************************)
(* Proofs about SysDataset for every set of pools and every bound: the    *)
(* type invariant, and that do_update under the job lock                  *)
(* 'sysdataset_update' implements the abstract job lock of JobLock        *)
(* (JobLockRefined), through the invariants LockOwner and LockHeld.       *)
(***************************************************************************)
EXTENDS SysDataset, TLAPS

(* The records of the actor table: an idle slot, and a job as submitted. *)
LEMMA IdleType == Idle \in Procs
  BY SysDatasetAssumption DEF Idle, Procs, Pcs, AllPools

LEMMA JobType ==
    ASSUME NEW pool \in AllPools \cup {NoPool}, NEW excl \in AllPools \cup {NoPool},
           NEW w \in BOOLEAN
    PROVE  Job(pool, excl, w) \in Procs
  BY IdleType DEF Job, Procs, Pcs

(* The end of a call chain keeps the actor table and the lock typed,      *)
(* whichever table p (the current one with a slot reset) it starts from.  *)
LEMMA FinishType ==
    ASSUME TypeOK, NEW a \in Actors, NEW err \in BOOLEAN,
           NEW p \in [Actors -> Procs], Finish(a, err, p)
    PROVE  proc' \in [Actors -> Procs] /\ lock' \in JobIds \cup {0}
  <1>1. CASE a = Hook
    BY <1>1, IdleType DEF Finish, TypeOK, Actors
  <1>2. CASE a # Hook
    <2>1. lock' = 0
      BY <1>2 DEF Finish
    <2>2. [p[a] EXCEPT !.pc = "done", !.err = err] \in Procs
      <3>1. p[a] \in Procs
        OBVIOUS
      <3>2. "done" \in Pcs
        BY DEF Pcs
      <3>3. QED
        BY <3>1, <3>2 DEF Procs
    <2>3. proc' \in [Actors -> Procs]
      BY <1>2, <2>2, IdleType DEF Finish
    <2>4. QED
      BY <2>1, <2>3
  <1>3. QED
    BY <1>1, <1>2

(* Moving an actor to another program counter keeps the table typed.      *)
LEMMA GotoType ==
    ASSUME TypeOK, NEW a \in Actors, NEW pc \in Pcs, Goto(a, pc)
    PROVE  proc' \in [Actors -> Procs]
  BY DEF Goto, TypeOK, Procs

(* The pool the configuration names is a pool.                            *)
LEMMA ConfigPoolType == TypeOK => ConfigPool \in AllPools
  BY DEF ConfigPool, TypeOK, AllPools


(* Changing one field of an actor's record keeps it a record of Procs.    *)
LEMMA FieldType ==
    ASSUME NEW r \in Procs
    PROVE  /\ \A pc \in Pcs : [r EXCEPT !.pc = pc] \in Procs
           /\ \A q \in AllPools \cup {NoPool} : [r EXCEPT !.pool = q] \in Procs
           /\ \A q \in AllPools : /\ [r EXCEPT !.old = q] \in Procs
                                  /\ [r EXCEPT !.new = q] \in Procs
                                  /\ [r EXCEPT !.cfg = q] \in Procs
           /\ \A k \in JobIds \cup {0} : [r EXCEPT !.sub = k] \in Procs
           /\ \A b \in BOOLEAN : [r EXCEPT !.err = b] \in Procs
  BY DEF Procs

(* A step that changes only the actor table and the lock keeps the state *)
(* typed when those two stay typed.                                        *)
LEMMA ProcFrame ==
    ASSUME TypeOK, proc' \in [Actors -> Procs], lock' \in JobIds \cup {0},
           UNCHANGED <<imported, dbPool, hasDs, fresh, mounted, tmpMnt, svcUp,
                       adOn, requests, events>>
    PROVE  TypeOK'
  BY DEF TypeOK

(* A pool event changes the imported pools, counts one event and sets    *)
(* the pool manager's record; it keeps the state typed when those do.     *)
LEMMA EventFrame ==
    ASSUME TypeOK, NEW r \in Procs, proc' = [proc EXCEPT ![Hook] = r],
           imported' \subseteq DataPools, events < MaxEvents, events' = events + 1,
           UNCHANGED <<dbPool, hasDs, fresh, mounted, tmpMnt, svcUp, lock, adOn, requests>>
    PROVE  TypeOK'
  <1>1. proc' \in [Actors -> Procs]
    BY DEF TypeOK, Actors
  <1>2. events' \in 0..MaxEvents
    BY SysDatasetAssumption DEF TypeOK
  <1>3. QED
    BY <1>1, <1>2 DEF TypeOK

(* setup, run by any actor, keeps the state typed: its first step either *)
(* submits a job into a free slot or records the pool it read.            *)
LEMMA SubmitType ==
    ASSUME TypeOK, NEW a \in Actors, NEW k \in FreeSlots,
           NEW q \in AllPools \cup {NoPool}, NEW ex \in AllPools \cup {NoPool},
           NEW pc \in Pcs, Submit(a, k, q, ex, pc)
    PROVE  proc' \in [Actors -> Procs]
  <1>1. k \in Actors /\ k \in JobIds \cup {0} /\ Job(q, ex, TRUE) \in Procs
    BY JobType DEF FreeSlots, Actors
  <1>2. QED
    BY <1>1, FieldType DEF Submit, TypeOK

LEMMA SetupCheckType ==
    ASSUME TypeOK, NEW a \in Actors, SetupCheck(a)
    PROVE  TypeOK'
  <1> DEFINE cfg == ConfigPool
             excl == proc[a].excl
  <1>1. cfg \in AllPools /\ excl \in AllPools \cup {NoPool} /\ proc[a] \in Procs
    BY ConfigPoolType DEF TypeOK, Procs
  <1>2. "su_wait" \in Pcs /\ "su_mount" \in Pcs
    BY DEF Pcs
  <1>3. Candidates(excl) \subseteq AllPools
    BY DEF Candidates, TypeOK, AllPools
  <1>4. [proc EXCEPT ![a].pc = "su_mount", ![a].cfg = cfg] \in [Actors -> Procs]
    BY <1>1, <1>2, FieldType DEF TypeOK
  <1>5. proc' \in [Actors -> Procs]
    BY <1>1, <1>2, <1>3, <1>4, SubmitType DEF SetupCheck
  <1>6. QED
    BY <1>5, ProcFrame DEF SetupCheck, TypeOK

(* Reading the result of the job setup waited for keeps the state typed. *)
LEMMA SetupWaitType ==
    ASSUME TypeOK, NEW a \in Actors, SetupWait(a)
    PROVE  TypeOK'
  <1> DEFINE k == proc[a].sub
  <1>1. k \in Actors /\ proc[k].err \in BOOLEAN
    BY DEF TypeOK, Procs, Actors, Hook
  <1>2. [proc EXCEPT ![k] = Idle] \in [Actors -> Procs]
    BY <1>1, IdleType DEF TypeOK
  <1>3. proc' \in [Actors -> Procs] /\ lock' \in JobIds \cup {0}
    BY <1>1, <1>2, FinishType DEF SetupWait
  <1>4. QED
    BY <1>3, ProcFrame DEF SetupWait

(* The mount at the end of setup keeps the state typed.                    *)
LEMMA SetupMountType ==
    ASSUME TypeOK, NEW a \in Actors, SetupMount(a)
    PROVE  TypeOK'
  <1> DEFINE cfg == proc[a].cfg
  <1>1. cfg \in AllPools
    BY DEF TypeOK, Procs
  <1>2. proc' \in [Actors -> Procs] /\ lock' \in JobIds \cup {0}
    BY FinishType DEF SetupMount, TypeOK
  <1>3. hasDs' \subseteq AllPools /\ mounted' \in AllPools \cup {NoPool}
    BY <1>1 DEF SetupMount, MountAt, TypeOK
  <1>4. QED
    BY <1>2, <1>3 DEF SetupMount, TypeOK

(* do_update's validation either raises or records the pools it read.    *)
LEMMA UpdateValidateType ==
    ASSUME TypeOK, NEW j \in JobIds, UpdateValidate(j)
    PROVE  TypeOK'
  <1> DEFINE cur == ConfigPool
             req == proc[j].pool
             new == IF req # NoPool THEN req ELSE AutoPick(proc[j].excl)
  <1>1. j \in Actors /\ cur \in AllPools /\ new \in AllPools \cup {NoPool}
    BY ConfigPoolType DEF Actors, TypeOK, Procs, AutoPick
  <1>2. [proc EXCEPT ![j].pc = "write", ![j].old = cur, ![j].pool = new]
          \in [Actors -> Procs]
    <2>1. "write" \in Pcs
      BY DEF Pcs
    <2>2. QED
      BY <1>1, <2>1, FieldType DEF TypeOK
  <1>3. proc' \in [Actors -> Procs] /\ lock' \in JobIds \cup {0}
    BY <1>1, <1>2, FinishType DEF UpdateValidate, TypeOK
  <1>4. QED
    BY <1>3, ProcFrame DEF UpdateValidate

(* migrate's first step creates and mounts the target or raises.          *)
LEMMA MigratePrepType ==
    ASSUME TypeOK, NEW j \in JobIds, MigratePrep(j)
    PROVE  TypeOK'
  <1> DEFINE to == proc[j].new
  <1>1. j \in Actors /\ to \in AllPools
    BY DEF Actors, TypeOK, Procs
  <1>2. "mg_stop" \in Pcs
    BY DEF Pcs
  <1>3. proc' \in [Actors -> Procs] /\ lock' \in JobIds \cup {0}
    BY <1>1, <1>2, FinishType, GotoType DEF MigratePrep, TypeOK
  <1>4. QED
    BY <1>1, <1>3 DEF MigratePrep, TypeOK

(* The program counters the model moves actors to are program counters. *)
LEMMA PcsFacts ==
    /\ LockedPcs \subseteq Pcs
    /\ {"idle", "queued", "done", "exp_check", "exp_wait", "exp_do"} \subseteq Pcs
  BY DEF LockedPcs, Pcs

(* Every step of a do_update job keeps the state typed.                   *)
LEMMA JobStepType ==
    ASSUME TypeOK, NEW j \in JobIds, JobStep(j)
    PROVE  TypeOK'
  <1> USE SysDatasetAssumption, PcsFacts
  <1> j \in Actors
    BY DEF Actors
  <1>1. CASE UpdateAcquire(j)
    BY <1>1, GotoType DEF UpdateAcquire, TypeOK, LockedPcs
  <1>2. CASE UpdateValidate(j)
    BY <1>2, UpdateValidateType
  <1>3. CASE UpdateWrite(j)
    BY <1>3 DEF UpdateWrite, TypeOK, Procs, AllPools, Pcs
  <1>4. CASE MigratePrep(j)
    BY <1>4, MigratePrepType
  <1>5. CASE MigrateStop(j)
    BY <1>5, GotoType DEF MigrateStop, TypeOK, LockedPcs
  <1>6. CASE MigrateRsync(j)
    BY <1>6, GotoType DEF MigrateRsync, TypeOK, Procs, LockedPcs
  <1>7. CASE MigrateUmount(j)
    BY <1>7, GotoType DEF MigrateUmount, TypeOK, Procs, LockedPcs
  <1>8. CASE MigrateSwap(j)
    BY <1>8, GotoType DEF MigrateSwap, MountAt, TypeOK, Procs, LockedPcs
  <1>9. CASE MigrateFinally(j)
    BY <1>9, FinishType, GotoType DEF MigrateFinally, TypeOK, LockedPcs
  <1>10. CASE SetupCheck(j)
    BY <1>10, SetupCheckType
  <1>11. CASE SetupWait(j)
    BY <1>11, SetupWaitType
  <1>12. CASE SetupMount(j)
    BY <1>12, SetupMountType
  <1>13. QED
    BY <1>1, <1>2, <1>3, <1>4, <1>5, <1>6, <1>7, <1>8, <1>9, <1>10, <1>11,
       <1>12 DEF JobStep

(* Every step of the pool manager and its hooks keeps the state typed.    *)
LEMMA HookStepType ==
    ASSUME TypeOK, HookStep
    PROVE  TypeOK'
  <1> USE SysDatasetAssumption, PcsFacts
  <1> Hook \in Actors
    BY DEF Actors
  <1>1. CASE ExportCheck
    <2>1. proc[Hook].pool \in AllPools \cup {NoPool}
      BY DEF TypeOK, Procs
    <2>2. "exp_wait" \in Pcs /\ "exp_do" \in Pcs
      BY DEF Pcs
    <2>3. proc' \in [Actors -> Procs]
      BY <1>1, <2>1, <2>2, SubmitType, GotoType DEF ExportCheck
    <2>4. QED
      BY <1>1, <2>3, ProcFrame DEF ExportCheck, TypeOK
  <1>2. CASE ExportWait
    <2> DEFINE k == proc[Hook].sub
    <2>1. k \in Actors
      BY DEF TypeOK, Procs, Actors, Hook
    <2>2. [proc EXCEPT ![k] = Idle] \in [Actors -> Procs]
      BY <2>1, IdleType DEF TypeOK
    <2>3. "exp_do" \in Pcs
      BY DEF Pcs
    <2>4. proc' \in [Actors -> Procs]
      BY <1>2, <2>2, <2>3, IdleType, FieldType DEF ExportWait
    <2>5. QED
      BY <1>2, <2>4, ProcFrame DEF ExportWait, TypeOK
  <1>3. CASE ExportDo
    BY <1>3, IdleType DEF ExportDo, TypeOK
  <1>4. CASE SetupCheck(Hook)
    BY <1>4, SetupCheckType
  <1>5. CASE SetupWait(Hook)
    BY <1>5, SetupWaitType
  <1>6. CASE SetupMount(Hook)
    BY <1>6, SetupMountType
  <1>7. QED
    BY <1>1, <1>2, <1>3, <1>4, <1>5, <1>6 DEF HookStep

(* Pool events, client calls, AD changes and service writes keep it too. *)
LEMMA EnvStepType ==
    ASSUME TypeOK,
           \/ \E p \in DataPools : PoolImport(p) \/ PoolCreate(p) \/ PoolExport(p)
           \/ \E p \in AllPools \cup {NoPool} : UserUpdate(p)
           \/ ADChange
           \/ ServiceWrite
    PROVE  TypeOK'
  <1> USE SysDatasetAssumption, PcsFacts
  <1> Hook \in Actors
    BY DEF Actors
  <1>0. /\ [Idle EXCEPT !.pc = "su_check"] \in Procs
        /\ \A p \in DataPools : [Idle EXCEPT !.pc = "exp_check", !.pool = p] \in Procs
    BY IdleType, FieldType DEF Pcs, AllPools
  <1>1. ASSUME NEW p \in DataPools, PoolImport(p) PROVE TypeOK'
    <2>1. imported' \subseteq DataPools
      BY <1>1 DEF PoolImport, TypeOK
    <2>2. QED
      BY <1>0, <1>1, <2>1, EventFrame DEF PoolImport
  <1>2. ASSUME NEW p \in DataPools, PoolCreate(p) PROVE TypeOK'
    <2>1. imported' \subseteq DataPools
      BY <1>2 DEF PoolCreate, TypeOK
    <2>2. (IF ConfigPool = Boot THEN [Idle EXCEPT !.pc = "su_check"] ELSE Idle) \in Procs
      BY <1>0, IdleType
    <2>3. QED
      BY <1>2, <2>1, <2>2, EventFrame DEF PoolCreate
  <1>3. ASSUME NEW p \in DataPools, PoolExport(p) PROVE TypeOK'
    <2>1. imported' \subseteq DataPools
      BY <1>3 DEF PoolExport, TypeOK
    <2>2. [Idle EXCEPT !.pc = "exp_check", !.pool = p] \in Procs
      BY <1>0
    <2>3. QED
      BY <1>3, <2>1, <2>2, EventFrame DEF PoolExport
  <1>4. ASSUME NEW p \in AllPools \cup {NoPool}, UserUpdate(p) PROVE TypeOK'
    <2>1. PICK k \in FreeSlots : proc' = [proc EXCEPT ![k] = Job(p, NoPool, FALSE)]
      BY <1>4 DEF UserUpdate
    <2>2. k \in Actors /\ Job(p, NoPool, FALSE) \in Procs
      BY JobType DEF FreeSlots, Actors
    <2>3. proc' \in [Actors -> Procs]
      BY <2>1, <2>2 DEF TypeOK
    <2>4. requests' \in 0..MaxRequests
      BY <1>4 DEF UserUpdate, TypeOK
    <2>5. QED
      BY <1>4, <2>3, <2>4 DEF UserUpdate, TypeOK
  <1>5. CASE ADChange
    BY <1>5 DEF ADChange, TypeOK
  <1>6. CASE ServiceWrite
    BY <1>6 DEF ServiceWrite, TypeOK
  <1>7. QED
    BY <1>1, <1>2, <1>3, <1>4, <1>5, <1>6

(* Type correctness of the system dataset model: every reachable state   *)
(* gives each variable of do_update, migrate, setup and the pool hooks a *)
(* value of its type, for all pools and bounds.                           *)
THEOREM TypeCorrect == Spec => []TypeOK
  <1>1. Init => TypeOK
    BY SysDatasetAssumption, IdleType DEF Init, TypeOK, AllPools, Actors
  <1>2. TypeOK /\ [Next]_vars => TypeOK'
    <2> SUFFICES ASSUME TypeOK, [Next]_vars PROVE TypeOK'
      OBVIOUS
    <2>1. CASE \E j \in JobIds : JobStep(j)
      BY <2>1, JobStepType
    <2>2. CASE HookStep
      BY <2>2, HookStepType
    <2>3. CASE UNCHANGED vars
      BY <2>3 DEF vars, TypeOK
    <2>4. QED
      BY <2>1, <2>2, <2>3, EnvStepType DEF Next
  <1>3. QED
    BY <1>1, <1>2, PTL DEF Spec

-----------------------------------------------------------------------------
(* A job past the queue holds the job lock, so at most one job is in the  *)
(* locked section.  With TypeOK it is inductive: the queue only starts    *)
(* a job when the lock is free, so when it does no job is past the queue, *)
(* and the lock is released only by the job that holds it, when it ends.  *)
LockOwner == \A j \in JobIds : proc[j].pc \in LockedPcs => lock = j

IInv == TypeOK /\ LockOwner

(* A step that leaves the lock alone and moves no job into the locked     *)
(* section keeps LockOwner.                                                *)
LEMMA KeepOwner ==
    ASSUME LockOwner, lock' = lock,
           \A k \in JobIds : proc'[k].pc \in LockedPcs => proc[k].pc \in LockedPcs
    PROVE  LockOwner'
  BY DEF LockOwner

(* Moving actor a keeps LockOwner when a is the lock holder or is moved   *)
(* outside the locked section.                                             *)
LEMMA GotoOwner ==
    ASSUME TypeOK, LockOwner, NEW a \in Actors, NEW pc, Goto(a, pc), lock' = lock,
           a \in JobIds /\ pc \in LockedPcs => lock = a
    PROVE  LockOwner'
  BY DEF Goto, LockOwner, TypeOK

(* The end of a call chain keeps LockOwner: a job that ends holds the     *)
(* lock, so no other job is in the section when it frees it.              *)
LEMMA FinishOwner ==
    ASSUME TypeOK, LockOwner, NEW a \in Actors, NEW err, NEW p \in [Actors -> Procs],
           Finish(a, err, p),
           \A k \in JobIds \ {a} : p[k].pc \in LockedPcs => proc[k].pc \in LockedPcs,
           a \in JobIds => lock = a
    PROVE  LockOwner'
  <1>1. Hook \notin JobIds
    BY DEF Hook, JobIds
  <1>2. CASE a = Hook
    <2>1. lock' = lock /\ \A k \in JobIds : proc'[k] = p[k]
      BY <1>1, <1>2 DEF Finish, Actors
    <2>2. QED
      BY <1>1, <1>2, <2>1 DEF LockOwner
  <1>3. CASE a # Hook
    <2>1. a \in JobIds /\ lock = a /\ lock' = 0
      BY <1>3 DEF Finish, Actors
    <2>2. proc'[a] = IF p[a].waited THEN [p[a] EXCEPT !.pc = "done", !.err = err]
                                    ELSE Idle
      BY <1>3 DEF Finish
    <2>3. p[a] \in Procs
      OBVIOUS
    <2>4. [p[a] EXCEPT !.pc = "done", !.err = err].pc = "done" /\ Idle.pc = "idle"
      BY <2>3 DEF Procs, Idle
    <2>5. proc'[a].pc \notin LockedPcs
      BY <2>2, <2>4 DEF LockedPcs
    <2>6. \A k \in JobIds \ {a} : proc'[k] = p[k]
      BY <1>3 DEF Finish, Actors
    <2>7. \A k \in JobIds \ {a} : proc'[k].pc \notin LockedPcs
      BY <2>1, <2>6 DEF LockOwner
    <2>8. QED
      BY <2>1, <2>5, <2>7 DEF LockOwner
  <1>4. QED
    BY <1>2, <1>3

(* Submitting a job keeps LockOwner: the new job is queued, outside the   *)
(* section, and the submitter waits where it was (holding the lock if it  *)
(* is a job in the section).                                               *)
LEMMA SubmitOwner ==
    ASSUME TypeOK, LockOwner, NEW a \in Actors, NEW k \in FreeSlots,
           NEW pool, NEW excl, NEW waitPc,
           Submit(a, k, pool, excl, waitPc), lock' = lock,
           a \in JobIds /\ waitPc \in LockedPcs => lock = a
    PROVE  LockOwner'
  <1>0. k \in JobIds /\ k \in Actors /\ proc[a] \in Procs
    BY DEF FreeSlots, Actors, TypeOK
  <1>1. proc'[a].pc = waitPc
    BY <1>0 DEF Submit, Procs, Job, Idle, TypeOK
  <1>2. k # a => proc'[k].pc = "queued"
    BY <1>0 DEF Submit, Job, Idle, TypeOK
  <1>3. \A i \in JobIds \ {a, k} : proc'[i] = proc[i]
    BY DEF Submit, TypeOK, Actors
  <1>4. QED
    BY <1>1, <1>2, <1>3 DEF LockOwner, LockedPcs

(* A step of the lock holder j keeps LockOwner when it keeps the lock and *)
(* moves no other job into the section, or when it ends j's call chain.  *)
LEMMA HolderStep ==
    ASSUME TypeOK, LockOwner, NEW j \in JobIds, lock = j,
           \/ /\ lock' = lock
              /\ \A k \in JobIds \ {j} : proc'[k].pc \in LockedPcs => proc[k].pc \in LockedPcs
           \/ Finish(j, TRUE, proc)
    PROVE  LockOwner'
  <1>1. j \in Actors
    BY DEF Actors
  <1>2. CASE lock' = lock
                /\ \A k \in JobIds \ {j} : proc'[k].pc \in LockedPcs => proc[k].pc \in LockedPcs
    BY <1>2 DEF LockOwner
  <1>3. CASE Finish(j, TRUE, proc)
    BY <1>1, <1>3, FinishOwner DEF TypeOK
  <1>4. QED
    BY <1>2, <1>3

(* Every step of a do_update job keeps LockOwner: the job only leaves the *)
(* queue with the lock, and every later step is taken by the holder.      *)
LEMMA JobStepOwner ==
    ASSUME TypeOK, LockOwner, NEW j \in JobIds, JobStep(j)
    PROVE  LockOwner'
  <1> DEFINE Same == \A k \in JobIds \ {j} : proc'[k] = proc[k]
             Held == lock' = lock /\ Same
  <1>0. /\ j \in Actors /\ Hook \notin JobIds
        /\ proc[j].pc \in LockedPcs => lock = j
        /\ Held => \A k \in JobIds \ {j} : proc'[k].pc \in LockedPcs => proc[k].pc \in LockedPcs
    BY DEF Actors, Hook, JobIds, LockOwner
  <1>1. CASE UpdateAcquire(j)
    <2>1. \A k \in JobIds : proc[k].pc \notin LockedPcs
      BY <1>1 DEF UpdateAcquire, LockOwner, JobIds
    <2>2. QED
      BY <1>1, <2>1 DEF UpdateAcquire, Goto, LockOwner, TypeOK
  <1>2. CASE UpdateValidate(j)
    <2>1. Held \/ Finish(j, TRUE, proc)
      BY <1>2 DEF UpdateValidate, TypeOK, Actors
    <2>2. QED
      BY <1>0, <1>2, <2>1, HolderStep DEF UpdateValidate, LockedPcs
  <1>3. CASE UpdateWrite(j)
    <2>1. Held
      BY <1>3 DEF UpdateWrite, TypeOK, Actors
    <2>2. QED
      BY <1>0, <1>3, <2>1, HolderStep DEF UpdateWrite, LockedPcs
  <1>4. CASE MigratePrep(j)
    <2>1. Held \/ Finish(j, TRUE, proc)
      BY <1>4 DEF MigratePrep, Goto, TypeOK, Actors
    <2>2. QED
      BY <1>0, <1>4, <2>1, HolderStep DEF MigratePrep, LockedPcs
  <1>5. CASE MigrateStop(j)
    <2>1. Held
      BY <1>5 DEF MigrateStop, Goto, TypeOK, Actors
    <2>2. QED
      BY <1>0, <1>5, <2>1, HolderStep DEF MigrateStop, LockedPcs
  <1>6. CASE MigrateRsync(j)
    <2>1. Held
      BY <1>6 DEF MigrateRsync, Goto, TypeOK, Actors
    <2>2. QED
      BY <1>0, <1>6, <2>1, HolderStep DEF MigrateRsync, LockedPcs
  <1>7. CASE MigrateUmount(j)
    <2>1. Held
      BY <1>7 DEF MigrateUmount, Goto, TypeOK, Actors
    <2>2. QED
      BY <1>0, <1>7, <2>1, HolderStep DEF MigrateUmount, LockedPcs
  <1>8. CASE MigrateSwap(j)
    <2>1. Held
      BY <1>8 DEF MigrateSwap, Goto, TypeOK, Actors
    <2>2. QED
      BY <1>0, <1>8, <2>1, HolderStep DEF MigrateSwap, LockedPcs
  <1>9. CASE MigrateFinally(j)
    <2>1. Held \/ Finish(j, TRUE, proc)
      BY <1>9 DEF MigrateFinally, Goto, TypeOK, Actors
    <2>2. QED
      BY <1>0, <1>9, <2>1, HolderStep DEF MigrateFinally, LockedPcs
  <1>10. CASE SetupCheck(j)
    <2>1. proc[j].pc = "su_check" /\ lock = j /\ lock' = lock
      BY <1>0, <1>10 DEF SetupCheck, LockedPcs
    <2>2. CASE \E k \in FreeSlots : \E pool, excl : Submit(j, k, pool, excl, "su_wait")
      BY <1>0, <2>1, <2>2, SubmitOwner
    <2>3. CASE proc' = [proc EXCEPT ![j].pc = "su_mount", ![j].cfg = ConfigPool]
      <3>1. \A k \in JobIds \ {j} : proc'[k] = proc[k]
        BY <2>3 DEF TypeOK, Actors
      <3>2. QED
        BY <1>0, <2>1, <3>1, HolderStep
    <2>4. QED
      BY <1>10, <2>2, <2>3 DEF SetupCheck
  <1>11. CASE SetupWait(j)
    <2> DEFINE s == proc[j].sub
               p == [proc EXCEPT ![s] = Idle]
    <2>1. proc[j].pc = "su_wait" /\ lock = j
      BY <1>0, <1>11 DEF SetupWait, LockedPcs
    <2>2. p \in [Actors -> Procs]
      BY IdleType DEF TypeOK, p
    <2>3. Finish(j, proc[s].err, p)
      BY <1>11 DEF SetupWait, s, p
    <2>4. \A k \in JobIds \ {j} : p[k].pc \in LockedPcs => proc[k].pc \in LockedPcs
      BY DEF p, Idle, LockedPcs
    <2>5. QED
      BY <1>0, <2>1, <2>2, <2>3, <2>4, FinishOwner
  <1>12. CASE SetupMount(j)
    <2>1. \E err \in BOOLEAN : Finish(j, err, proc)
      BY <1>12 DEF SetupMount
    <2>2. QED
      BY <1>0, <1>12, <2>1, FinishOwner DEF SetupMount, LockedPcs, TypeOK
  <1>13. QED
    BY <1>1, <1>2, <1>3, <1>4, <1>5, <1>6, <1>7, <1>8, <1>9, <1>10, <1>11,
       <1>12 DEF JobStep

(* The pool manager never takes or frees the job lock, and the jobs its   *)
(* hooks submit are queued, outside the locked section.                    *)
LEMMA HookStepOwner ==
    ASSUME TypeOK, LockOwner, HookStep
    PROVE  LockOwner'
  <1>0. Hook \in Actors /\ Hook \notin JobIds
    BY DEF Actors, Hook, JobIds
  <1>1. CASE ExportCheck
    <2>1. lock' = lock
      BY <1>1 DEF ExportCheck
    <2>2. CASE \E k \in FreeSlots : \E pool, excl : Submit(Hook, k, pool, excl, "exp_wait")
      BY <1>0, <2>1, <2>2, SubmitOwner
    <2>3. CASE Goto(Hook, "exp_do")
      BY <1>0, <2>1, <2>3, GotoOwner
    <2>4. QED
      BY <1>1, <2>2, <2>3 DEF ExportCheck
  <1>2. CASE ExportWait
    <2> DEFINE s == proc[Hook].sub
    <2>1. \A i \in JobIds : proc'[i] = IF i = s THEN Idle ELSE proc[i]
      BY <1>0, <1>2 DEF ExportWait, TypeOK, Actors, s
    <2>2. lock' = lock
      BY <1>2 DEF ExportWait
    <2>3. QED
      BY <2>1, <2>2, KeepOwner DEF Idle, LockedPcs
  <1>3. CASE ExportDo
    <2>1. \A i \in JobIds : proc'[i] = proc[i]
      BY <1>0, <1>3 DEF ExportDo, TypeOK
    <2>2. QED
      BY <1>3, <2>1, KeepOwner DEF ExportDo
  <1>4. CASE SetupCheck(Hook)
    <2>1. lock' = lock
      BY <1>4 DEF SetupCheck
    <2>2. CASE \E k \in FreeSlots : \E pool, excl : Submit(Hook, k, pool, excl, "su_wait")
      BY <1>0, <2>1, <2>2, SubmitOwner
    <2>3. CASE proc' = [proc EXCEPT ![Hook].pc = "su_mount", ![Hook].cfg = ConfigPool]
      <3>1. \A i \in JobIds : proc'[i] = proc[i]
        BY <1>0, <2>3 DEF TypeOK, Actors
      <3>2. QED
        BY <2>1, <3>1, KeepOwner
    <2>4. QED
      BY <1>4, <2>2, <2>3 DEF SetupCheck
  <1>5. CASE SetupWait(Hook)
    <2> DEFINE s == proc[Hook].sub
               p == [proc EXCEPT ![s] = Idle]
    <2>1. p \in [Actors -> Procs]
      BY IdleType DEF TypeOK, p
    <2>2. Finish(Hook, proc[s].err, p)
      BY <1>5 DEF SetupWait, s, p
    <2>3. \A k \in JobIds \ {Hook} : p[k].pc \in LockedPcs => proc[k].pc \in LockedPcs
      BY DEF p, Idle, LockedPcs
    <2>4. QED
      BY <1>0, <2>1, <2>2, <2>3, FinishOwner
  <1>6. CASE SetupMount(Hook)
    <2>1. PICK err \in BOOLEAN : Finish(Hook, err, proc)
      BY <1>6 DEF SetupMount
    <2>2. QED
      BY <1>0, <2>1, FinishOwner DEF TypeOK
  <1>7. QED
    BY <1>1, <1>2, <1>3, <1>4, <1>5, <1>6 DEF HookStep

(* Pool events touch only the pool manager, a client call queues a job,   *)
(* and AD changes and service writes leave the actors alone.              *)
LEMMA EnvStepOwner ==
    ASSUME TypeOK, LockOwner,
           \/ \E p \in DataPools : PoolImport(p) \/ PoolCreate(p) \/ PoolExport(p)
           \/ \E p \in AllPools \cup {NoPool} : UserUpdate(p)
           \/ ADChange
           \/ ServiceWrite
    PROVE  LockOwner'
  <1>0. Hook \notin JobIds
    BY DEF Hook, JobIds
  <1>1. ASSUME NEW p \in DataPools, PoolImport(p) \/ PoolCreate(p) \/ PoolExport(p)
        PROVE  LockOwner'
    <2>1. \A i \in JobIds : proc'[i] = proc[i]
      BY <1>0, <1>1 DEF PoolImport, PoolCreate, PoolExport, TypeOK, Actors
    <2>2. lock' = lock
      BY <1>1 DEF PoolImport, PoolCreate, PoolExport
    <2>3. QED
      BY <2>1, <2>2, KeepOwner
  <1>2. ASSUME NEW p \in AllPools \cup {NoPool}, UserUpdate(p) PROVE LockOwner'
    <2>1. PICK k \in FreeSlots : proc' = [proc EXCEPT ![k] = Job(p, NoPool, FALSE)]
      BY <1>2 DEF UserUpdate
    <2>2. \A i \in JobIds : proc'[i].pc = IF i = k THEN "queued" ELSE proc[i].pc
      BY <2>1 DEF Job, Idle, TypeOK, Actors, FreeSlots
    <2>3. lock' = lock
      BY <1>2 DEF UserUpdate
    <2>4. QED
      BY <2>2, <2>3, KeepOwner DEF LockedPcs
  <1>3. CASE ADChange \/ ServiceWrite
    BY <1>3, KeepOwner DEF ADChange, ServiceWrite
  <1>4. QED
    BY <1>1, <1>2, <1>3

(* IInv holds in every reachable state.                                    *)
THEOREM LockInvariant == Spec => []IInv
  <1>1. Init => IInv
    BY TypeCorrect, SysDatasetAssumption, IdleType
       DEF Init, IInv, TypeOK, LockOwner, Idle, LockedPcs, AllPools, Actors
  <1>2. IInv /\ [Next]_vars => IInv'
    <2> SUFFICES ASSUME IInv, [Next]_vars PROVE IInv'
      OBVIOUS
    <2>1. TypeOK'
      BY JobStepType, HookStepType, EnvStepType DEF IInv, Next, vars, TypeOK
    <2>2. LockOwner'
      <3>1. CASE \E j \in JobIds : JobStep(j)
        BY <3>1, JobStepOwner DEF IInv
      <3>2. CASE HookStep
        BY <3>2, HookStepOwner DEF IInv
      <3>3. CASE UNCHANGED vars
        BY <3>3 DEF vars, LockOwner, IInv
      <3>4. QED
        BY <3>1, <3>2, <3>3, EnvStepOwner DEF IInv, Next
    <2>3. QED
      BY <2>1, <2>2 DEF IInv
  <1>3. QED
    BY <1>1, <1>2, PTL DEF Spec

-----------------------------------------------------------------------------
(* The converse of LockOwner: the lock, when taken, is held by a job in   *)
(* the locked section.  The queue hands the lock to the job it starts in  *)
(* validate, and every step that takes the holder out of the section     *)
(* (an end by return or by raise) frees the lock.                         *)
LockHeld == lock # 0 => proc[lock].pc \in LockedPcs

(* With LockOwner, the section is the holder alone, or empty.             *)
RInv == IInv /\ LockHeld

(* A step of the holder j keeps LockHeld when it keeps j in the section  *)
(* with the lock, or frees the lock.                                      *)
LEMMA HolderHeld ==
    ASSUME NEW j, lock = j,
           \/ lock' = lock /\ proc'[j].pc \in LockedPcs
           \/ lock' = 0
    PROVE  LockHeld'
  BY DEF LockHeld

(* A step that keeps the lock and the holder's program counter keeps     *)
(* LockHeld.                                                               *)
LEMMA KeepHeld ==
    ASSUME LockHeld, lock' = lock, lock # 0 => proc'[lock].pc = proc[lock].pc
    PROVE  LockHeld'
  BY DEF LockHeld

(* Every step of a do_update job keeps LockHeld: the job takes the free   *)
(* lock into validate, every later step is the holder's, and each one     *)
(* either stays in the section or ends the job and frees the lock.        *)
LEMMA JobStepHeld ==
    ASSUME TypeOK, LockOwner, LockHeld, NEW j \in JobIds, JobStep(j)
    PROVE  LockHeld'
  <1>0. j \in Actors /\ j # Hook /\ proc \in [Actors -> Procs]
        /\ lock \in JobIds \cup {0}
        /\ (proc[j].pc \in LockedPcs => lock = j)
    BY DEF Actors, Hook, JobIds, LockOwner, TypeOK
  <1>1. CASE UpdateAcquire(j)
    BY <1>0, <1>1 DEF UpdateAcquire, Goto, LockHeld, LockedPcs
  <1>2. CASE UpdateValidate(j)
    <2>1. proc'[j].pc \in LockedPcs \/ lock' = 0
      BY <1>0, <1>2 DEF UpdateValidate, Goto, Finish, Procs, LockedPcs
    <2>2. lock' = lock \/ lock' = 0
      BY <1>0, <1>2 DEF UpdateValidate, Finish
    <2>3. QED
      BY <1>0, <1>2, <2>1, <2>2, HolderHeld DEF UpdateValidate, LockedPcs
  <1>3. CASE UpdateWrite(j)
    <2>1. proc'[j].pc \in LockedPcs \/ lock' = 0
      BY <1>0, <1>3 DEF UpdateWrite, Goto, Finish, Procs, LockedPcs
    <2>2. lock' = lock \/ lock' = 0
      BY <1>0, <1>3 DEF UpdateWrite, Finish
    <2>3. QED
      BY <1>0, <1>3, <2>1, <2>2, HolderHeld DEF UpdateWrite, LockedPcs
  <1>4. CASE MigratePrep(j)
    <2>1. proc'[j].pc \in LockedPcs \/ lock' = 0
      BY <1>0, <1>4 DEF MigratePrep, Goto, Finish, Procs, LockedPcs
    <2>2. lock' = lock \/ lock' = 0
      BY <1>0, <1>4 DEF MigratePrep, Finish
    <2>3. QED
      BY <1>0, <1>4, <2>1, <2>2, HolderHeld DEF MigratePrep, LockedPcs
  <1>5. CASE MigrateStop(j)
    <2>1. proc'[j].pc \in LockedPcs \/ lock' = 0
      BY <1>0, <1>5 DEF MigrateStop, Goto, Finish, Procs, LockedPcs
    <2>2. lock' = lock \/ lock' = 0
      BY <1>0, <1>5 DEF MigrateStop, Finish
    <2>3. QED
      BY <1>0, <1>5, <2>1, <2>2, HolderHeld DEF MigrateStop, LockedPcs
  <1>6. CASE MigrateRsync(j)
    <2>1. proc'[j].pc \in LockedPcs \/ lock' = 0
      BY <1>0, <1>6 DEF MigrateRsync, Goto, Finish, Procs, LockedPcs
    <2>2. lock' = lock \/ lock' = 0
      BY <1>0, <1>6 DEF MigrateRsync, Finish
    <2>3. QED
      BY <1>0, <1>6, <2>1, <2>2, HolderHeld DEF MigrateRsync, LockedPcs
  <1>7. CASE MigrateUmount(j)
    <2>1. proc'[j].pc \in LockedPcs \/ lock' = 0
      BY <1>0, <1>7 DEF MigrateUmount, Goto, Finish, Procs, LockedPcs
    <2>2. lock' = lock \/ lock' = 0
      BY <1>0, <1>7 DEF MigrateUmount, Finish
    <2>3. QED
      BY <1>0, <1>7, <2>1, <2>2, HolderHeld DEF MigrateUmount, LockedPcs
  <1>8. CASE MigrateSwap(j)
    <2>1. proc'[j].pc \in LockedPcs \/ lock' = 0
      BY <1>0, <1>8 DEF MigrateSwap, Goto, Finish, Procs, LockedPcs
    <2>2. lock' = lock \/ lock' = 0
      BY <1>0, <1>8 DEF MigrateSwap, Finish
    <2>3. QED
      BY <1>0, <1>8, <2>1, <2>2, HolderHeld DEF MigrateSwap, LockedPcs
  <1>9. CASE MigrateFinally(j)
    <2>1. proc'[j].pc \in LockedPcs \/ lock' = 0
      BY <1>0, <1>9 DEF MigrateFinally, Goto, Finish, Procs, LockedPcs
    <2>2. lock' = lock \/ lock' = 0
      BY <1>0, <1>9 DEF MigrateFinally, Finish
    <2>3. QED
      BY <1>0, <1>9, <2>1, <2>2, HolderHeld DEF MigrateFinally, LockedPcs
  <1>10. CASE SetupCheck(j)
    <2>1. CASE \E k \in FreeSlots : \E pool, excl : Submit(j, k, pool, excl, "su_wait")
      <3>1. PICK k \in FreeSlots : \E pool, excl : Submit(j, k, pool, excl, "su_wait")
        BY <2>1
      <3>2. k # j
        BY <1>10 DEF SetupCheck, FreeSlots
      <3>3. proc'[j].pc = "su_wait"
        BY <1>0, <3>1, <3>2 DEF Submit, FreeSlots
      <3>4. lock' = lock /\ proc'[j].pc \in LockedPcs
        BY <1>10, <3>3 DEF SetupCheck, LockedPcs
      <3>5. QED
        BY <1>0, <1>10, <3>4, HolderHeld DEF SetupCheck, LockedPcs
    <2>2. CASE proc' = [proc EXCEPT ![j].pc = "su_mount", ![j].cfg = ConfigPool]
      <3>1. lock' = lock /\ proc'[j].pc \in LockedPcs
        BY <1>0, <1>10, <2>2 DEF SetupCheck, LockedPcs
      <3>2. QED
        BY <1>0, <1>10, <3>1, HolderHeld DEF SetupCheck, LockedPcs
    <2>3. QED
      BY <1>10, <2>1, <2>2 DEF SetupCheck
  <1>11. CASE SetupWait(j)
    <2>1. lock' = 0
      BY <1>0, <1>11 DEF SetupWait, Finish
    <2>2. QED
      BY <2>1 DEF LockHeld
  <1>12. CASE SetupMount(j)
    <2>1. lock' = 0
      BY <1>0, <1>12 DEF SetupMount, Finish
    <2>2. QED
      BY <2>1 DEF LockHeld
  <1>13. QED
    BY <1>1, <1>2, <1>3, <1>4, <1>5, <1>6, <1>7, <1>8, <1>9, <1>10, <1>11,
       <1>12 DEF JobStep

(* The holder is in the section, so it is neither a free slot nor a      *)
(* finished job, nor the pool manager.                                     *)
LEMMA HolderBusy ==
    ASSUME TypeOK, LockHeld, lock # 0
    PROVE  /\ lock \in JobIds /\ lock # Hook
           /\ proc[lock].pc \notin {"idle", "done"}
           /\ lock \notin FreeSlots
  BY DEF LockHeld, LockedPcs, TypeOK, Hook, JobIds, FreeSlots

(* The pool manager never moves the lock holder: it submits into free    *)
(* slots, frees finished jobs it waited for, and changes its own record.  *)
LEMMA HookStepHeld ==
    ASSUME TypeOK, LockHeld, HookStep
    PROVE  LockHeld'
  <1>1. lock' = lock
    <2>1. CASE ExportCheck \/ ExportWait \/ ExportDo \/ SetupCheck(Hook)
      BY <2>1 DEF ExportCheck, ExportWait, ExportDo, SetupCheck
    <2>2. CASE SetupWait(Hook) \/ SetupMount(Hook)
      BY <2>2 DEF SetupWait, SetupMount, Finish
    <2>3. QED
      BY <2>1, <2>2 DEF HookStep
  <1>2. ASSUME lock # 0 PROVE proc'[lock].pc = proc[lock].pc
    <2>0. /\ lock \in JobIds /\ lock # Hook
          /\ proc[lock].pc \notin {"idle", "done"}
          /\ lock \notin FreeSlots
          /\ proc \in [Actors -> Procs] /\ lock \in Actors /\ Hook \in Actors
      BY <1>2, HolderBusy DEF TypeOK, Actors
    (* A submission changes the pool manager and a free slot.             *)
    <2>1. ASSUME NEW k \in FreeSlots, NEW pool, NEW excl, NEW pc,
                 Submit(Hook, k, pool, excl, pc)
          PROVE  proc'[lock] = proc[lock]
      BY <2>0, <2>1 DEF Submit
    <2>2. CASE ExportCheck
      <3>1. CASE ConfigPool = proc[Hook].pool
        <4>1. PICK k \in FreeSlots : Submit(Hook, k, NoPool, proc[Hook].pool, "exp_wait")
          BY <2>2, <3>1 DEF ExportCheck
        <4>2. QED
          BY <4>1, <2>1
      <3>2. CASE ConfigPool # proc[Hook].pool
        BY <2>0, <2>2, <3>2 DEF ExportCheck, Goto
      <3>3. QED
        BY <3>1, <3>2
    <2>3. CASE ExportWait
      BY <2>0, <2>3 DEF ExportWait
    <2>4. CASE ExportDo
      BY <2>0, <2>4 DEF ExportDo
    <2>5. CASE SetupCheck(Hook)
      <3>1. CASE \E k \in FreeSlots : \E pool, excl : Submit(Hook, k, pool, excl, "su_wait")
        <4>1. PICK k \in FreeSlots : \E pool, excl : Submit(Hook, k, pool, excl, "su_wait")
          BY <3>1
        <4>2. PICK pool, excl : Submit(Hook, k, pool, excl, "su_wait")
          BY <4>1
        <4>3. QED
          BY <4>2, <2>1
      <3>2. CASE proc' = [proc EXCEPT ![Hook].pc = "su_mount", ![Hook].cfg = ConfigPool]
        BY <2>0, <3>2
      <3>3. QED
        BY <2>5, <3>1, <3>2 DEF SetupCheck
    <2>6. CASE SetupWait(Hook)
      BY <2>0, <2>6 DEF SetupWait, Finish
    <2>7. CASE SetupMount(Hook)
      BY <2>0, <2>7 DEF SetupMount, Finish
    <2>8. QED
      BY <2>2, <2>3, <2>4, <2>5, <2>6, <2>7 DEF HookStep
  <1>3. QED
    BY <1>1, <1>2, KeepHeld

(* Pool events change only the pool manager's record, a client call      *)
(* fills a free slot, and AD changes and service writes leave the actors  *)
(* alone.                                                                  *)
LEMMA EnvStepHeld ==
    ASSUME TypeOK, LockHeld,
           \/ \E p \in DataPools : PoolImport(p) \/ PoolCreate(p) \/ PoolExport(p)
           \/ \E p \in AllPools \cup {NoPool} : UserUpdate(p)
           \/ ADChange
           \/ ServiceWrite
    PROVE  LockHeld'
  <1>1. lock' = lock
    BY DEF PoolImport, PoolCreate, PoolExport, UserUpdate, ADChange, ServiceWrite
  <1>2. ASSUME lock # 0 PROVE proc'[lock].pc = proc[lock].pc
    <2>0. /\ lock \in JobIds /\ lock # Hook /\ lock \notin FreeSlots
          /\ proc \in [Actors -> Procs] /\ lock \in Actors
      BY <1>2, HolderBusy DEF TypeOK, Actors
    <2>1. ASSUME NEW p \in DataPools, PoolImport(p) \/ PoolCreate(p) \/ PoolExport(p)
          PROVE  proc'[lock].pc = proc[lock].pc
      BY <2>0, <2>1 DEF PoolImport, PoolCreate, PoolExport
    <2>2. ASSUME NEW p \in AllPools \cup {NoPool}, UserUpdate(p)
          PROVE  proc'[lock].pc = proc[lock].pc
      BY <2>0, <2>2 DEF UserUpdate
    <2>3. CASE ADChange \/ ServiceWrite
      BY <2>3 DEF ADChange, ServiceWrite
    <2>4. QED
      BY <2>1, <2>2, <2>3
  <1>3. QED
    BY <1>1, <1>2, KeepHeld

(* RInv holds in every reachable state: LockHeld is inductive relative   *)
(* to IInv, which LockInvariant establishes.                              *)
THEOREM HeldInvariant == Spec => []RInv
  <1>1. Init => LockHeld
    BY DEF Init, LockHeld
  <1>2. IInv /\ LockHeld /\ [Next]_vars => LockHeld'
    <2> SUFFICES ASSUME IInv, LockHeld, [Next]_vars PROVE LockHeld'
      OBVIOUS
    <2>1. CASE \E j \in JobIds : JobStep(j)
      BY <2>1, JobStepHeld DEF IInv
    <2>2. CASE HookStep
      BY <2>2, HookStepHeld DEF IInv
    <2>3. CASE UNCHANGED vars
      BY <2>3 DEF vars, LockHeld
    <2>4. QED
      BY <2>1, <2>2, <2>3, EnvStepHeld DEF IInv, Next
  <1>3. QED
    BY <1>1, <1>2, LockInvariant, PTL DEF Spec, RInv

-----------------------------------------------------------------------------
(* Refinement: the lock sysdataset_update implements the abstract job     *)
(* lock JobLock, with holder lock and section LockedJobs (instance JL of  *)
(* SysDataset).                                                            *)

(* Under RInv the section is exactly the holder, or empty.                *)
LEMMA SectionIsHolder ==
    ASSUME TypeOK, LockOwner, LockHeld
    PROVE  LockedJobs = IF lock = 0 THEN {} ELSE {lock}
  BY DEF LockedJobs, LockOwner, LockHeld, TypeOK, JobIds

(* The lock moves only from free to a job or from a job to free: the     *)
(* queue takes it only when it is 0, and an end only sets it to 0.        *)
LEMMA LockMoves ==
    ASSUME [Next]_vars
    PROVE  lock' = lock \/ lock = 0 \/ lock' = 0
  <1>1. ASSUME NEW j \in JobIds, JobStep(j) PROVE lock' = lock \/ lock = 0 \/ lock' = 0
    <2>1. CASE UpdateAcquire(j)
      BY <2>1 DEF UpdateAcquire
    <2>2. CASE UpdateValidate(j)
      BY <2>2 DEF UpdateValidate, Finish
    <2>3. CASE UpdateWrite(j) \/ MigrateStop(j) \/ MigrateRsync(j) \/ MigrateUmount(j)
               \/ MigrateSwap(j) \/ SetupCheck(j)
      BY <2>3 DEF UpdateWrite, MigrateStop, MigrateRsync, MigrateUmount, MigrateSwap,
                  SetupCheck
    <2>4. CASE MigratePrep(j)
      BY <2>4 DEF MigratePrep, Finish
    <2>5. CASE MigrateFinally(j)
      BY <2>5 DEF MigrateFinally, Finish
    <2>6. CASE SetupWait(j)
      BY <2>6 DEF SetupWait, Finish
    <2>7. CASE SetupMount(j)
      BY <2>7 DEF SetupMount, Finish
    <2>8. QED
      BY <1>1, <2>1, <2>2, <2>3, <2>4, <2>5, <2>6, <2>7 DEF JobStep
  <1>2. CASE HookStep
    <2>1. CASE ExportCheck \/ ExportWait \/ ExportDo \/ SetupCheck(Hook)
      BY <2>1 DEF ExportCheck, ExportWait, ExportDo, SetupCheck
    <2>2. CASE SetupWait(Hook) \/ SetupMount(Hook)
      BY <2>2 DEF SetupWait, SetupMount, Finish
    <2>3. QED
      BY <1>2, <2>1, <2>2 DEF HookStep
  <1>3. CASE \/ \E p \in DataPools : PoolImport(p) \/ PoolCreate(p) \/ PoolExport(p)
             \/ \E p \in AllPools \cup {NoPool} : UserUpdate(p)
             \/ ADChange
             \/ ServiceWrite
    BY <1>3 DEF PoolImport, PoolCreate, PoolExport, UserUpdate, ADChange, ServiceWrite
  <1>4. CASE UNCHANGED vars
    BY <1>4 DEF vars
  <1>5. QED
    BY <1>1, <1>2, <1>3, <1>4 DEF Next

(* systemdataset.update behaves as a critical section under a job lock:  *)
(* every step of the model is an Acquire of the free lock by the job the *)
(* queue starts, a Release by the job holding it as that job ends, or     *)
(* leaves the lock and the section alone, for every number of jobs and    *)
(* pools.                                                                  *)
THEOREM LockRefinement == Spec => JobLockRefined
  <1>1. Init => JL!Init
    BY DEF Init, JL!Init, LockedJobs, Idle, LockedPcs, Actors
  <1>2. RInv /\ RInv' /\ [Next]_vars => [JL!Next]_JL!vars
    <2> SUFFICES ASSUME RInv, RInv', [Next]_vars PROVE [JL!Next]_JL!vars
      OBVIOUS
    <2>1. LockedJobs = IF lock = 0 THEN {} ELSE {lock}
      BY SectionIsHolder DEF RInv, IInv
    <2>2. LockedJobs' = IF lock' = 0 THEN {} ELSE {lock'}
      BY DEF RInv, IInv, LockedJobs, LockOwner, LockHeld, TypeOK, JobIds
    <2>3. lock \in JobIds \cup {0} /\ lock' \in JobIds \cup {0} /\ 0 \notin JobIds
      BY DEF RInv, IInv, TypeOK, JobIds
    <2>4. CASE lock' = lock
      BY <2>1, <2>2, <2>4 DEF JL!vars
    <2>5. CASE lock' # lock /\ lock = 0
      <3>1. JL!Acquire(lock')
        BY <2>1, <2>2, <2>3, <2>5 DEF JL!Acquire
      <3>2. QED
        BY <2>3, <2>5, <3>1 DEF JL!Next
    <2>6. CASE lock' # lock /\ lock' = 0
      <3>1. JL!Release(lock)
        BY <2>1, <2>2, <2>3, <2>6 DEF JL!Release
      <3>2. QED
        BY <2>3, <2>6, <3>1 DEF JL!Next
    <2>7. QED
      BY <2>4, <2>5, <2>6, LockMoves
  <1>3. QED
    BY <1>1, <1>2, HeldInvariant, PTL DEF Spec, JobLockRefined, JL!Spec
=============================================================================
