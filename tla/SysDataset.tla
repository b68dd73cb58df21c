------------------------------ MODULE SysDataset ------------------------------
(***************************************************************************)
(* The system dataset service of plugins/sysdataset.py: where the         *)
(* `.system` dataset lives, how `systemdataset.update` (do_update, a job   *)
(* under the lock 'sysdataset_update') moves it with `migrate`, how       *)
(* `setup` mounts it or asks for another update, and the pool hooks       *)
(* (post_import, post_create, pre_export) that call them.                 *)
(*                                                                         *)
(* Actors: the job slots 1..MaxJobs (do_update jobs, submitted by a      *)
(* client, by setup or by the export hook) and actor 0, the pool manager, *)
(* which imports, creates and exports pools and runs their hooks.  Every  *)
(* step ends at an await where another actor can run.                     *)
(*                                                                         *)
(* The contents of the datasets are abstracted to `fresh`: the pools      *)
(* whose .system dataset is complete, holding everything the services    *)
(* have written.  The services write to the dataset mounted on           *)
(* SYSDATASET_PATH.                                                        *)
(***************************************************************************)
EXTENDS Naturals

CONSTANTS
    DataPools,  \* names of the data pools (model values)
    Boot,       \* boot.pool_name
    NoPool,     \* None, and '' in the database (both falsy)
    Locked,     \* pools whose root dataset is locked or passphrase-encrypted
    Roomy,      \* pools with room for the system dataset (destination_pool_error)
    MaxJobs,    \* do_update jobs that exist at the same time
    MaxRequests, \* client calls of systemdataset.update in a behaviour
    MaxEvents   \* pool imports, creations and exports in a behaviour

ASSUME SysDatasetAssumption ==
    /\ Boot \notin DataPools /\ NoPool \notin DataPools \cup {Boot}
    /\ Locked \subseteq DataPools /\ Roomy \subseteq DataPools \cup {Boot}
    /\ MaxJobs \in Nat /\ MaxRequests \in Nat /\ MaxEvents \in Nat

AllPools == DataPools \cup {Boot}
JobIds == 1..MaxJobs
Hook == 0                      \* the pool manager running the pool hooks
Actors == {Hook} \cup JobIds

(* Program counters: do_update (queued to write), migrate (the mg_ ones), *)
(* setup (su_), the export hook (exp_) and the end of a job (done).       *)
Pcs == {"idle", "queued", "validate", "write",
        "mg_prep", "mg_stop", "mg_rsync", "mg_umount", "mg_swap", "mg_finally",
        "su_check", "su_wait", "su_mount",
        "exp_check", "exp_wait", "exp_do", "done"}

Procs == [pc : Pcs, pool : AllPools \cup {NoPool}, excl : AllPools \cup {NoPool},
          old : AllPools, new : AllPools, cfg : AllPools, sub : JobIds \cup {0},
          waited : BOOLEAN, err : BOOLEAN]

Idle == [pc |-> "idle", pool |-> NoPool, excl |-> NoPool, old |-> Boot,
         new |-> Boot, cfg |-> Boot, sub |-> 0, waited |-> FALSE, err |-> FALSE]

VARIABLES
    imported,  \* data pools imported (pool.query)
    dbPool,    \* sys_pool in the database; NoPool is ''
    hasDs,     \* pools holding a <pool>/.system dataset
    fresh,     \* pools whose .system dataset is complete
    mounted,   \* pool whose .system is mounted on SYSDATASET_PATH
    tmpMnt,    \* pool whose .system is mounted on /tmp/system.new
    svcUp,     \* the services migrate stops are running
    lock,      \* holder of the job lock 'sysdataset_update' (0: free)
    proc,      \* actor -> its program counter and locals
    adOn,      \* system.ready and activedirectory.get_state() in {HEALTHY, FAULTED}
    requests,  \* client calls so far
    events     \* pool manager events so far

vars == <<imported, dbPool, hasDs, fresh, mounted, tmpMnt, svcUp, lock, proc,
          adOn, requests, events>>

TypeOK ==
    /\ imported \subseteq DataPools
    /\ dbPool \in AllPools \cup {NoPool}
    /\ hasDs \subseteq AllPools /\ fresh \subseteq AllPools
    /\ mounted \in AllPools \cup {NoPool} /\ tmpMnt \in AllPools \cup {NoPool}
    /\ svcUp \in BOOLEAN
    /\ lock \in JobIds \cup {0}
    /\ proc \in [Actors -> Procs]
    /\ adOn \in BOOLEAN
    /\ requests \in 0..MaxRequests
    /\ events \in 0..MaxEvents

(* A fresh install: the system dataset on the boot pool, mounted, with    *)
(* '' in the database; every data pool imported or not.                    *)
Init ==
    /\ imported \in SUBSET DataPools
    /\ dbPool = NoPool
    /\ hasDs = {Boot} /\ fresh = {Boot}
    /\ mounted = Boot /\ tmpMnt = NoPool
    /\ svcUp = TRUE
    /\ lock = 0
    /\ proc = [a \in Actors |-> Idle]
    /\ adOn \in BOOLEAN
    /\ requests = 0
    /\ events = 0

(* config_extend: an empty pool in the database means the boot pool.      *)
ConfigPool == IF dbPool = NoPool THEN Boot ELSE dbPool

Present(p) == p \in imported \cup {Boot}

(* destination_pool_error: no error when the current .system dataset does *)
(* not exist; otherwise the new pool's root dataset must exist and have   *)
(* 1.1 times the space the current one uses.                               *)
DestinationPoolError(p) ==
    /\ ConfigPool \in hasDs /\ Present(ConfigPool)
    /\ ~Present(p) \/ p \notin Roomy

(* Pools setup and do_update consider: imported, not the excluded pool,   *)
(* root dataset neither locked nor passphrase-encrypted.                   *)
Candidates(excl) == imported \ ({excl} \cup Locked)

(* __mount(pool, uuid, SYSDATASET_PATH): a mount point that is already a  *)
(* mount point is skipped, so a pool is only mounted on a free path.      *)
MountAt(p) == IF mounted = NoPool THEN p ELSE mounted

(* A do_update job with the given data, queued behind the job lock; a     *)
(* caller that waits for it reads its result and frees its slot.          *)
Job(pool, excl, waited) ==
    [Idle EXCEPT !.pc = "queued", !.pool = pool, !.excl = excl, !.waited = waited]

FreeSlots == {k \in JobIds : proc[k].pc = "idle"}

(* Mutant of Finish: a job that raises keeps the job lock.               *)
FinishKeepsLockOnError(a, err, p) ==
    IF a = Hook
    THEN /\ proc' = [p EXCEPT ![Hook] = Idle]
         /\ UNCHANGED lock
    ELSE /\ proc' = [p EXCEPT ![a] = IF p[a].waited
                                     THEN [@ EXCEPT !.pc = "done", !.err = err]
                                     ELSE Idle]
         /\ lock' = IF err THEN lock ELSE 0

(* The end of a call chain, in the actor table p: a job releases the lock *)
(* and is done (with an error when it raised) until its waiter reads it;  *)
(* a job nobody waits for, and the pool manager, become idle again.       *)
Finish(a, err, p) ==
    IF a = Hook
    THEN /\ proc' = [p EXCEPT ![Hook] = Idle]
         /\ UNCHANGED lock
    ELSE /\ proc' = [p EXCEPT ![a] = IF p[a].waited
                                     THEN [@ EXCEPT !.pc = "done", !.err = err]
                                     ELSE Idle]
         /\ lock' = 0

(* Set the program counter of actor a.                                    *)
Goto(a, pc) == proc' = [proc EXCEPT ![a].pc = pc]

(* Actor a submits systemdataset.update into the free slot k and waits    *)
(* for it at waitPc.                                                       *)
Submit(a, k, pool, excl, waitPc) ==
    proc' = [proc EXCEPT ![k] = Job(pool, excl, TRUE), ![a].pc = waitPc, ![a].sub = k]

-----------------------------------------------------------------------------
(* do_update (job, lock 'sysdataset_update').                              *)

(* The job queue starts a queued job when its lock is free.               *)
UpdateAcquire(j) ==
    /\ proc[j].pc = "queued" /\ lock = 0
    /\ lock' = j
    /\ Goto(j, "validate")
    /\ UNCHANGED <<imported, dbPool, hasDs, fresh, mounted, tmpMnt, svcUp, adOn, requests, events>>

(* The choice of a pool when none is given: the loop calls               *)
(* self.destination_pool_error(...) without await, the coroutine object  *)
(* is true, every pool is skipped and the loop's else sets ''.            *)
AutoPick(excl) == NoPool

(* Read the configuration, merge the payload and validate it: moving the *)
(* dataset is refused while AD is enabled after boot, the destination    *)
(* must have room, a named data pool must exist and be unlocked; no pool *)
(* means the automatic choice.  verrors.check() raises on any error.      *)
UpdateValidate(j) ==
    LET cur == ConfigPool
        req == proc[j].pool
        moved == req # cur
        error == \/ moved /\ adOn
                 \/ moved /\ req # NoPool /\ DestinationPoolError(req)
                 \/ req \notin {NoPool, Boot} /\ (req \notin imported \/ req \in Locked)
        new == IF req # NoPool THEN req ELSE AutoPick(proc[j].excl)
    IN /\ proc[j].pc = "validate"
       /\ IF error
          THEN Finish(j, TRUE, proc)
          ELSE /\ proc' = [proc EXCEPT ![j].pc = "write", ![j].old = cur,
                                       ![j].pool = new]
               /\ UNCHANGED lock
       /\ UNCHANGED <<imported, dbPool, hasDs, fresh, mounted, tmpMnt, svcUp, adOn, requests, events>>

(* Mutant of UpdateWrite: migrate is given the merged payload's pool     *)
(* instead of the re-read configuration, so a null pool is not turned    *)
(* into the boot pool.                                                     *)
UpdateWriteUnnormalised(j) ==
    /\ proc[j].pc = "write"
    /\ dbPool' = proc[j].pool
    /\ proc' = [proc EXCEPT ![j].new = proc[j].pool,
                            ![j].pc = IF proc[j].old # proc[j].pool THEN "mg_prep" ELSE "su_check"]
    /\ UNCHANGED <<imported, hasDs, fresh, mounted, tmpMnt, svcUp, lock, adOn, requests, events>>

(* datastore.update writes the new pool; the configuration is read again *)
(* and migrate runs when the pool it names changed, setup otherwise.      *)
UpdateWrite(j) ==
    LET to == IF proc[j].pool = NoPool THEN Boot ELSE proc[j].pool
    IN /\ proc[j].pc = "write"
       /\ dbPool' = proc[j].pool
       /\ proc' = [proc EXCEPT ![j].new = to,
                               ![j].pc = IF proc[j].old # to THEN "mg_prep" ELSE "su_check"]
       /\ UNCHANGED <<imported, hasDs, fresh, mounted, tmpMnt, svcUp, lock, adOn, requests, events>>

-----------------------------------------------------------------------------
(* migrate(_from, _to), called by do_update with the job lock held.       *)

(* __setup_datasets(_to) and __mount(_to) on /tmp/system.new, before the  *)
(* try: a pool that is gone makes zfs.dataset.create raise.               *)
MigratePrep(j) ==
    LET to == proc[j].new
    IN /\ proc[j].pc = "mg_prep"
       /\ IF Present(to)
          THEN /\ hasDs' = hasDs \cup {to}
               /\ tmpMnt' = to
               /\ Goto(j, "mg_stop")
               /\ UNCHANGED lock
          ELSE /\ Finish(j, TRUE, proc)
               /\ UNCHANGED <<hasDs, tmpMnt>>
       /\ UNCHANGED <<imported, dbPool, fresh, mounted, svcUp, adOn, requests, events>>

(* Inside the try: syslog off the dataset, core.stop_logging, and         *)
(* service.stop of every service in `restart`.                            *)
MigrateStop(j) ==
    /\ proc[j].pc = "mg_stop"
    /\ svcUp' = FALSE
    /\ Goto(j, "mg_rsync")
    /\ UNCHANGED <<imported, dbPool, hasDs, fresh, mounted, tmpMnt, lock, adOn, requests, events>>

(* rsync -az SYSDATASET_PATH/ /tmp/system.new (no --delete): _to gets    *)
(* every file of the mounted dataset and keeps its own; it is complete   *)
(* when the mounted dataset is.  A non-zero return code raises CallError. *)
MigrateRsync(j) ==
    LET to == proc[j].new
    IN /\ proc[j].pc = "mg_rsync"
       /\ \/ /\ fresh' = IF mounted \in fresh THEN fresh \cup {to} ELSE fresh
             /\ Goto(j, "mg_umount")
          \/ /\ proc' = [proc EXCEPT ![j].pc = "mg_finally", ![j].err = TRUE]
             /\ UNCHANGED fresh
       /\ UNCHANGED <<imported, dbPool, hasDs, mounted, tmpMnt, svcUp, lock, adOn, requests, events>>

(* __umount(_from) then __umount(_to); a umount failing for another      *)
(* reason than "no mount point specified" raises CallError.               *)
MigrateUmount(j) ==
    LET from == proc[j].old
        to == proc[j].new
        afterFrom == IF mounted = from THEN NoPool ELSE mounted
    IN /\ proc[j].pc = "mg_umount"
       /\ \/ /\ mounted' = afterFrom
             /\ tmpMnt' = IF tmpMnt = to THEN NoPool ELSE tmpMnt
             /\ Goto(j, "mg_swap")
          \/ /\ UNCHANGED <<mounted, tmpMnt>>
             /\ proc' = [proc EXCEPT ![j].pc = "mg_finally", ![j].err = TRUE]
          \/ /\ mounted' = afterFrom
             /\ UNCHANGED tmpMnt
             /\ proc' = [proc EXCEPT ![j].pc = "mg_finally", ![j].err = TRUE]
       /\ UNCHANGED <<imported, dbPool, hasDs, fresh, svcUp, lock, adOn, requests, events>>

(* __mount(_to) on SYSDATASET_PATH (mount -t zfs raises on failure, and  *)
(* always on a pool that was exported meanwhile), then zfs destroy -r     *)
(* _from/.system: nothing when _from is no longer listed, and a dataset   *)
(* still mounted on the path is busy and stays.                           *)
MigrateSwap(j) ==
    LET from == proc[j].old
        to == proc[j].new
        destroyed == Present(from) /\ from # MountAt(to)
    IN /\ proc[j].pc = "mg_swap"
       /\ \/ /\ Present(to) /\ to \in hasDs
             /\ mounted' = MountAt(to)
             /\ hasDs' = IF destroyed THEN hasDs \ {from} ELSE hasDs
             /\ fresh' = IF destroyed THEN fresh \ {from} ELSE fresh
             /\ Goto(j, "mg_finally")
          \/ /\ UNCHANGED <<mounted, hasDs, fresh>>
             /\ proc' = [proc EXCEPT ![j].pc = "mg_finally", ![j].err = TRUE]
       /\ UNCHANGED <<imported, dbPool, tmpMnt, svcUp, lock, adOn, requests, events>>

(* Mutant of MigrateFinally: the services are started after the try      *)
(* instead of in its finally, so an exception skips them.                 *)
MigrateFinallySkipped(j) ==
    /\ proc[j].pc = "mg_finally"
    /\ svcUp' = ~proc[j].err
    /\ IF proc[j].err
       THEN Finish(j, TRUE, proc)
       ELSE /\ Goto(j, "su_check")
            /\ UNCHANGED lock
    /\ UNCHANGED <<imported, dbPool, hasDs, fresh, mounted, tmpMnt, adOn, requests, events>>

(* The finally: cache.pop and service.start of the stopped services, then *)
(* the exception, if any, leaves do_update; otherwise setup runs.         *)
MigrateFinally(j) ==
    /\ proc[j].pc = "mg_finally"
    /\ svcUp' = TRUE
    /\ IF proc[j].err
       THEN Finish(j, TRUE, proc)
       ELSE /\ Goto(j, "su_check")
            /\ UNCHANGED lock
    /\ UNCHANGED <<imported, dbPool, hasDs, fresh, mounted, tmpMnt, adOn, requests, events>>

-----------------------------------------------------------------------------
(* setup(exclude_pool), run by do_update (actor j, lock held) or by a     *)
(* pool hook (actor Hook).  The failover branches are not modelled.       *)

(* A configured data pool that is not imported, or no pool in the        *)
(* database while a data pool can take the dataset: submit                *)
(* systemdataset.update and wait for it.  Otherwise mount the pool of    *)
(* the configuration read here.                                            *)
SetupCheck(a) ==
    LET cfg == ConfigPool
        excl == proc[a].excl
    IN /\ proc[a].pc = "su_check"
       /\ \/ /\ ~Present(cfg)
             /\ \E k \in FreeSlots : Submit(a, k, NoPool, excl, "su_wait")
          \/ /\ Present(cfg) /\ dbPool = NoPool
             /\ \E p \in Candidates(excl), k \in FreeSlots :
                  Submit(a, k, p, NoPool, "su_wait")
          \/ /\ Present(cfg) /\ ~(dbPool = NoPool /\ Candidates(excl) # {})
             /\ proc' = [proc EXCEPT ![a].pc = "su_mount", ![a].cfg = cfg]
       /\ UNCHANGED <<imported, dbPool, hasDs, fresh, mounted, tmpMnt, svcUp, lock, adOn, requests, events>>

(* job.wait() returns; job.error is raised as CallError.                  *)
SetupWait(a) ==
    LET k == proc[a].sub
    IN /\ proc[a].pc = "su_wait"
       /\ proc[k].pc = "done"
       /\ Finish(a, proc[k].err, [proc EXCEPT ![k] = Idle])
    /\ UNCHANGED <<imported, dbPool, hasDs, fresh, mounted, tmpMnt, svcUp, adOn, requests, events>>

(* __setup_datasets and __mount of the pool read at the top of setup;    *)
(* dataset creation on a pool that is gone, or mount, raises.             *)
SetupMount(a) ==
    LET cfg == proc[a].cfg
    IN /\ proc[a].pc = "su_mount"
       /\ IF Present(cfg)
          THEN /\ hasDs' = hasDs \cup {cfg}
               /\ \/ mounted' = MountAt(cfg) /\ Finish(a, FALSE, proc)
                  \/ UNCHANGED mounted /\ Finish(a, TRUE, proc)
          ELSE /\ UNCHANGED <<hasDs, mounted>>
               /\ Finish(a, TRUE, proc)
       /\ UNCHANGED <<imported, dbPool, fresh, tmpMnt, svcUp, adOn, requests, events>>

-----------------------------------------------------------------------------
(* The pool manager and its hooks.                                         *)

(* pool.import, then the post_import hook: setup(None).                   *)
PoolImport(p) ==
    /\ proc[Hook].pc = "idle" /\ events < MaxEvents
    /\ p \in DataPools \ imported
    /\ imported' = imported \cup {p}
    /\ events' = events + 1
    /\ proc' = [proc EXCEPT ![Hook] = [Idle EXCEPT !.pc = "su_check"]]
    /\ UNCHANGED <<dbPool, hasDs, fresh, mounted, tmpMnt, svcUp, lock, adOn, requests>>

(* pool.create of a new pool (one that never held a .system dataset),    *)
(* then post_create: setup() when the configured pool is the boot pool.   *)
PoolCreate(p) ==
    /\ proc[Hook].pc = "idle" /\ events < MaxEvents
    /\ p \in DataPools \ (imported \cup hasDs)
    /\ imported' = imported \cup {p}
    /\ events' = events + 1
    /\ proc' = [proc EXCEPT ![Hook] = IF ConfigPool = Boot
                                      THEN [Idle EXCEPT !.pc = "su_check"]
                                      ELSE Idle]
    /\ UNCHANGED <<dbPool, hasDs, fresh, mounted, tmpMnt, svcUp, lock, adOn, requests>>

(* pool.export of p: the pre_export hook runs first.                       *)
PoolExport(p) ==
    /\ proc[Hook].pc = "idle" /\ events < MaxEvents
    /\ p \in imported
    /\ events' = events + 1
    /\ proc' = [proc EXCEPT ![Hook] = [Idle EXCEPT !.pc = "exp_check", !.pool = p]]
    /\ UNCHANGED <<imported, dbPool, hasDs, fresh, mounted, tmpMnt, svcUp, lock, adOn, requests>>

(* pool_pre_export: when the configuration names the pool, submit        *)
(* systemdataset.update(pool=None, pool_exclude=pool) and wait for it.    *)
ExportCheck ==
    LET p == proc[Hook].pool
    IN /\ proc[Hook].pc = "exp_check"
       /\ IF ConfigPool = p
          THEN \E k \in FreeSlots : Submit(Hook, k, NoPool, p, "exp_wait")
          ELSE Goto(Hook, "exp_do")
       /\ UNCHANGED <<imported, dbPool, hasDs, fresh, mounted, tmpMnt, svcUp, lock, adOn, requests, events>>

(* A failed update raises CallError, and the export is abandoned.         *)
ExportWait ==
    LET k == proc[Hook].sub
    IN /\ proc[Hook].pc = "exp_wait"
       /\ proc[k].pc = "done"
       /\ proc' = [proc EXCEPT ![k] = Idle,
                               ![Hook] = IF proc[k].err THEN Idle ELSE [@ EXCEPT !.pc = "exp_do"]]
    /\ UNCHANGED <<imported, dbPool, hasDs, fresh, mounted, tmpMnt, svcUp, lock, adOn, requests, events>>

(* The export itself; a pool with a mounted .system dataset is busy and   *)
(* the export fails.                                                       *)
ExportDo ==
    LET p == proc[Hook].pool
    IN /\ proc[Hook].pc = "exp_do"
       /\ imported' = IF p \in {mounted, tmpMnt} THEN imported ELSE imported \ {p}
       /\ proc' = [proc EXCEPT ![Hook] = Idle]
       /\ UNCHANGED <<dbPool, hasDs, fresh, mounted, tmpMnt, svcUp, lock, adOn, requests, events>>

-----------------------------------------------------------------------------
(* The environment.                                                        *)

(* A client calls systemdataset.update({'pool': p}); p = NoPool is null.  *)
UserUpdate(p) ==
    /\ requests < MaxRequests
    /\ requests' = requests + 1
    /\ \E k \in FreeSlots : proc' = [proc EXCEPT ![k] = Job(p, NoPool, FALSE)]
    /\ UNCHANGED <<imported, dbPool, hasDs, fresh, mounted, tmpMnt, svcUp, lock, adOn, events>>

(* The AD service is started or stopped (its status enters or leaves     *)
(* HEALTHY/FAULTED).                                                       *)
ADChange ==
    /\ adOn' = ~adOn
    /\ UNCHANGED <<imported, dbPool, hasDs, fresh, mounted, tmpMnt, svcUp, lock, proc, requests, events>>

(* A running service writes logs, rrd data or the samba database to the  *)
(* complete dataset mounted on SYSDATASET_PATH, which then alone is       *)
(* complete; writes into an incomplete one or the bare directory leave   *)
(* every dataset as it was.                                                *)
ServiceWrite ==
    /\ svcUp /\ mounted \in fresh /\ fresh # {mounted}
    /\ fresh' = {mounted}
    /\ UNCHANGED <<imported, dbPool, hasDs, mounted, tmpMnt, svcUp, lock, proc, adOn, requests, events>>

-----------------------------------------------------------------------------
JobStep(j) ==
    \/ UpdateAcquire(j) \/ UpdateValidate(j) \/ UpdateWrite(j)
    \/ MigratePrep(j) \/ MigrateStop(j) \/ MigrateRsync(j) \/ MigrateUmount(j)
    \/ MigrateSwap(j) \/ MigrateFinally(j)
    \/ SetupCheck(j) \/ SetupWait(j) \/ SetupMount(j)

HookStep ==
    \/ ExportCheck \/ ExportWait \/ ExportDo
    \/ SetupCheck(Hook) \/ SetupWait(Hook) \/ SetupMount(Hook)

Next ==
    \/ \E j \in JobIds : JobStep(j)
    \/ HookStep
    \/ \E p \in DataPools : PoolImport(p) \/ PoolCreate(p) \/ PoolExport(p)
    \/ \E p \in AllPools \cup {NoPool} : UserUpdate(p)
    \/ ADChange
    \/ ServiceWrite

Spec == Init /\ [][Next]_vars

(* The job queue starts a job whenever its lock is free (strong fairness, *)
(* the lock is free only intermittently); a coroutine that can continue  *)
(* is resumed.  Requests, pool events, AD and services are not forced.   *)
FairSpec ==
    /\ Spec
    /\ \A j \in JobIds : SF_vars(UpdateAcquire(j)) /\ WF_vars(JobStep(j))
    /\ WF_vars(HookStep)

-----------------------------------------------------------------------------
(* Properties.                                                             *)

(* No sequence of updates, setups and pool hooks loses the system         *)
(* dataset: some .system dataset always holds the latest contents.        *)
(* migrate destroys _from after rsync succeeded, but rsync copies         *)
(* whatever is on SYSDATASET_PATH, which after a failed __umount(_to) is  *)
(* nothing, and later a stale dataset.                                    *)
DataNotLost == fresh # {}

(* The program counters of do_update, migrate and setup run by a job:    *)
(* the section the job lock 'sysdataset_update' covers.                    *)
LockedPcs == {"validate", "write", "mg_prep", "mg_stop", "mg_rsync", "mg_umount",
              "mg_swap", "mg_finally", "su_check", "su_wait", "su_mount"}

(* The jobs inside the section the lock covers.                          *)
LockedJobs == {j \in JobIds : proc[j].pc \in LockedPcs}

(* The lock sysdataset_update seen as the abstract job lock: its holder   *)
(* is lock (0 when free) and the jobs in its section are LockedJobs.      *)
JL == INSTANCE JobLock WITH Jobs <- JobIds, Free <- 0, holder <- lock,
                            running <- LockedJobs

(* do_update behaves as a critical section under a job lock: a job enters *)
(* validate only by taking the free lock, the lock stays with the job     *)
(* through migrate and setup (including while setup waits for a job it    *)
(* submitted), and only that job's end, by return or by raise, frees it.  *)
JobLockRefined == JL!Spec

(* The services migrate stops are started again: its try/finally restarts *)
(* them whether rsync, umount or mount raised or not.                     *)
ServicesComeBack == ~svcUp ~> svcUp

(* Every systemdataset.update job that is submitted finishes, whoever     *)
(* submitted it (a client, setup, or the pre_export hook).                 *)
UpdateTerminates ==
    \A j \in JobIds : proc[j].pc = "queued" ~> proc[j].pc \in {"done", "idle"}

(* The docstring and comment of do_update: with no pool given, the first *)
(* data pool that is not excluded, not locked and has room is chosen, and *)
(* '' (the boot pool) only when there is none.                             *)
AutoPickFindsPool ==
    [][\A j \in JobIds :
         (/\ proc[j].pc = "validate" /\ proc'[j].pc = "write"
          /\ proc[j].pool = NoPool
          /\ \E p \in Candidates(proc[j].excl) : ~DestinationPoolError(p))
         => proc'[j].pool # NoPool]_vars

(* spec.md section 6: relocation is blocked while the AD status is        *)
(* HEALTHY or FAULTED; the database never changes the system dataset's   *)
(* pool while AD is enabled.                                               *)
MoveBlockedWhileADEnabled == [][ConfigPool' # ConfigPool => ~adOn]_vars

=============================================================================
