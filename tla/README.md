# Formal models of the Active Directory and system dataset services of middlewared

This directory holds TLA+ models of
`src/src/middlewared/middlewared/plugins/activedirectory.py` and
`src/src/middlewared/middlewared/plugins/sysdataset.py`. For AD they model the
domain-membership state machine (the `start` and `stop` jobs, `leave`,
`started` and `do_update`) and its health monitor (`WBStatusThread`,
`ADMonitorService`). For the system dataset they model `do_update`,
`migrate`, `setup` and the pool hooks. The directory also holds the TLC configurations that check them,
TLAPS proofs of the main safety invariants, and an abstract job-lock
specification (`JobLock`) that both services are proved to implement.

## The system

The AD service keeps one persisted status per directory service: DISABLED,
JOINING, HEALTHY, FAULTED or LEAVING. It is written through
`directoryservices.set_state`. Five pieces of code write it or the
configuration it depends on:

* `start` (job, lock `AD_start_stop`, lines 636-771). It rejects a JOINING
  or LEAVING status with EBUSY and sets JOINING. Then it sets `enable`,
  prepares Kerberos, the site and the NetBIOS name, and runs
  `net ads testjoin`. On NOTJOINED it joins, stores the keytab (which clears
  the bind password and sets the machine principal) and configures idmap.
  It ends with HEALTHY plus `admonitor.start` when joined, FAULTED
  otherwise. Any raise ends the job, and the lock is released.
* `stop` (job, same lock, lines 773-813). It clears `enable`, sets LEAVING,
  runs `admonitor.stop`, reconfigures services and sets DISABLED twice.
  None of the calls between LEAVING and the first DISABLED is guarded, so
  a raise there ends the job with LEAVING stored.
* `leave` (plain method, no lock, lines 1311-1393). It kinits, runs
  `net ads leave` (a failure is only logged), deletes the keytab and realm,
  clears `enable` and the principal, and sets DISABLED. It never stops the
  monitor.
* `started` (health check, lines 932-989). It sets DISABLED when AD is
  disabled. An invalid configuration disables AD and raises. It sets JOINING
  before boot, and HEALTHY after a successful netlogon ping.
* `do_update` (lines 430-585). It reads the configuration, merges the
  payload, validates it, writes the whole merged configuration back, and
  launches `start` or `stop` on an edge of `enable`.

The monitor is a daemon thread. It blocks in `open()` on winbindd's status
FIFO and `read()`s until every writer has closed. Then, still inside
`with open(...)`, it parses the read text line by line (`parse_msg`): it drops the cancel sentinel, non-JSON
lines, every message while AD is disabled and messages about other domains.
On a change of its cached state it calls `set_state` and creates or deletes
the offline alert. `ADMonitorService.start` creates a thread (unless AD is
disabled or one is registered). `stop` calls `cancel()`, which sets
`finished` and opens the FIFO for writing to write the sentinel `"3"`
without a newline. `setup()` starts the monitor when the system is ready.

The jobs, `leave`, `started` and `do_update` are coroutines on one event
loop. Every `await` lets another coroutine run. The monitor threads and
winbindd run concurrently with all of them.

## Modules

| module | models |
|---|---|
| `ADMonitor` | WBStatusThread and ADMonitorService; the FIFO; winbindd as a writer |
| `ActiveDirectory` | EXTENDS ADMonitor; start, stop, leave, started, do_update, setup; `Next`, `Spec`, `FairSpec` and the properties |
| `MCActiveDirectory` | the constants for TLC |
| `JobLock` | the abstract named job lock (spec.md section 5) |
| `ActiveDirectoryProofs` | TLAPS proofs of `TypeOK`, `SingleActiveMonitor` and the refinement of `JobLock` |
| `SysDataset` | sysdataset.py: do_update, migrate, setup, the pool hooks and their environment |
| `MCSysDataset` | the constants for TLC |
| `SysDatasetProofs` | TLAPS proofs of `TypeOK`, the lock invariants and the refinement of `JobLock` |

### The job lock (`JobLock`)

Both services serialise their jobs with a named lock of the middlewared job
queue (`@job(lock=...)`): `AD_start_stop` for AD's start and stop,
`sysdataset_update` for `systemdataset.update`. The job queue is not part of
the sources, so `JobLock` is written from spec.md section 5 ("one in-flight
transition at a time", start and stop "never interleave"). Its state is the
holder (`holder`, or `Free`) and the jobs inside their locked section
(`running`). `Acquire(j)` needs a free lock. `Release(j)` is taken by the
holder as it ends. A behaviour of `JobLock` never has two jobs in their
sections, so a service that refines it serialises its jobs.

Each service defines an instance `JL` with a refinement mapping:

* ActiveDirectory: `holder <- lock`, `Free <- "none"`, and
  `running <- InSection`, where `InSection` holds `"start"` while the start
  job is past the queue and `"stop"` likewise.
* SysDataset: `holder <- lock`, `Free <- 0`, and `running <- LockedJobs`,
  the jobs whose program counter is in do_update, migrate or setup.

The property `JobLockRefined == JL!Spec` is checked by both passing runs
and proved by TLAPS (`LockRefinement` in each proof module).

### ADMonitor

Thread slots `1..MaxThreads` stand for thread objects; a slot is reused once
its thread has exited. The per-thread variables are: `thrPc` (unused, open,
reading, parse, write, exited), `thrState` (`WBStatusThread.state`),
`thrFinished` (the `finished` event), `thrBatch` (the lines read and not yet
parsed) and `thrNew` (the state `parse_msg` decided to set). `admonCur` and
`admonInit` are `ADMonitorService.thread` and `initialized`. `wbSent` counts
winbindd's messages.

A FIFO line is a record: a status message for our domain or another one,
the sentinel, or a non-JSON line. `AppendLine` models the sentinel's missing
newline: a line written after it in the same `read()` merges with it into a
non-JSON line. A writer's `open()` succeeds while some thread holds the FIFO
open for reading (`Readers`): blocked in `open()`, inside `read()`, or
parsing inside the `with` block. `WriteLine` delivers the line to a thread
in `open()` or `read()`; a thread already parsing never reads again before
it closes the FIFO, so the line is discarded. Only when every thread has
left its loop does `cancel()`'s open-for-write block.

The actions are `AdmonitorStart`, `CancelBegin` and `CancelWrite` (the two
halves of `cancel()`, separated by the blocking open), `WinbindWrite`,
`ReadEOF`, `ParseMsg` (up to the state comparison), `ParseWrite` (set_state,
the alert, the state cache) and `ReadLoop` (the `finished` test).

### ActiveDirectory

The configuration is abstracted to `enable`, `hasPw` (bindpw non-empty) and
`hasPrinc` (kerberos_principal non-empty). `joined` stands for the domain
holding our machine account, and `ready` for `system.ready`. Each job and
call has a program counter with one value per await that another writer can
interleave with. `lock` holds the job lock. External commands are
nondeterministic: each one either succeeds or fails (raising where the code
raises). The unguarded calls of start (kinit, the NetBIOS lookup,
`store_samba_keytab`, `set_idmap`, the idmap/cifs/pam calls before the final
state) and of stop (the six calls after LEAVING, `StopDisable`) each have a
raise branch that ends the job; the raises after stop's first DISABLED and
a failing `admonitor.stop` are left out, because they change no state
that a property reads.

`do_update` is split into `UpdateRead` (read, merge, validate) and
`UpdateWrite` (write everything back, queue start or stop). Validation
failures, kinit and clock-skew failures raise before any write, so they are
stutters. `started` is split into `HealthBegin` (decide) and `HealthWrite`
(set_state). `MaxRequests` bounds the number of `do_update` and `leave`
calls in a behaviour. At most one start and one stop job are outstanding.

## Runs

All runs use `MCActiveDirectory` with `MaxThreads = 2`, `MaxMsgs = 2` and
`MaxRequests = 2`.

* `lifecycle` (`MCActiveDirectory.cfg`, pass, 1,487,391 distinct states,
  about 60 s). It checks two invariants and one temporal property:
  * `TypeOK`.
  * `SingleActiveMonitor`: every running, uncancelled thread is the
    registered one.
  * `JobLockRefined`: start and stop refine `JobLock`. A job enters its
    section only by taking the free lock (an EBUSY start never enters), and
    every end of a job (`StartFinish`, a raise, `StopFinal`) releases it.

  Deadlock is not checked because the system rests once the request budget
  is used up. Every action of `Next` fires.
* Six violation runs, one property each. They record real disagreements
  between the code and spec.md (see `findings` in PROJECT.json):
  * `LeaveRacesStart.cfg` (`CredExclusive`): leave interleaves with a
    start past its enable step, and AD ends up enabled without credentials.
  * `StartLeavesJoining.cfg` (`StartNeverLeavesJoining`): a start that
    raises leaves JOINING behind, so every later start fails with EBUSY.
  * `StopLeavesLeaving.cfg` (`LeavingOnlyDuringStop`): a stop whose
    teardown raises after `set_state(LEAVING)` (kerberos.stop, synchronize,
    the cifs restart, pam) leaves LEAVING behind; spec 4.5 says stop is
    best-effort and still reaches DISABLED. Nine steps: enable, queue a
    stop, take the lock, LEAVING, cancel, the raise.
  * `MonitorSwallowsFault.cfg` (`FaultNeverSwallowed`): a fresh thread
    caches FAULTED, so the first FAULTED report after HEALTHY is dropped.
  * `MonitorOverridesTransition.cfg` (`MonitorRespectsTransitions`): the
    monitor writes over JOINING or LEAVING.
  * `StopHangs.cfg` (`StopTerminates`, under `FairSpec`): a thread leaves
    its loop between `read()` and the `finished` test, and `cancel()`'s
    open-for-write then blocks forever.

Why the bounds are enough:

* Two thread slots let a second monitor thread be created after a stop, or
  wrongly next to a running one.
* Two winbindd messages give a FAULTED/HEALTHY edge and a line merging with
  the sentinel.
* Two requests give an update that enables AD plus either a leave or a
  disabling update racing the jobs.

Each violation above needs these bounds and is found with them. A third
request multiplies the state space by about 13 (16M states) without adding
a new kind of step.

### Fairness

`FairSpec` is used only for `StopTerminates`:

* Strong fairness on `StartAcquire` and `StopAcquire`. The job queue runs a
  waiting job whenever the lock is free, and the lock is only free
  intermittently.
* Weak fairness on the other job, leave and health-write steps. A coroutine
  that can continue is eventually resumed.
* Weak fairness on each monitor thread and on `SystemReady`.

Requests, health checks and winbindd's messages are not assumed to happen.
With this fairness the only way for stop not to finish is the blocked
`open()` in `cancel()`, which is the bug the run shows.

## Proofs (`ActiveDirectoryProofs`, TLAPS, 538 obligations)

* `TypeCorrect`: `Spec => []TypeOK`, for all values of the constants under
  `MonitorAssumption` and `RequestAssumption`. The proof has one case per
  action of `Next`. It rests on these lemmas:
  * `AppendLineType`: merging a line with the sentinel keeps a sequence of
    lines.
  * Frame lemmas for the two groups of variables.
  * One lemma per monitor action.
* `MonitorInvariant`: `Spec => []MonitorInv`. `SingleActiveMonitor` alone is
  not inductive. `MonitorInv` adds three facts:
  * `TypeOK`.
  * `admonInit <=> admonCur # 0`. This is needed because
    `AdmonitorStart` only checks `initialized`, and the proof needs
    "no registered thread" to conclude "no active thread".
  * A stop job blocked in the sentinel write has already marked the
    registered thread finished. This is needed because `CancelWrite` clears
    the registration, and no active thread may remain afterwards.

  TLC confirmed `MonitorInv` as an invariant of the lifecycle run before it
  was proved.
* `MonitorSingle`: `Spec => []SingleActiveMonitor`, a corollary of
  `MonitorInvariant`.
* `LockHolderInvariant`: `Spec => []LockHolder`. The lock is `"start"`
  exactly while the start job is past the queue, and `"stop"` likewise.
* `LockRefinement`: `Spec => JobLockRefined`. `SectionIsHolder` turns
  `LockHolder` into "`InSection` is `{lock}`, or empty", and `LockMoves`
  shows that the lock only goes from free to a job or back. A step that
  changes the lock is therefore `JL!Acquire` or `JL!Release`, and every
  other step is a stutter of the abstract variables. TLC checked
  `LockHolder` on all states of the lifecycle run before it was
  proved.

Some results are only model-checked:

* Liveness (`StopTerminates`) and everything about fairness, because TLAPS
  does not handle ENABLED or fairness here.
* The action properties of the violation runs. They are violated, so there
  is nothing to prove.
* `LeavingOnlyDuringStop` is false once stop's raise paths are modelled:
  see the `stop_leaves_leaving` run.

## The system dataset (`SysDataset`)

`systemdataset.update` is a job with lock `sysdataset_update`, and the lock
is not reentrant. Its body, `do_update` (lines 115-215), works in four steps:
* It validates the request. Relocation is refused while AD is enabled, and
  the destination must have room for 1.1 times the used space.
* With no pool given, it chooses one automatically.
* It writes the database.
* When the pool changes, it runs `migrate` and then `setup`.

`migrate` (lines 483-544):
1. creates the datasets on the new pool and mounts them on a temporary
   path;
2. stops the services that write into `.system`;
3. rsyncs;
4. unmounts the old mount, mounts the new pool and destroys the old
   datasets;
5. restarts the services in a `finally`.

`setup` (lines 245-343) has three outcomes:
* When the configured pool is not imported, it submits another
  `systemdataset.update` and waits for it.
* When the database has no pool and a data pool can take the dataset, it
  does the same.
* Otherwise it mounts the configured pool.

The hooks also submit updates:
* `pool.post_create` and `pool.post_import` run `setup`.
* `pool.pre_export` submits `update(pool=None, pool_exclude=pool)` and waits
  for it, and the export is abandoned if that update fails.

### Model

The state is as follows:
* The pools are `DataPools` plus `Boot`.
* `imported` is the set of imported pools.
* `dbPool` is the database's pool, where `NoPool` means null.
* `hasDs` is the set of pools with a `.system` dataset.
* `fresh` is the set of those datasets that hold the latest contents.
* `mounted` and `tmpMnt` are the pools mounted on `SYSDATASET_PATH` and on
  the temporary path.
* `svcUp` says whether the services are running.
* `lock` is the job holding `sysdataset_update`, or 0.
* `adOn` says whether AD is HEALTHY or FAULTED.

The actors are the job slots `1..MaxJobs` plus `Hook`, the pool manager
running the hooks. Each actor has a record holding:
* its program counter;
* its arguments;
* the pools migrate read;
* the submitted sub-job;
* whether a caller waits for it;
* its error.

A slot is freed when its job ends, or when its waiter has read the result.

There is one action per await of the code:
* `UpdateAcquire`, `UpdateValidate` and `UpdateWrite`.
* `MigratePrep`, `MigrateStop`, `MigrateRsync`, `MigrateUmount`,
  `MigrateSwap` and `MigrateFinally`.
* `SetupCheck`, `SetupWait` and `SetupMount`.
* `ExportCheck`, `ExportWait` and `ExportDo`.
* The environment: `PoolCreate`, `PoolImport`, `PoolExport`, `UserUpdate`,
  `ADChange` and `ServiceWrite`. A running service makes every dataset
  other than the mounted one stale.

`Submit` is the `middleware.call('systemdataset.update')` of setup and of
the export hook: it queues a job that its caller waits for. Every zfs, mount
and rsync command either succeeds or raises, at the place where the code
catches or propagates the error.

### Runs

All runs use `MCSysDataset`, which has two data pools, one of them without
room. `MaxEvents = 3` pool events give create, import and export, or an
export followed by a re-import.

* `sysdataset_relocation` (`MCSysDataset.cfg`, pass, 133,464 distinct
  states, about 30 s, `MaxJobs = 3`, `MaxRequests = 1`). Every action and
  every branch of `SetupCheck` fires. It checks:
  * `TypeOK`.
  * `JobLockRefined`: do_update, migrate and setup form the critical
    section of `JobLock`, so two update jobs are never both inside it,
    whether a client, setup or the export hook submitted them. A job enters validate only by taking the free
    lock. It keeps the lock through migrate and setup, including while setup
    waits for a job it submitted. Only its end, by return or raise, frees
    the lock.
  * `ServicesComeBack` (under `FairSpec`): the services migrate stopped are
    started again.

  Deadlock is not checked, because the system rests once the request and
  event budgets are used up. Three slots are enough for a client job, the
  job its setup submits, and one submitted by a hook.
* `auto_pick_skips_pools` (`AutoPickSkipsPools.cfg`, violation of
  `AutoPickFindsPool`). At line 173 the coroutine
  `destination_pool_error(...)` is tested without `await`. A coroutine is
  always truthy, so every candidate is skipped and the automatic choice
  always falls back to the boot pool, contrary to the comment and the
  docstring.
* `data_lost_after_failed_umount` (`DataLostAfterFailedUmount.cfg`,
  violation of `DataNotLost`, about 35 s). This run has both data pools
  with room (`MCRoomyAll`), `MaxRequests = 2` and `MaxEvents = 2` (two
  imports). The 42-state trace runs as follows:
  1. A migrate from Boot to p1 rsyncs successfully. `__umount(_from)`
     succeeds and `__umount(_to)` raises (lines 529-530). Nothing is left
     mounted on `SYSDATASET_PATH`.
  2. A client moves the dataset to p2. Its rsync copies the bare directory
     (line 525 copies `SYSDATASET_PATH/`, not `_from`). It mounts p2 and
     destroys the complete p1.
  3. A client's update to the boot pool fails.
  4. The update that setup submitted from the import hook moves the dataset
     to p1. Its rsync copies the stale p2. `__mount` skips the path because
     p2 is still mounted there (line 389). It then destroys Boot, the last
     complete dataset.

  With a single roomy data pool (the relocation run's bounds) the loss
  cannot happen, which is why that run no longer checks `DataNotLost`.
* `relocate_while_ad_enabled` (`RelocateWhileADEnabled.cfg`, violation of
  `MoveBlockedWhileADEnabled`). The AD status is read at line 133 and the
  database is written at line 190. AD can come up in between, so the pool
  changes while AD is enabled, against spec.md section 6.
* `sysds_update_hangs` (`SysdsUpdateHangs.cfg`, violation of
  `UpdateTerminates` under `FairSpec`, `MaxJobs = 4`). `do_update` holds the
  lock and calls `setup`, and `setup` submits `systemdataset.update` and
  waits for it (lines 265-268 and 286-290). The new job can never take the
  lock, so both jobs hang.

### Fairness

`FairSpec` assumes:
* Strong fairness of `UpdateAcquire` for each slot. The job queue starts a
  queued job whenever its lock is free, and the lock is free only
  intermittently.
* Weak fairness of the other job steps and of the hook steps: a coroutine
  that can continue is resumed.

Requests, pool events, AD changes and service writes are not forced.

### Proofs (`SysDatasetProofs`, TLAPS, 914 obligations)

* `TypeCorrect`: `Spec => []TypeOK`, under `SysDatasetAssumption` (the pools
  are distinct and the bounds are naturals), for every number of pools and
  slots. Each group of actions has a lemma (`JobStepType`, `HookStepType`,
  `EnvStepType`), and they rest on lemmas about `Finish`, `Goto`, `Submit`
  and one-field updates of an actor record.
* `LockInvariant`: `Spec => []IInv`. `IInv` is `TypeOK` plus `LockOwner`:
  every job whose program counter is in the locked section is the lock
  holder, so at most one job is in the section. The mere "at most one job
  in the section" is not inductive, because it says nothing of a queued
  job whose `UpdateAcquire` would enter the section. `LockOwner` ties
  entry to the lock, and the lock is taken only when it is
  0. The proof covers the following cases:
  * Steps of the holder that keep the lock (`HolderStep`).
  * `Finish`, which frees the lock only when the holder ends
    (`FinishOwner`).
  * `Submit`, which puts the new job in `queued`, outside the section
    (`SubmitOwner`).
  * Hook and environment steps, which never move a job into the section.

  TLC checked `LockOwner` as an invariant of the relocation run (all
  133,464 states) before it was proved.
* `HeldInvariant`: `Spec => []RInv`, where `RInv` is `IInv` plus
  `LockHeld`: a taken lock is held by a job inside the section. `LockHeld`
  is inductive relative to `IInv`, for three reasons:
  * The queue moves the job it starts into `validate`.
  * Every later step of the holder either keeps it in the section or ends
    it through `Finish`, which sets the lock to 0 (`JobStepHeld`).
  * The pool manager and the environment touch only free slots, finished
    jobs and the pool manager's own record (`HookStepHeld`, `EnvStepHeld`,
    `HolderBusy`).

  TLC checked `LockHeld` on the relocation run before it was proved.
* `LockRefinement`: `Spec => JobLockRefined`. Under `RInv`, `LockedJobs`
  is `{lock}`, or empty (`SectionIsHolder`). By `LockMoves`, a step either
  keeps the lock, takes it when it is 0, or frees it. Each such step is a
  stutter, `JL!Acquire` or `JL!Release`.

Only model-checked:
* `DataNotLost` is false: see the `data_lost_after_failed_umount` run.
* The liveness properties.
* The action properties of the violation runs.

## Not modelled

* The DNS locator (`ActiveDirectory_DNS`), a pure ranking and filtering
  algorithm. It is planned as a pure-operator module.
* `neterr.to_status` and `_parse_join_err` (string classification).
* `conn_check`, `check_clockskew` and `validate_credentials`. These appear
  only as the success or failure of `UpdateRead`.
* The Kerberos server and NTP helpers.
* The identity cache (`get_entries`, `fill_cache`).
* The HA modes (LEGACY, UNIFIED, CLUSTERED).
* A monitor thread dying from an exception in `run()`.
* In sysdataset.py: the failover (HA) branches, the syslog restart, the
  links, the cores and samba4 child datasets, and `pool_choices`.
* The cluster hostname resolution, the SMB registry translation and the
  enclosure parsing, which the spec puts out of scope.

## Plan for later sittings

1. A weaker data-safety property that the code does keep, for example
   that a successful migrate leaves `_to` mounted. It is not obvious
   either: `__mount` skips a path that is already mounted.
2. Model the DNS locator's `_get_servers`/`get_n_working_servers` as
   operators checked against a reference ordering.
3. An abstract status-machine spec (spec 3's DomainStatus transitions) with
   `ActiveDirectory` as a refinement, where the code agrees with it.
4. sysdataset: the failover branches of setup.
