--------------------------- MODULE ActiveDirectory ---------------------------
(***************************************************************************)
(* The Active Directory service of plugins/activedirectory.py: the start  *)
(* and stop jobs (serialised by the job lock "AD_start_stop"), leave(),   *)
(* the started() health check, do_update(), and the monitor thread of     *)
(* ADMonitor. Every await of the code where another writer of the shared  *)
(* state can run is a step boundary. External commands (kinit, net ads    *)
(* ..., set_idmap) are nondeterministic successes or failures; a failure  *)
(* that raises ends the job, and the job lock is released.                *)
(***************************************************************************)
EXTENDS ADMonitor

CONSTANT
    MaxRequests   \* operator calls (do_update, leave) in a behaviour

ASSUME RequestAssumption == MaxRequests \in Nat

VARIABLES
    hasPw,      \* config bindpw # ""
    hasPrinc,   \* config kerberos_principal # ""
    joined,     \* the domain holds a machine account for this server
    ready,      \* system.ready
    lock,       \* holder of the job lock AD_start_stop
    startPc,    \* start job
    startRet,   \* start: neterr result of testjoin / join
    stopPc,     \* stop job
    leavePc,    \* leave() call
    hcPc,       \* started() call: the state it is about to set
    updPc,      \* do_update() call
    updNew,     \* do_update: the merged configuration `new`
    updOld,     \* do_update: old['enable']
    reqs        \* operator calls made so far

adVars == <<hasPw, hasPrinc, joined, ready, lock, startPc, startRet, stopPc,
            leavePc, hcPc, updPc, updNew, updOld, reqs>>
vars == <<status, enable, monVars, adVars>>

NetErr == {"JOINED", "NOTJOINED", "FAULT"}
StartPcs == {"idle", "queued", "enable", "prepare", "testjoin", "join",
             "keytab", "idmap", "finish"}
StopPcs == {"idle", "queued", "leaving", "cancel", "cancelwrite", "disable",
            "final"}
LeavePcs == {"idle", "netleave", "cleanup", "disable"}
HcPcs == {"idle", "DISABLED", "JOINING", "HEALTHY"}
Config == [enable : BOOLEAN, pw : BOOLEAN, princ : BOOLEAN]
(* A field of the activedirectory_update payload: absent, or a value.     *)
UpdateInputs == [enable : BOOLEAN, pw : {"keep", "set", "clear"},
                 princ : {"keep", "set", "clear"}]

TypeOK ==
    /\ MonitorTypeOK
    /\ hasPw \in BOOLEAN
    /\ hasPrinc \in BOOLEAN
    /\ joined \in BOOLEAN
    /\ ready \in BOOLEAN
    /\ lock \in {"none", "start", "stop"}
    /\ startPc \in StartPcs
    /\ startRet \in NetErr
    /\ stopPc \in StopPcs
    /\ leavePc \in LeavePcs
    /\ hcPc \in HcPcs
    /\ updPc \in {"idle", "write"}
    /\ updNew \in Config
    /\ updOld \in BOOLEAN
    /\ reqs \in 0..MaxRequests

(* tdb_defaults: AD disabled, no credentials, not joined, before boot.    *)
Init ==
    /\ status = "DISABLED"
    /\ enable = FALSE
    /\ MonitorInit
    /\ hasPw = FALSE
    /\ hasPrinc = FALSE
    /\ joined = FALSE
    /\ ready = FALSE
    /\ lock = "none"
    /\ startPc = "idle"
    /\ startRet = "JOINED"
    /\ stopPc = "idle"
    /\ leavePc = "idle"
    /\ hcPc = "idle"
    /\ updPc = "idle"
    /\ updNew = [enable |-> FALSE, pw |-> FALSE, princ |-> FALSE]
    /\ updOld = FALSE
    /\ reqs = 0

(* common_validate: bind password and kerberos principal are exclusive,   *)
(* and one of them is required.                                            *)
ValidCreds(pw, princ) == pw # princ

-----------------------------------------------------------------------------
(*                              start job                                  *)

(* Job lock taken. A state of JOINING or LEAVING raises EBUSY; otherwise  *)
(* the state becomes JOINING.                                              *)
StartAcquire ==
    /\ startPc = "queued"
    /\ lock = "none"
    /\ IF status \in {"JOINING", "LEAVING"}
       THEN /\ startPc' = "idle"
            /\ UNCHANGED <<status, lock>>
       ELSE /\ status' = "JOINING"
            /\ lock' = "start"
            /\ startPc' = "enable"
    /\ UNCHANGED <<enable, monVars, hasPw, hasPrinc, joined, ready, startRet,
                   stopPc, leavePc, hcPc, updPc, updNew, updOld, reqs>>

(* do_update({'enable': True}), synchronize, etc.generate hostname.       *)
StartEnable ==
    /\ startPc = "enable"
    /\ enable' = TRUE
    /\ startPc' = "prepare"
    /\ UNCHANGED <<status, monVars, hasPw, hasPrinc, joined, ready, lock,
                   startRet, stopPc, leavePc, hcPc, updPc, updNew, updOld, reqs>>

(* Mutant of StartRaise: the job ends without releasing the lock.       *)
StartRaiseKeepsLock ==
    /\ startPc' = "idle"
    /\ UNCHANGED lock

(* A raise ends the job: the lock is released and the state is left as   *)
(* it is.                                                                  *)
StartRaise ==
    /\ startPc' = "idle"
    /\ lock' = "none"

(* Kerberos realm, kinit (kerberos.start), site detection, NetBIOS domain *)
(* name (raises when `net ads workgroup` fails), smb.initialize_globals.  *)
StartPrepare ==
    /\ startPc = "prepare"
    /\ \/ startPc' = "testjoin" /\ UNCHANGED lock
       \/ StartRaise
    /\ UNCHANGED <<status, enable, monVars, hasPw, hasPrinc, joined, ready,
                   startRet, stopPc, leavePc, hcPc, updPc, updNew, updOld, reqs>>

(* net ads testjoin: JOINED if the account exists, NOTJOINED (one of the  *)
(* errors_to_rejoin) if it does not, FAULT on any other error, e.g. no DC *)
(* reachable.                                                              *)
StartTestjoin ==
    /\ startPc = "testjoin"
    /\ \E r \in IF joined THEN {"JOINED", "FAULT"} ELSE {"NOTJOINED", "FAULT"} :
         /\ startRet' = r
         /\ startPc' = IF r = "NOTJOINED" THEN "join" ELSE "finish"
    /\ UNCHANGED <<status, enable, monVars, hasPw, hasPrinc, joined, ready,
                   lock, stopPc, leavePc, hcPc, updPc, updNew, updOld, reqs>>

(* _net_ads_join: on failure set_state(FAULTED) and raise.                *)
StartJoin ==
    /\ startPc = "join"
    /\ \/ /\ joined' = TRUE
          /\ startPc' = "keytab"
          /\ UNCHANGED <<status, lock>>
       \/ /\ status' = "FAULTED"
          /\ StartRaise
          /\ UNCHANGED joined
    /\ UNCHANGED <<enable, monVars, hasPw, hasPrinc, ready, startRet,
                   stopPc, leavePc, hcPc, updPc, updNew, updOld, reqs>>

(* NFS SPNs, then store_samba_keytab: if it returns an id the bind        *)
(* password is cleared and the machine principal configured; if it       *)
(* raises the job ends.                                                    *)
StartKeytab ==
    /\ startPc = "keytab"
    /\ \/ /\ \/ hasPw' = FALSE /\ hasPrinc' = TRUE
             \/ UNCHANGED <<hasPw, hasPrinc>>
          /\ startPc' = "idmap"
          /\ UNCHANGED lock
       \/ StartRaise /\ UNCHANGED <<hasPw, hasPrinc>>
    /\ UNCHANGED <<status, enable, monVars, joined, ready, startRet,
                   stopPc, leavePc, hcPc, updPc, updNew, updOld, reqs>>

(* ret = JOINED; cifs enabled; set_idmap (raises on failure); NTP.        *)
StartIdmap ==
    /\ startPc = "idmap"
    /\ startRet' = "JOINED"
    /\ \/ startPc' = "finish" /\ UNCHANGED lock
       \/ StartRaise
    /\ UNCHANGED <<status, enable, monVars, hasPw, hasPrinc, joined, ready,
                   stopPc, leavePc, hcPc, updPc, updNew, updOld, reqs>>

(* idmap.synchronize, restart cifs, pam; then HEALTHY and admonitor.start *)
(* when joined, else FAULTED. One of the three calls raising ends the job *)
(* before any state is set.                                                *)
StartFinish ==
    /\ startPc = "finish"
    /\ \/ IF startRet = "JOINED"
          THEN status' = "HEALTHY" /\ AdmonitorStart
          ELSE status' = "FAULTED" /\ UNCHANGED monVars
       \/ UNCHANGED <<status, monVars>>
    /\ StartRaise
    /\ UNCHANGED <<enable, hasPw, hasPrinc, joined, ready, startRet,
                   stopPc, leavePc, hcPc, updPc, updNew, updOld, reqs>>

StartStep == StartAcquire \/ StartEnable \/ StartPrepare \/ StartTestjoin
             \/ StartJoin \/ StartKeytab \/ StartIdmap \/ StartFinish

-----------------------------------------------------------------------------
(*                               stop job                                  *)

(* Job lock taken; direct_update({'enable': False}).                      *)
StopAcquire ==
    /\ stopPc = "queued"
    /\ lock = "none"
    /\ lock' = "stop"
    /\ enable' = FALSE
    /\ stopPc' = "leaving"
    /\ UNCHANGED <<status, monVars, hasPw, hasPrinc, joined, ready, startPc,
                   startRet, leavePc, hcPc, updPc, updNew, updOld, reqs>>

StopLeaving ==
    /\ stopPc = "leaving"
    /\ status' = "LEAVING"
    /\ stopPc' = "cancel"
    /\ UNCHANGED <<enable, monVars, hasPw, hasPrinc, joined, ready, lock,
                   startPc, startRet, leavePc, hcPc, updPc, updNew, updOld, reqs>>

(* admonitor.stop: returns at once without a thread, else cancel().       *)
StopCancel ==
    /\ stopPc = "cancel"
    /\ IF admonCur # 0
       THEN CancelBegin /\ stopPc' = "cancelwrite"
       ELSE UNCHANGED monVars /\ stopPc' = "disable"
    /\ UNCHANGED <<status, enable, hasPw, hasPrinc, joined, ready, lock,
                   startPc, startRet, leavePc, hcPc, updPc, updNew, updOld, reqs>>

StopCancelWrite ==
    /\ stopPc = "cancelwrite"
    /\ CancelWrite
    /\ stopPc' = "disable"
    /\ UNCHANGED <<status, enable, hasPw, hasPrinc, joined, ready, lock,
                   startPc, startRet, leavePc, hcPc, updPc, updNew, updOld, reqs>>

(* A raise ends the stop job: the lock is released.                       *)
StopRaise ==
    /\ stopPc' = "idle"
    /\ lock' = "none"

(* etc.generate hostname, kerberos.stop, synchronize, idmap.synchronize,  *)
(* restart cifs, pam; then set_state(DISABLED). None of the calls is      *)
(* guarded: one raising ends the job with the state left as it is.        *)
StopDisable ==
    /\ stopPc = "disable"
    /\ \/ status' = "DISABLED" /\ stopPc' = "final" /\ UNCHANGED lock
       \/ StopRaise /\ UNCHANGED status
    /\ UNCHANGED <<enable, monVars, hasPw, hasPrinc, joined, ready,
                   startPc, startRet, leavePc, hcPc, updPc, updNew, updOld, reqs>>

(* dscache stop, net cache flush, set_state(DISABLED) again; job ends.    *)
StopFinal ==
    /\ stopPc = "final"
    /\ status' = "DISABLED"
    /\ stopPc' = "idle"
    /\ lock' = "none"
    /\ UNCHANGED <<enable, monVars, hasPw, hasPrinc, joined, ready, startPc,
                   startRet, leavePc, hcPc, updPc, updNew, updOld, reqs>>

StopStep == StopAcquire \/ StopLeaving \/ StopCancel \/ StopCancelWrite
            \/ StopDisable \/ StopFinal

-----------------------------------------------------------------------------
(*                         leave (no job lock)                             *)

(* kinit with the supplied credentials succeeded (a failure raises before *)
(* any change and is a stutter).                                           *)
LeaveBegin ==
    /\ leavePc = "idle"
    /\ reqs < MaxRequests
    /\ reqs' = reqs + 1
    /\ leavePc' = "netleave"
    /\ UNCHANGED <<status, enable, monVars, hasPw, hasPrinc, joined, ready,
                   lock, startPc, startRet, stopPc, hcPc, updPc, updNew, updOld>>

(* net ads leave: a failure is only logged.                                *)
LeaveNet ==
    /\ leavePc = "netleave"
    /\ \/ joined' = FALSE
       \/ UNCHANGED joined
    /\ leavePc' = "cleanup"
    /\ UNCHANGED <<status, enable, monVars, hasPw, hasPrinc, ready, lock,
                   startPc, startRet, stopPc, hcPc, updPc, updNew, updOld, reqs>>

(* Keytab and realm deleted, secrets archived; direct_update of enable,   *)
(* site, realm, kerberos_principal and domainname (bindpw is kept).       *)
LeaveCleanup ==
    /\ leavePc = "cleanup"
    /\ enable' = FALSE
    /\ hasPrinc' = FALSE
    /\ leavePc' = "disable"
    /\ UNCHANGED <<status, monVars, hasPw, joined, ready, lock, startPc,
                   startRet, stopPc, hcPc, updPc, updNew, updOld, reqs>>

(* set_state(DISABLED), then cache flush, kerberos.stop, cifs restart.    *)
LeaveDisable ==
    /\ leavePc = "disable"
    /\ status' = "DISABLED"
    /\ leavePc' = "idle"
    /\ UNCHANGED <<enable, monVars, hasPw, hasPrinc, joined, ready, lock,
                   startPc, startRet, stopPc, hcPc, updPc, updNew, updOld, reqs>>

LeaveStep == LeaveNet \/ LeaveCleanup \/ LeaveDisable

-----------------------------------------------------------------------------
(*                       started() health check                            *)

(* Reads the configuration and decides which state to set: DISABLED when  *)
(* AD is disabled; an invalid configuration disables AD and raises;       *)
(* JOINING before the system is ready; HEALTHY when the netlogon ping     *)
(* succeeds, which needs the machine account (a failed ping raises and is *)
(* a stutter).                                                             *)
HealthBegin ==
    /\ hcPc = "idle"
    /\ \/ ~enable /\ hcPc' = "DISABLED" /\ UNCHANGED enable
       \/ enable /\ ~ValidCreds(hasPw, hasPrinc)
          /\ enable' = FALSE /\ UNCHANGED hcPc
       \/ enable /\ ValidCreds(hasPw, hasPrinc) /\ ~ready
          /\ hcPc' = "JOINING" /\ UNCHANGED enable
       \/ enable /\ ValidCreds(hasPw, hasPrinc) /\ ready /\ joined
          /\ hcPc' = "HEALTHY" /\ UNCHANGED enable
    /\ UNCHANGED <<status, monVars, hasPw, hasPrinc, joined, ready, lock,
                   startPc, startRet, stopPc, leavePc, updPc, updNew, updOld, reqs>>

(* Mutant: the write does not check that a state was decided.            *)
HealthWriteUnguarded ==
    /\ status' = hcPc
    /\ hcPc' = "idle"
    /\ UNCHANGED <<enable, monVars, hasPw, hasPrinc, joined, ready, lock,
                   startPc, startRet, stopPc, leavePc, updPc, updNew, updOld, reqs>>

(* set_state of the decided state (HEALTHY only if the cached state is    *)
(* not HEALTHY already, which sets the same value).                        *)
HealthWrite ==
    /\ hcPc # "idle"
    /\ status' = hcPc
    /\ hcPc' = "idle"
    /\ UNCHANGED <<enable, monVars, hasPw, hasPrinc, joined, ready, lock,
                   startPc, startRet, stopPc, leavePc, updPc, updNew, updOld, reqs>>

-----------------------------------------------------------------------------
(*                        do_update (no job lock)                          *)

Merge(old, v) == IF v = "keep" THEN old ELSE v = "set"

(* Reads the old configuration, merges the payload and validates it;      *)
(* on enabling, kinit and the clock-skew check must pass (a failure       *)
(* raises a ValidationError and is a stutter). At most one start and one  *)
(* stop job are outstanding.                                               *)
UpdateRead ==
    /\ updPc = "idle"
    /\ reqs < MaxRequests
    /\ reqs' = reqs + 1
    /\ \E d \in UpdateInputs :
         LET new == [enable |-> d.enable, pw |-> Merge(hasPw, d.pw),
                     princ |-> Merge(hasPrinc, d.princ)]
         IN  /\ new.enable => ValidCreds(new.pw, new.princ)
             /\ new.enable /\ ~enable => startPc = "idle"
             /\ ~new.enable /\ enable => stopPc = "idle"
             /\ updNew' = new
             /\ updOld' = enable
             /\ updPc' = "write"
    /\ UNCHANGED <<status, enable, monVars, hasPw, hasPrinc, joined, ready,
                   lock, startPc, startRet, stopPc, leavePc, hcPc>>

(* The whole merged configuration is written back, then start or stop is  *)
(* queued on an enable edge.                                               *)
UpdateWrite ==
    /\ updPc = "write"
    /\ enable' = updNew.enable
    /\ hasPw' = updNew.pw
    /\ hasPrinc' = updNew.princ
    /\ IF ~updOld /\ updNew.enable
       THEN startPc = "idle" /\ startPc' = "queued" /\ UNCHANGED stopPc
       ELSE IF updOld /\ ~updNew.enable
            THEN stopPc = "idle" /\ stopPc' = "queued" /\ UNCHANGED startPc
            ELSE UNCHANGED <<startPc, stopPc>>
    /\ updPc' = "idle"
    /\ UNCHANGED <<status, monVars, joined, ready, lock, startRet, leavePc,
                   hcPc, updNew, updOld, reqs>>

-----------------------------------------------------------------------------
(* setup(): once the system is ready the monitor is started.               *)
SystemReady ==
    /\ ~ready
    /\ ready' = TRUE
    /\ AdmonitorStart
    /\ UNCHANGED <<status, enable, hasPw, hasPrinc, joined, lock, startPc,
                   startRet, stopPc, leavePc, hcPc, updPc, updNew, updOld, reqs>>

MonitorStep(t) == ThreadStep(t) /\ UNCHANGED adVars

Next ==
    \/ StartStep
    \/ StopStep
    \/ LeaveBegin \/ LeaveStep
    \/ HealthBegin \/ HealthWrite
    \/ UpdateRead \/ UpdateWrite
    \/ SystemReady
    \/ WinbindWrite /\ UNCHANGED adVars
    \/ \E t \in ThreadIds : MonitorStep(t)

(* The jobs, a leave in progress, a decided health-check write and the    *)
(* monitor threads are scheduled by the middleware event loop and the OS; *)
(* the lock-taking steps are only intermittently enabled, hence strong    *)
(* fairness. Requests (update, leave, health checks) and winbindd's       *)
(* messages need not happen.                                               *)
Fairness ==
    /\ SF_vars(StartAcquire) /\ SF_vars(StopAcquire)
    /\ WF_vars(StartStep) /\ WF_vars(StopStep)
    /\ WF_vars(LeaveStep) /\ WF_vars(HealthWrite) /\ WF_vars(SystemReady)
    /\ \A t \in ThreadIds : WF_vars(MonitorStep(t))

Spec == Init /\ [][Next]_vars
FairSpec == Spec /\ Fairness

-----------------------------------------------------------------------------
(*                               properties                                *)

(* Monitor threads that are running and have not been cancelled.          *)
LiveThreads == {t \in ThreadIds : thrPc[t] \notin {"unused", "exited"}}
ActiveThreads == {t \in LiveThreads : ~thrFinished[t]}

(* At most one monitor thread keeps reading the winbind FIFO, and it is    *)
(* the thread ADMonitorService has registered: admonitor.start, reached   *)
(* from start, setup and restart, never starts a second listener while    *)
(* one runs, and stop()'s cancel marks the thread it unregisters (spec    *)
(* 5 and 9: one background monitor per process).                          *)
SingleActiveMonitor ==
    \A t \in ActiveThreads : admonCur = t

(* The inductive strengthening of SingleActiveMonitor: initialized is set *)
(* exactly while a thread is registered, and a stop job blocked in the     *)
(* sentinel write has already marked the registered thread finished.     *)
MonitorInv ==
    /\ TypeOK
    /\ admonInit <=> admonCur # 0
    /\ SingleActiveMonitor
    /\ stopPc = "cancelwrite" => admonCur # 0 /\ thrFinished[admonCur]

(* The jobs inside the section the lock AD_start_stop covers: a start or *)
(* a stop job from taking the lock until it ends.                         *)
InSection ==
    (IF startPc \in {"idle", "queued"} THEN {} ELSE {"start"})
    \cup (IF stopPc \in {"idle", "queued"} THEN {} ELSE {"stop"})

(* The lock AD_start_stop seen as the abstract job lock.                  *)
JL == INSTANCE JobLock WITH Jobs <- {"start", "stop"}, Free <- "none",
                            holder <- lock, running <- InSection

(* spec 5: start and stop never interleave.  A job runs only after taking *)
(* the free lock (an EBUSY start never enters), and the lock is freed     *)
(* only when the job holding it ends, by StartFinish, a raise of start,   *)
(* or StopFinal.                                                           *)
JobLockRefined == JL!Spec

(* LEAVING is only persisted while a stop job is between its set_state    *)
(* (LEAVING) and its set_state(DISABLED): spec 4.5 says stop is best-     *)
(* effort on sub-step failures and still reaches DISABLED, and a LEAVING  *)
(* left behind makes every later start fail with EBUSY.                   *)
LeavingOnlyDuringStop ==
    status = "LEAVING" => stopPc \in {"cancel", "cancelwrite", "disable"}

(* While AD is enabled the configuration holds exactly one of bind        *)
(* password and kerberos principal (spec 3, DomainConfig).                 *)
CredExclusive ==
    enable => ValidCreds(hasPw, hasPrinc)

(* A start job that raises never leaves the state JOINING: a failure at  *)
(* any step leaves FAULTED or DISABLED (spec 4.5 and 7).                  *)
StartNeverLeavesJoining ==
    [][startPc \notin {"idle", "queued"} /\ startPc' = "idle"
         => status' # "JOINING"]_vars

(* A FAULTED report of winbindd for our domain that the monitor parses    *)
(* while AD is enabled is never dropped while the state is HEALTHY       *)
(* (spec 4.6: every genuine status change is applied).                     *)
DropsFault(t) ==
    /\ thrPc[t] = "parse"
    /\ thrBatch[t] # <<>>
    /\ Head(thrBatch[t]) = [kind |-> "json", dom |-> "ours", st |-> "FAULTED"]
    /\ enable
    /\ thrPc'[t] = "parse"
    /\ thrBatch'[t] = Tail(thrBatch[t])
FaultNeverSwallowed ==
    [][\A t \in ThreadIds : DropsFault(t) => status # "HEALTHY"]_vars

(* The monitor only toggles HEALTHY and FAULTED: it never overwrites a    *)
(* JOINING or LEAVING state of a transition in progress (spec 5).         *)
MonitorRespectsTransitions ==
    [][\A t \in ThreadIds :
         thrPc[t] = "write" /\ thrPc'[t] = "parse"
           => status \notin {"JOINING", "LEAVING"}]_vars

(* A stop job that has taken the lock eventually completes: cancelling    *)
(* the monitor cannot block it forever (spec 5: cancellation by a         *)
(* sentinel write that unblocks the reader).                               *)
StopTerminates ==
    stopPc \notin {"idle", "queued"} ~> stopPc = "idle"

=============================================================================
