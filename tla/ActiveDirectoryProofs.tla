------------------------ MODULE ActiveDirectoryProofs ------------------------
(***************************************************************************)
(* Proofs about ActiveDirectory for every value of the constants: the     *)
(* type invariant, and that at most one monitor thread listens on the     *)
(* winbind FIFO (SingleActiveMonitor) through its inductive               *)
(* strengthening MonitorInv.                                              *)
(***************************************************************************)
EXTENDS ActiveDirectory, TLAPS

(* The part of MonitorTypeOK about the monitor's own variables.           *)
ThreadsOK ==
    /\ alert \in BOOLEAN
    /\ thrPc \in [ThreadIds -> ThreadPcs]
    /\ thrState \in [ThreadIds -> WinbindStatus]
    /\ thrFinished \in [ThreadIds -> BOOLEAN]
    /\ thrBatch \in [ThreadIds -> Seq(Msgs)]
    /\ thrNew \in [ThreadIds -> WinbindStatus]
    /\ admonCur \in ThreadIds \cup {0}
    /\ admonInit \in BOOLEAN
    /\ wbSent \in 0..MaxMsgs

(* Appending a line to what a read() has collected keeps it a sequence of *)
(* FIFO lines, whether or not the line merges with a trailing sentinel.   *)
LEMMA AppendLineType ==
    ASSUME NEW b \in Seq(Msgs), NEW m \in Msgs
    PROVE  AppendLine(b, m) \in Seq(Msgs)
  <1>1. CASE b # <<>> /\ b[Len(b)] = Sentinel
    <2>1. Malformed \in Msgs
      BY DEF Msgs
    <2>2. QED
      BY <1>1, <2>1 DEF AppendLine
  <1>2. CASE ~(b # <<>> /\ b[Len(b)] = Sentinel)
    BY <1>2 DEF AppendLine
  <1>3. QED
    BY <1>1, <1>2

(* The conjuncts of TypeOK about the variables of ActiveDirectory.       *)
ADTypeOK ==
    /\ hasPw \in BOOLEAN
    /\ hasPrinc \in BOOLEAN
    /\ joined \in BOOLEAN
    /\ ready \in BOOLEAN
    /\ lock \in {"none", "start", "stop"}
    /\ startPc \in StartPcs
    /\ startRet \in NetErr
    /\ stopPc \in StopPcs
    /\ leavePc \in LeavePcs
    /\ hcPc \in HcPcs
    /\ updPc \in {"idle", "write"}
    /\ updNew \in Config
    /\ updOld \in BOOLEAN
    /\ reqs \in 0..MaxRequests

(* TypeOK split into the status, the flag and the two groups of variables. *)
LEMMA TypeOKParts ==
    TypeOK <=> /\ status \in DSStatus /\ enable \in BOOLEAN
               /\ ThreadsOK /\ ADTypeOK
  BY DEF TypeOK, MonitorTypeOK, ThreadsOK, ADTypeOK

(* Steps that leave the monitor's variables alone keep them well typed.   *)
LEMMA ThreadsFrame ==
    ASSUME ThreadsOK, UNCHANGED monVars
    PROVE  ThreadsOK'
  BY Zenon DEF ThreadsOK, monVars

(* Steps that leave the variables of ActiveDirectory alone keep them      *)
(* well typed.                                                            *)
LEMMA ADFrame ==
    ASSUME ADTypeOK, UNCHANGED adVars
    PROVE  ADTypeOK'
  BY Zenon DEF ADTypeOK, adVars

(* A writer's step keeps the thread variables it touches well typed: a   *)
(* reader in open() or read() gets the line, a parsing one loses it.      *)
LEMMA WriteLineType ==
    ASSUME ThreadsOK, NEW u \in ThreadIds, NEW m \in Msgs, WriteLine(u, m)
    PROVE  /\ thrBatch' \in [ThreadIds -> Seq(Msgs)]
           /\ thrPc' \in [ThreadIds -> ThreadPcs]
  <1>1. CASE thrPc[u] \in {"open", "reading"}
    <2>1. AppendLine(thrBatch[u], m) \in Seq(Msgs)
      BY AppendLineType DEF ThreadsOK
    <2>2. QED
      BY <1>1, <2>1 DEF WriteLine, ThreadsOK, ThreadPcs
  <1>2. CASE thrPc[u] \notin {"open", "reading"}
    BY <1>2 DEF WriteLine, ThreadsOK
  <1>3. QED
    BY <1>1, <1>2

(* admonitor.start creates a well-typed thread, or changes nothing.       *)
LEMMA AdmonitorStartType ==
    ASSUME ThreadsOK, AdmonitorStart
    PROVE  ThreadsOK'
  <1>1. CASE enable /\ ~admonInit
    <2>1. PICK s \in FreeSlots :
            /\ thrPc' = [thrPc EXCEPT ![s] = "open"]
            /\ thrState' = [thrState EXCEPT ![s] = "FAULTED"]
            /\ thrFinished' = [thrFinished EXCEPT ![s] = FALSE]
            /\ thrBatch' = [thrBatch EXCEPT ![s] = <<>>]
            /\ admonCur' = s
            /\ admonInit' = TRUE
            /\ UNCHANGED <<alert, thrNew, wbSent>>
      BY <1>1 DEF AdmonitorStart
    <2>2. s \in ThreadIds /\ <<>> \in Seq(Msgs)
      BY DEF FreeSlots
    <2>3. QED
      BY <2>1, <2>2 DEF ThreadsOK, ThreadPcs, WinbindStatus
  <1>2. CASE ~(enable /\ ~admonInit)
    BY <1>2, ThreadsFrame DEF AdmonitorStart
  <1>3. QED
    BY <1>1, <1>2

(* cancel() setting finished keeps the thread variables well typed.       *)
LEMMA CancelBeginType ==
    ASSUME ThreadsOK, CancelBegin
    PROVE  ThreadsOK'
  BY DEF CancelBegin, ThreadsOK

(* The sentinel write and the reset of the registration keep them typed.  *)
LEMMA CancelWriteType ==
    ASSUME ThreadsOK, CancelWrite
    PROVE  ThreadsOK'
  <1>1. PICK u \in Readers : WriteLine(u, Sentinel)
    BY DEF CancelWrite
  <1>2. Sentinel \in Msgs /\ u \in ThreadIds
    BY DEF Msgs, Readers
  <1>3. QED
    BY <1>1, <1>2, WriteLineType DEF CancelWrite, ThreadsOK

(* A winbindd status line, within the message bound, keeps them typed.    *)
LEMMA WinbindWriteType ==
    ASSUME ThreadsOK, WinbindWrite
    PROVE  ThreadsOK'
  <1>1. PICK u \in Readers, m \in StatusMsgs : WriteLine(u, m)
    BY DEF WinbindWrite
  <1>2. m \in Msgs /\ u \in ThreadIds
    BY DEF Msgs, Readers
  <1>3. /\ thrBatch' \in [ThreadIds -> Seq(Msgs)]
        /\ thrPc' \in [ThreadIds -> ThreadPcs]
    BY <1>1, <1>2, WriteLineType
  <1>4. wbSent' \in 0..MaxMsgs
    BY MonitorAssumption DEF WinbindWrite, ThreadsOK
  <1>5. QED
    BY <1>3, <1>4, Zenon DEF WinbindWrite, ThreadsOK

(* A step of a monitor thread; parse_msg writes a winbind status.         *)
LEMMA ThreadStepType ==
    ASSUME ThreadsOK, status \in DSStatus, NEW t \in ThreadIds, ThreadStep(t)
    PROVE  ThreadsOK' /\ status' \in DSStatus /\ enable' = enable
  <1>1. CASE ReadEOF(t)
    <2>1. thrPc' \in [ThreadIds -> ThreadPcs]
      BY <1>1 DEF ReadEOF, ThreadPcs, ThreadsOK
    <2>2. QED
      BY <1>1, <2>1, Zenon DEF ReadEOF, ThreadsOK
  <1>2. CASE ParseMsg(t)
    <2> DEFINE m == Head(thrBatch[t])
    <2>1. Tail(thrBatch[t]) \in Seq(Msgs) /\ m \in Msgs
      BY <1>2 DEF ParseMsg, ThreadsOK
    <2>2. m.kind = "json" => m.st \in WinbindStatus
      BY <2>1 DEF Msgs, StatusMsgs, Sentinel, Malformed
    <2>3. thrBatch' \in [ThreadIds -> Seq(Msgs)]
      BY <1>2, <2>1 DEF ParseMsg, ThreadsOK
    <2>4. /\ thrNew' \in [ThreadIds -> WinbindStatus]
          /\ thrPc' \in [ThreadIds -> ThreadPcs]
      <3>1. CASE m.kind = "json" /\ enable /\ m.dom = "ours" /\ m.st # thrState[t]
        BY <1>2, <2>2, <3>1 DEF ParseMsg, ThreadsOK, ThreadPcs
      <3>2. CASE ~(m.kind = "json" /\ enable /\ m.dom = "ours" /\ m.st # thrState[t])
        BY <1>2, <3>2 DEF ParseMsg, ThreadsOK
      <3>3. QED
        BY <3>1, <3>2
    <2>5. QED
      BY <1>2, <2>3, <2>4, Zenon DEF ParseMsg, ThreadsOK
  <1>3. CASE ParseWrite(t)
    <2>1. thrNew[t] \in WinbindStatus
      BY DEF ThreadsOK
    <2>2. /\ thrState' \in [ThreadIds -> WinbindStatus]
          /\ thrPc' \in [ThreadIds -> ThreadPcs]
          /\ alert' \in BOOLEAN
          /\ status' \in DSStatus
      BY <1>3, <2>1 DEF ParseWrite, ThreadsOK, ThreadPcs, DSStatus,
         WinbindStatus
    <2>3. QED
      BY <1>3, <2>2, Zenon DEF ParseWrite, ThreadsOK
  <1>4. CASE ReadLoop(t)
    <2>1. thrPc' \in [ThreadIds -> ThreadPcs]
      BY <1>4 DEF ReadLoop, ThreadPcs, ThreadsOK
    <2>2. QED
      BY <1>4, <2>1, Zenon DEF ReadLoop, ThreadsOK
  <1>5. QED
    BY <1>1, <1>2, <1>3, <1>4 DEF ThreadStep

-----------------------------------------------------------------------------
(* Type correctness.                                                       *)

(* No thread is running at boot: the thread slots start well typed.       *)
LEMMA MonitorInitType == MonitorInit => ThreadsOK
  <1> SUFFICES ASSUME MonitorInit PROVE ThreadsOK
    OBVIOUS
  <1>1. thrBatch \in [ThreadIds -> Seq(Msgs)]
    BY DEF MonitorInit
  <1>2. wbSent \in 0..MaxMsgs
    BY MonitorAssumption DEF MonitorInit
  <1>3. /\ thrPc \in [ThreadIds -> ThreadPcs]
        /\ thrState \in [ThreadIds -> WinbindStatus]
        /\ thrNew \in [ThreadIds -> WinbindStatus]
        /\ thrFinished \in [ThreadIds -> BOOLEAN]
    BY DEF MonitorInit, ThreadPcs, WinbindStatus
  <1>4. QED
    BY <1>1, <1>2, <1>3 DEF MonitorInit, ThreadsOK

(* The boot state (tdb defaults, no thread) is well typed.                 *)
THEOREM InitTypeOK == Init => TypeOK
  <1> SUFFICES ASSUME Init PROVE TypeOK
    OBVIOUS
  <1>1. ThreadsOK
    BY MonitorInitType DEF Init
  <1>2. reqs \in 0..MaxRequests
    BY RequestAssumption DEF Init
  <1>3. updNew \in Config
    BY DEF Init, Config
  <1>4. ADTypeOK
    BY <1>2, <1>3 DEF Init, ADTypeOK, NetErr, StartPcs, StopPcs, LeavePcs,
       HcPcs
  <1>5. QED
    BY <1>1, <1>4, TypeOKParts DEF Init, DSStatus

(* Every step of a job, leave, update, the health check, winbindd or a    *)
(* monitor thread keeps TypeOK: one case per action of Next.              *)
LEMMA NextTypeOK == TypeOK /\ [Next]_vars => TypeOK'
  <1> SUFFICES ASSUME TypeOK, [Next]_vars
               PROVE  /\ status' \in DSStatus /\ enable' \in BOOLEAN
                      /\ ThreadsOK' /\ ADTypeOK'
    BY DEF TypeOK, MonitorTypeOK, ThreadsOK, ADTypeOK
  <1>0. /\ status \in DSStatus /\ enable \in BOOLEAN
        /\ ThreadsOK /\ ADTypeOK
    BY TypeOKParts
  <1> USE <1>0, RequestAssumption DEF ADTypeOK, DSStatus
  <1>1. CASE StartStep
    <2> USE DEF StartPcs, NetErr
    <2>1. CASE StartAcquire
      BY <2>1, ThreadsFrame DEF StartAcquire
    <2>2. CASE StartEnable
      BY <2>2, ThreadsFrame DEF StartEnable
    <2>3. CASE StartPrepare
      BY <2>3, ThreadsFrame DEF StartPrepare, StartRaise
    <2>4. CASE StartTestjoin
      BY <2>4, ThreadsFrame DEF StartTestjoin
    <2>5. CASE StartJoin
      BY <2>5, ThreadsFrame DEF StartJoin, StartRaise
    <2>6. CASE StartKeytab
      <3>1. hasPw' \in BOOLEAN /\ hasPrinc' \in BOOLEAN
        BY <2>6 DEF StartKeytab, StartRaise
      <3>2. QED
        BY <2>6, <3>1, ThreadsFrame DEF StartKeytab, StartRaise
    <2>7. CASE StartIdmap
      BY <2>7, ThreadsFrame DEF StartIdmap, StartRaise
    <2>8. CASE StartFinish
      BY <2>8, ThreadsFrame, AdmonitorStartType DEF StartFinish, StartRaise
    <2>9. QED
      BY <1>1, <2>1, <2>2, <2>3, <2>4, <2>5, <2>6, <2>7, <2>8 DEF StartStep
  <1>2. CASE StopStep
    <2> USE DEF StopPcs
    <2>1. CASE StopAcquire
      BY <2>1, ThreadsFrame DEF StopAcquire
    <2>2. CASE StopLeaving
      BY <2>2, ThreadsFrame DEF StopLeaving
    <2>3. CASE StopCancel
      BY <2>3, ThreadsFrame, CancelBeginType DEF StopCancel
    <2>4. CASE StopCancelWrite
      <3>1. ThreadsOK'
        BY <2>4, CancelWriteType DEF StopCancelWrite
      <3>2. status' \in DSStatus /\ enable' \in BOOLEAN /\ ADTypeOK'
        BY <2>4 DEF StopCancelWrite, ADTypeOK
      <3>3. QED
        BY <3>1, <3>2
    <2>5. CASE StopDisable
      BY <2>5, ThreadsFrame DEF StopDisable, StopRaise
    <2>6. CASE StopFinal
      BY <2>6, ThreadsFrame DEF StopFinal
    <2>7. QED
      BY <1>2, <2>1, <2>2, <2>3, <2>4, <2>5, <2>6 DEF StopStep
  <1>3. CASE LeaveBegin
    BY <1>3, ThreadsFrame DEF LeaveBegin, LeavePcs
  <1>4. CASE LeaveStep
    <2>1. CASE LeaveNet
      <3>1. joined' \in BOOLEAN
        BY <2>1 DEF LeaveNet
      <3>2. QED
        BY <2>1, <3>1, ThreadsFrame DEF LeaveNet, LeavePcs
    <2>2. CASE LeaveCleanup
      BY <2>2, ThreadsFrame DEF LeaveCleanup, LeavePcs
    <2>3. CASE LeaveDisable
      BY <2>3, ThreadsFrame DEF LeaveDisable, LeavePcs
    <2>4. QED
      BY <1>4, <2>1, <2>2, <2>3 DEF LeaveStep
  <1>5. CASE HealthBegin
    <2>1. enable' \in BOOLEAN /\ hcPc' \in HcPcs
      BY <1>5 DEF HealthBegin, HcPcs
    <2>2. UNCHANGED <<status, monVars, hasPw, hasPrinc, joined, ready, lock,
                      startPc, startRet, stopPc, leavePc, updPc, updNew,
                      updOld, reqs>>
      BY <1>5 DEF HealthBegin
    <2>3. QED
      BY <2>1, <2>2, ThreadsFrame
  <1>6. CASE HealthWrite
    BY <1>6, ThreadsFrame DEF HealthWrite, HcPcs
  <1>7. CASE UpdateRead
    <2>1. PICK d \in UpdateInputs :
            LET new == [enable |-> d.enable, pw |-> Merge(hasPw, d.pw),
                        princ |-> Merge(hasPrinc, d.princ)]
            IN  /\ updNew' = new
                /\ updOld' = enable
                /\ updPc' = "write"
      BY <1>7 DEF UpdateRead
    <2>2. updNew' \in Config
      BY <2>1 DEF UpdateInputs, Merge, Config
    <2>3. QED
      BY <1>7, <2>1, <2>2, ThreadsFrame DEF UpdateRead
  <1>8. CASE UpdateWrite
    BY <1>8, ThreadsFrame DEF UpdateWrite, Config, StartPcs, StopPcs
  <1>9. CASE SystemReady
    BY <1>9, AdmonitorStartType DEF SystemReady
  <1>10. CASE WinbindWrite /\ UNCHANGED adVars
    BY <1>10, WinbindWriteType, ADFrame DEF WinbindWrite
  <1>11. CASE \E t \in ThreadIds : MonitorStep(t)
    BY <1>11, ThreadStepType, ADFrame DEF MonitorStep
  <1>12. CASE UNCHANGED vars
    BY <1>12, ThreadsFrame, ADFrame DEF vars
  <1>13. QED
    BY <1>1, <1>2, <1>3, <1>4, <1>5, <1>6, <1>7, <1>8, <1>9, <1>10, <1>11,
       <1>12 DEF Next

(* Every reachable state of ActiveDirectory is well typed: TypeOK holds   *)
(* across all interleavings of the jobs, leave, update, the health check  *)
(* and the monitor threads.                                               *)
THEOREM TypeCorrect == Spec => []TypeOK
  BY InitTypeOK, NextTypeOK, PTL DEF Spec

-----------------------------------------------------------------------------
(* A single listener on the winbind FIFO.                                  *)

(* The conjuncts of MonitorInv besides TypeOK and SingleActiveMonitor.    *)
RegFlag == admonInit <=> admonCur # 0
CancelMarked == stopPc = "cancelwrite" => admonCur # 0 /\ thrFinished[admonCur]

(* No step brings a thread that is not running back to life, except      *)
(* admonitor.start creating one.                                           *)
NoRevive ==
    \A t \in ThreadIds :
        thrPc'[t] \notin {"unused", "exited"} => thrPc[t] \notin {"unused", "exited"}

(* A step that revives no thread, keeps finished and the registration,   *)
(* and does not enter the sentinel write keeps the three conjuncts.       *)
LEMMA MonitorFrame ==
    ASSUME RegFlag, SingleActiveMonitor, CancelMarked, NoRevive,
           thrFinished' = thrFinished, admonCur' = admonCur,
           admonInit' = admonInit, stopPc' = stopPc \/ stopPc' # "cancelwrite"
    PROVE  RegFlag' /\ SingleActiveMonitor' /\ CancelMarked'
  BY DEF RegFlag, SingleActiveMonitor, CancelMarked, NoRevive, ActiveThreads,
         LiveThreads

(* A step that leaves the monitor alone revives no thread.                *)
LEMMA UnchangedNoRevive ==
    ASSUME UNCHANGED monVars
    PROVE  NoRevive /\ thrFinished' = thrFinished /\ admonCur' = admonCur
           /\ admonInit' = admonInit
  BY DEF NoRevive, monVars

(* admonitor.start: without a registered thread no thread is active, so   *)
(* the new one is the only active thread and the registered one.          *)
LEMMA AdmonitorStartInv ==
    ASSUME TypeOK, RegFlag, SingleActiveMonitor, CancelMarked, AdmonitorStart,
           stopPc' = stopPc
    PROVE  RegFlag' /\ SingleActiveMonitor' /\ CancelMarked'
  <1>1. CASE enable /\ ~admonInit
    <2>1. PICK s \in FreeSlots :
            /\ thrPc' = [thrPc EXCEPT ![s] = "open"]
            /\ thrFinished' = [thrFinished EXCEPT ![s] = FALSE]
            /\ admonCur' = s
            /\ admonInit' = TRUE
      BY <1>1 DEF AdmonitorStart
    <2>2. admonCur = 0
      BY <1>1 DEF RegFlag
    <2>3. ActiveThreads = {}
      BY <2>2 DEF SingleActiveMonitor, TypeOK, MonitorTypeOK, ActiveThreads,
         LiveThreads
    <2>4. s \in ThreadIds /\ s # 0
      BY DEF FreeSlots, ThreadIds
    <2>5. SingleActiveMonitor'
      BY <2>1, <2>3, <2>4 DEF SingleActiveMonitor, ActiveThreads, LiveThreads,
         TypeOK, MonitorTypeOK
    <2>6. stopPc # "cancelwrite"
      BY <2>2 DEF CancelMarked
    <2>7. QED
      BY <2>1, <2>4, <2>5, <2>6 DEF RegFlag, CancelMarked
  <1>2. CASE ~(enable /\ ~admonInit)
    BY <1>2, UnchangedNoRevive, MonitorFrame DEF AdmonitorStart
  <1>3. QED
    BY <1>1, <1>2

(* A writer reaching a reader (winbindd or the sentinel) revives nothing. *)
LEMMA WriteLineNoRevive ==
    ASSUME TypeOK, NEW u \in Readers, NEW m, WriteLine(u, m)
    PROVE  NoRevive
  <1>1. CASE thrPc[u] \in {"open", "reading"}
    BY <1>1 DEF WriteLine, NoRevive, TypeOK, MonitorTypeOK
  <1>2. CASE thrPc[u] \notin {"open", "reading"}
    BY <1>2 DEF WriteLine, NoRevive
  <1>3. QED
    BY <1>1, <1>2

(* The monitor threads' own steps revive nothing and touch neither the    *)
(* registration nor finished.                                             *)
LEMMA ThreadStepInv ==
    ASSUME TypeOK, NEW t \in ThreadIds, ThreadStep(t)
    PROVE  /\ NoRevive /\ thrFinished' = thrFinished
           /\ admonCur' = admonCur /\ admonInit' = admonInit
  <1> USE DEF NoRevive, TypeOK, MonitorTypeOK
  <1>1. CASE ReadEOF(t)
    BY <1>1 DEF ReadEOF
  <1>2. CASE ParseMsg(t)
    BY <1>2 DEF ParseMsg
  <1>3. CASE ParseWrite(t)
    BY <1>3 DEF ParseWrite
  <1>4. CASE ReadLoop(t)
    BY <1>4 DEF ReadLoop
  <1>5. QED
    BY <1>1, <1>2, <1>3, <1>4 DEF ThreadStep

(* stop's cancel() marks the registered thread finished before it writes. *)
LEMMA StopCancelInv ==
    ASSUME TypeOK, RegFlag, SingleActiveMonitor, CancelMarked, StopCancel
    PROVE  RegFlag' /\ SingleActiveMonitor' /\ CancelMarked'
  <1>1. CASE admonCur # 0
    <2>1. /\ thrFinished' = [thrFinished EXCEPT ![admonCur] = TRUE]
          /\ thrPc' = thrPc /\ admonCur' = admonCur /\ admonInit' = admonInit
          /\ stopPc' = "cancelwrite"
      BY <1>1 DEF StopCancel, CancelBegin
    <2>2. admonCur \in ThreadIds
      BY <1>1 DEF TypeOK, MonitorTypeOK
    <2>3. thrFinished'[admonCur] = TRUE
      BY <2>1, <2>2 DEF TypeOK, MonitorTypeOK
    <2>4. SingleActiveMonitor'
      BY <2>1, <2>2 DEF SingleActiveMonitor, ActiveThreads, LiveThreads,
         TypeOK, MonitorTypeOK
    <2>5. QED
      BY <1>1, <2>1, <2>3, <2>4 DEF RegFlag, CancelMarked
  <1>2. CASE admonCur = 0
    BY <1>2, UnchangedNoRevive, MonitorFrame DEF StopCancel
  <1>3. QED
    BY <1>1, <1>2

(* The sentinel write unregisters a thread that is already finished, and  *)
(* no other thread is active: none is left.                                *)
LEMMA StopCancelWriteInv ==
    ASSUME TypeOK, RegFlag, SingleActiveMonitor, CancelMarked, StopCancelWrite
    PROVE  RegFlag' /\ SingleActiveMonitor' /\ CancelMarked'
  <1>1. PICK u \in Readers : WriteLine(u, Sentinel)
    BY DEF StopCancelWrite, CancelWrite
  <1>2. NoRevive
    BY <1>1, WriteLineNoRevive
  <1>3. /\ thrFinished' = thrFinished /\ admonCur' = 0 /\ admonInit' = FALSE
        /\ stopPc' = "disable" /\ stopPc = "cancelwrite"
    BY DEF StopCancelWrite, CancelWrite
  <1>4. ActiveThreads = {}
    BY <1>3 DEF CancelMarked, SingleActiveMonitor, ActiveThreads
  <1>5. ActiveThreads' = {}
    BY <1>2, <1>3, <1>4 DEF NoRevive, ActiveThreads, LiveThreads
  <1>6. QED
    BY <1>3, <1>5 DEF RegFlag, SingleActiveMonitor, CancelMarked

(* At boot no thread runs or is registered and no stop job is cancelling. *)
THEOREM InitMonitorInv == Init => MonitorInv
  <1> SUFFICES ASSUME Init PROVE MonitorInv
    OBVIOUS
  <1>1. TypeOK
    BY InitTypeOK
  <1>2. ActiveThreads = {}
    BY DEF Init, MonitorInit, ActiveThreads, LiveThreads
  <1>3. QED
    BY <1>1, <1>2 DEF Init, MonitorInit, MonitorInv, SingleActiveMonitor

(* MonitorInv is inductive: one case for the steps that leave the monitor *)
(* alone, one per step that starts, cancels or runs a thread.             *)
LEMMA NextMonitorInv == MonitorInv /\ [Next]_vars => MonitorInv'
  <1> SUFFICES ASSUME MonitorInv, [Next]_vars
               PROVE  TypeOK' /\ RegFlag' /\ SingleActiveMonitor' /\ CancelMarked'
    BY DEF MonitorInv, RegFlag, CancelMarked
  <1>0. TypeOK /\ RegFlag /\ SingleActiveMonitor /\ CancelMarked
    BY DEF MonitorInv, RegFlag, CancelMarked
  <1>1. TypeOK'
    BY <1>0, NextTypeOK
  <1> USE <1>0, <1>1
  (* The steps that leave the monitor alone.                               *)
  <1>2. CASE \/ StartAcquire \/ StartEnable \/ StartPrepare \/ StartTestjoin
             \/ StartJoin \/ StartKeytab \/ StartIdmap
             \/ StopAcquire \/ StopLeaving \/ StopDisable \/ StopFinal
             \/ LeaveBegin \/ LeaveStep \/ HealthBegin \/ HealthWrite
             \/ UpdateRead \/ UpdateWrite
    <2>1. UNCHANGED monVars /\ (stopPc' = stopPc \/ stopPc' # "cancelwrite")
      BY <1>2 DEF StartAcquire, StartEnable, StartPrepare, StartTestjoin,
         StartJoin, StartKeytab, StartIdmap, StartRaise, StopAcquire,
         StopLeaving, StopDisable, StopRaise, StopFinal, LeaveBegin, LeaveStep,
         LeaveNet,
         LeaveCleanup, LeaveDisable, HealthBegin, HealthWrite, UpdateRead,
         UpdateWrite
    <2>2. QED
      BY <2>1, UnchangedNoRevive, MonitorFrame
  <1>3. CASE StartFinish
    <2>1. stopPc' = stopPc
      BY <1>3 DEF StartFinish, StartRaise
    <2>2. CASE AdmonitorStart
      BY <2>1, <2>2, AdmonitorStartInv
    <2>3. CASE UNCHANGED monVars
      BY <2>1, <2>3, UnchangedNoRevive, MonitorFrame
    <2>4. QED
      BY <1>3, <2>2, <2>3 DEF StartFinish
  <1>4. CASE SystemReady
    BY <1>4, AdmonitorStartInv DEF SystemReady
  <1>5. CASE StopCancel
    BY <1>5, StopCancelInv
  <1>6. CASE StopCancelWrite
    BY <1>6, StopCancelWriteInv
  <1>7. CASE WinbindWrite /\ UNCHANGED adVars
    <2>1. PICK u \in Readers, m \in StatusMsgs : WriteLine(u, m)
      BY <1>7 DEF WinbindWrite
    <2>2. NoRevive
      BY <2>1, WriteLineNoRevive
    <2>3. QED
      BY <1>7, <2>2, MonitorFrame DEF WinbindWrite, adVars
  <1>8. CASE \E t \in ThreadIds : MonitorStep(t)
    <2>1. PICK t \in ThreadIds : ThreadStep(t) /\ UNCHANGED adVars
      BY <1>8 DEF MonitorStep
    <2>2. QED
      BY <2>1, ThreadStepInv, MonitorFrame DEF adVars
  <1>9. CASE UNCHANGED vars
    BY <1>9, UnchangedNoRevive, MonitorFrame DEF vars, adVars
  <1>10. QED
    BY <1>2, <1>3, <1>4, <1>5, <1>6, <1>7, <1>8, <1>9
       DEF Next, StartStep, StopStep

(* MonitorInv holds in every reachable state.                              *)
THEOREM MonitorInvariant == Spec => []MonitorInv
  BY InitMonitorInv, NextMonitorInv, PTL DEF Spec

(* At most one WBStatusThread keeps reading the winbind FIFO and it is    *)
(* the thread admonitor registered, whatever the interleaving of start,   *)
(* stop, setup and the threads (ADMonitorService.start/stop,              *)
(* WBStatusThread.cancel), for any number of thread slots and messages.   *)
THEOREM MonitorSingle == Spec => []SingleActiveMonitor
  <1>1. MonitorInv => SingleActiveMonitor
    BY DEF MonitorInv
  <1>2. QED
    BY MonitorInvariant, <1>1, PTL

-----------------------------------------------------------------------------
(* Refinement: the lock AD_start_stop implements the abstract job lock    *)
(* JobLock, with holder lock and section InSection (instance JL of        *)
(* ActiveDirectory).                                                       *)

(* The lock names the job inside its section: start holds it exactly     *)
(* while its job is past the queue, and stop likewise.                    *)
LockHolder ==
    /\ (lock = "start") = (startPc \notin {"idle", "queued"})
    /\ (lock = "stop") = (stopPc \notin {"idle", "queued"})

(* Every step keeps LockHolder: a job enters its section only by taking  *)
(* the free lock (the other job is then outside its own), an EBUSY start *)
(* goes back to idle without it, and every end frees it.                 *)
LEMMA NextLockHolder ==
    ASSUME TypeOK, LockHolder, [Next]_vars
    PROVE  LockHolder'
  <1>0. lock \in {"none", "start", "stop"}
    BY DEF TypeOK
  <1>1. CASE StartAcquire
    BY <1>0, <1>1 DEF StartAcquire, LockHolder
  <1>2. CASE StartEnable \/ StartTestjoin
    BY <1>2 DEF StartEnable, StartTestjoin, LockHolder
  <1>3. CASE StartPrepare \/ StartJoin \/ StartKeytab \/ StartIdmap \/ StartFinish
    BY <1>0, <1>3 DEF StartPrepare, StartJoin, StartKeytab, StartIdmap,
                      StartFinish, StartRaise, LockHolder
  <1>4. CASE StopAcquire
    BY <1>0, <1>4 DEF StopAcquire, LockHolder
  <1>5. CASE StopLeaving \/ StopCancel \/ StopCancelWrite
    BY <1>5 DEF StopLeaving, StopCancel, StopCancelWrite, LockHolder
  <1>6. CASE StopDisable \/ StopFinal
    BY <1>0, <1>6 DEF StopDisable, StopRaise, StopFinal, LockHolder
  <1>7. CASE LeaveBegin \/ LeaveStep \/ HealthBegin \/ HealthWrite \/ UpdateRead
             \/ SystemReady
    BY <1>7 DEF LeaveBegin, LeaveStep, LeaveNet, LeaveCleanup, LeaveDisable,
                HealthBegin, HealthWrite, UpdateRead, SystemReady, LockHolder
  (* update queues an idle job: it stays outside the section.              *)
  <1>8. CASE UpdateWrite
    BY <1>8 DEF UpdateWrite, LockHolder
  <1>9. CASE (WinbindWrite /\ UNCHANGED adVars) \/ \E t \in ThreadIds : MonitorStep(t)
    BY <1>9 DEF MonitorStep, adVars, LockHolder
  <1>10. CASE UNCHANGED vars
    BY <1>10 DEF vars, adVars, LockHolder
  <1>11. QED
    BY <1>1, <1>2, <1>3, <1>4, <1>5, <1>6, <1>7, <1>8, <1>9, <1>10
       DEF Next, StartStep, StopStep

(* LockHolder holds in every reachable state.                              *)
THEOREM LockHolderInvariant == Spec => []LockHolder
  <1>1. Init => LockHolder
    BY DEF Init, LockHolder
  <1>2. TypeOK /\ LockHolder /\ [Next]_vars => LockHolder'
    BY NextLockHolder
  <1>3. QED
    BY <1>1, <1>2, TypeCorrect, PTL DEF Spec

(* Under TypeOK and LockHolder the section is exactly the holder, or     *)
(* empty.                                                                  *)
LEMMA SectionIsHolder ==
    ASSUME TypeOK, LockHolder
    PROVE  InSection = IF lock = "none" THEN {} ELSE {lock}
  BY DEF TypeOK, LockHolder, InSection

(* The lock moves only from free to a job or from a job to free.          *)
LEMMA LockMoves ==
    ASSUME [Next]_vars
    PROVE  lock' = lock \/ lock = "none" \/ lock' = "none"
  <1>1. CASE StartAcquire \/ StopAcquire
    BY <1>1 DEF StartAcquire, StopAcquire
  <1>2. CASE \/ StartPrepare \/ StartJoin \/ StartKeytab \/ StartIdmap
             \/ StartFinish \/ StopDisable \/ StopFinal
    BY <1>2 DEF StartPrepare, StartJoin, StartKeytab, StartIdmap, StartFinish,
                StartRaise, StopDisable, StopRaise, StopFinal
  <1>3. CASE \/ StartEnable \/ StartTestjoin
             \/ StopLeaving \/ StopCancel \/ StopCancelWrite
    BY <1>3 DEF StartEnable, StartTestjoin, StopLeaving, StopCancel,
                StopCancelWrite
  <1>4. CASE \/ LeaveBegin \/ LeaveStep \/ HealthBegin \/ HealthWrite
             \/ UpdateRead \/ UpdateWrite \/ SystemReady
             \/ (WinbindWrite /\ UNCHANGED adVars) \/ \E t \in ThreadIds : MonitorStep(t)
    BY <1>4 DEF LeaveBegin, LeaveStep, LeaveNet, LeaveCleanup, LeaveDisable,
                HealthBegin, HealthWrite, UpdateRead, UpdateWrite, SystemReady,
                MonitorStep, adVars
  <1>5. CASE UNCHANGED vars
    BY <1>5 DEF vars, adVars
  <1>6. QED
    BY <1>1, <1>2, <1>3, <1>4, <1>5 DEF Next, StartStep, StopStep

(* spec 5: start and stop never interleave.  Every step of the composed  *)
(* AD and monitor model is an Acquire of the free lock AD_start_stop by   *)
(* the start or the stop job, a Release by the job holding it as it ends *)
(* (StartFinish, a raise, StopFinal), or leaves the lock and the jobs'   *)
(* sections alone, for every number of threads, messages and requests.   *)
THEOREM LockRefinement == Spec => JobLockRefined
  <1>1. Init => JL!Init
    BY DEF Init, JL!Init, InSection
  <1>2. TypeOK /\ LockHolder /\ TypeOK' /\ LockHolder' /\ [Next]_vars
          => [JL!Next]_JL!vars
    <2> SUFFICES ASSUME TypeOK, LockHolder, TypeOK', LockHolder', [Next]_vars
                 PROVE  [JL!Next]_JL!vars
      OBVIOUS
    <2>1. InSection = IF lock = "none" THEN {} ELSE {lock}
      BY SectionIsHolder
    <2>2. InSection' = IF lock' = "none" THEN {} ELSE {lock'}
      BY DEF TypeOK, LockHolder, InSection
    <2>3. lock \in {"none", "start", "stop"} /\ lock' \in {"none", "start", "stop"}
      BY DEF TypeOK
    <2>4. CASE lock' = lock
      BY <2>1, <2>2, <2>4 DEF JL!vars
    <2>5. CASE lock' # lock /\ lock = "none"
      <3>1. JL!Acquire(lock')
        BY <2>1, <2>2, <2>3, <2>5 DEF JL!Acquire
      <3>2. QED
        BY <2>3, <2>5, <3>1 DEF JL!Next
    <2>6. CASE lock' # lock /\ lock' = "none"
      <3>1. JL!Release(lock)
        BY <2>1, <2>2, <2>3, <2>6 DEF JL!Release
      <3>2. QED
        BY <2>3, <2>6, <3>1 DEF JL!Next
    <2>7. QED
      BY <2>4, <2>5, <2>6, LockMoves
  <1>3. QED
    BY <1>1, <1>2, TypeCorrect, LockHolderInvariant, PTL
       DEF Spec, JobLockRefined, JL!Spec
=============================================================================
