------------------------------ MODULE ADMonitor ------------------------------
(***************************************************************************)
(* The Active Directory health monitor of activedirectory.py:             *)
(* WBStatusThread (a daemon thread that blocks in open() on the winbind    *)
(* status FIFO, reads everything written until the writers close, and     *)
(* parses it line by line) and ADMonitorService (admonitor.start/stop,    *)
(* which create the thread and cancel it by setting `finished` and        *)
(* writing the sentinel str(DSStatus.LEAVING.value) into the FIFO).       *)
(*                                                                         *)
(* The persisted directory-service status `status` and the configuration  *)
(* flag `enable` are declared here because the thread reads and writes    *)
(* them; the module ActiveDirectory adds the other writers.               *)
(***************************************************************************)
EXTENDS Naturals, Sequences

CONSTANTS
    MaxThreads,   \* thread slots; a slot is reused once its thread exited
    MaxMsgs       \* number of status messages the winbind daemon writes

ASSUME MonitorAssumption ==
    /\ MaxThreads \in Nat \ {0}
    /\ MaxMsgs \in Nat

(* DSStatus of plugins/directoryservices (not part of this repository).   *)
DSStatus == {"DISABLED", "FAULTED", "LEAVING", "JOINING", "HEALTHY"}

(* What winbindd reports about a domain's connection.                      *)
WinbindStatus == {"HEALTHY", "FAULTED"}

(* A line of the FIFO: a JSON status message of winbindd for our domain   *)
(* (the configured workgroup) or another one, the cancel sentinel, or a   *)
(* line that is not JSON.                                                  *)
StatusMsgs == [kind : {"json"}, dom : {"ours", "other"}, st : WinbindStatus]
Sentinel == [kind |-> "sentinel"]
Malformed == [kind |-> "malformed"]
Msgs == StatusMsgs \cup {Sentinel, Malformed}

ThreadIds == 1..MaxThreads

(* Program counter of a WBStatusThread.                                    *)
(*  unused/exited: no thread; open: blocked in open() for reading;        *)
(*  reading: a writer opened the FIFO, read() has not seen EOF yet;       *)
(*  parse: working through the lines read; write: parse_msg decided to    *)
(*  set a new state and has not yet done so.                               *)
ThreadPcs == {"unused", "open", "reading", "parse", "write", "exited"}

VARIABLES
    status,       \* directoryservices state of 'activedirectory'
    enable,       \* activedirectory.config()['enable']
    alert,        \* ActiveDirectoryDomainOffline oneshot alert is raised
    thrPc,        \* thread slot -> program counter
    thrState,     \* thread slot -> WBStatusThread.state
    thrFinished,  \* thread slot -> WBStatusThread.finished is set
    thrBatch,     \* thread slot -> lines read and not yet parsed
    thrNew,       \* thread slot -> new_state decided by parse_msg
    admonCur,     \* ADMonitorService.thread (0 is None)
    admonInit,    \* ADMonitorService.initialized
    wbSent        \* messages written by winbindd so far

monVars == <<alert, thrPc, thrState, thrFinished, thrBatch, thrNew,
             admonCur, admonInit, wbSent>>

MonitorTypeOK ==
    /\ status \in DSStatus
    /\ enable \in BOOLEAN
    /\ alert \in BOOLEAN
    /\ thrPc \in [ThreadIds -> ThreadPcs]
    /\ thrState \in [ThreadIds -> WinbindStatus]
    /\ thrFinished \in [ThreadIds -> BOOLEAN]
    /\ thrBatch \in [ThreadIds -> Seq(Msgs)]
    /\ thrNew \in [ThreadIds -> WinbindStatus]
    /\ admonCur \in ThreadIds \cup {0}
    /\ admonInit \in BOOLEAN
    /\ wbSent \in 0..MaxMsgs

MonitorInit ==
    /\ alert = FALSE
    /\ thrPc = [t \in ThreadIds |-> "unused"]
    /\ thrState = [t \in ThreadIds |-> "FAULTED"]
    /\ thrFinished = [t \in ThreadIds |-> FALSE]
    /\ thrBatch = [t \in ThreadIds |-> <<>>]
    /\ thrNew = [t \in ThreadIds |-> "FAULTED"]
    /\ admonCur = 0
    /\ admonInit = FALSE
    /\ wbSent = 0

-----------------------------------------------------------------------------
(* Threads holding the FIFO open for reading: blocked in open(), inside  *)
(* read(), or parsing what read() returned, still inside `with open`.     *)
Readers == {t \in ThreadIds : thrPc[t] \in {"open", "reading", "parse", "write"}}

(* Slots without a live thread.                                            *)
FreeSlots == {t \in ThreadIds : thrPc[t] \in {"unused", "exited"}}

(* The bytes of a write follow the bytes already read in this read().    *)
(* The sentinel is written without a newline, so a line written after it  *)
(* joins it into one line that is not JSON.                                *)
AppendLine(b, m) ==
    IF b # <<>> /\ b[Len(b)] = Sentinel
    THEN [b EXCEPT ![Len(b)] = Malformed]
    ELSE Append(b, m)

(* A writer opens the FIFO held by reader u and writes line m. A thread   *)
(* in open() or read() gets the line; a thread already parsing never      *)
(* reads again before it closes the FIFO, and the line is discarded.      *)
WriteLine(u, m) ==
    IF thrPc[u] \in {"open", "reading"}
    THEN /\ thrBatch' = [thrBatch EXCEPT ![u] = AppendLine(thrBatch[u], m)]
         /\ thrPc' = [thrPc EXCEPT ![u] = "reading"]
    ELSE UNCHANGED <<thrBatch, thrPc>>

-----------------------------------------------------------------------------
(* Mutant: the initialized check of admonitor.start is missing.           *)
AdmonitorStartTwice ==
    IF enable
    THEN \E s \in FreeSlots :
           /\ thrPc' = [thrPc EXCEPT ![s] = "open"]
           /\ thrState' = [thrState EXCEPT ![s] = "FAULTED"]
           /\ thrFinished' = [thrFinished EXCEPT ![s] = FALSE]
           /\ thrBatch' = [thrBatch EXCEPT ![s] = <<>>]
           /\ admonCur' = s
           /\ admonInit' = TRUE
           /\ UNCHANGED <<alert, thrNew, wbSent>>
    ELSE UNCHANGED monVars

(* ADMonitorService.start: nothing when AD is disabled or a thread is     *)
(* registered; otherwise a new WBStatusThread with state FAULTED starts   *)
(* blocked in open(). A fragment of the actions that call it.             *)
AdmonitorStart ==
    IF enable /\ ~admonInit
    THEN \E s \in FreeSlots :
           /\ thrPc' = [thrPc EXCEPT ![s] = "open"]
           /\ thrState' = [thrState EXCEPT ![s] = "FAULTED"]
           /\ thrFinished' = [thrFinished EXCEPT ![s] = FALSE]
           /\ thrBatch' = [thrBatch EXCEPT ![s] = <<>>]
           /\ admonCur' = s
           /\ admonInit' = TRUE
           /\ UNCHANGED <<alert, thrNew, wbSent>>
    ELSE UNCHANGED monVars

(* ADMonitorService.stop, first half: WBStatusThread.cancel sets          *)
(* finished. Without a registered thread stop returns at once.             *)
CancelBegin ==
    /\ admonCur # 0
    /\ thrFinished' = [thrFinished EXCEPT ![admonCur] = TRUE]
    /\ UNCHANGED <<alert, thrPc, thrState, thrBatch, thrNew,
                   admonCur, admonInit, wbSent>>

(* Second half: open(fifo, 'w') blocks until a reader has the FIFO open,  *)
(* then the sentinel is written; thread and initialized are reset.        *)
CancelWrite ==
    /\ \E u \in Readers : WriteLine(u, Sentinel)
    /\ admonCur' = 0
    /\ admonInit' = FALSE
    /\ UNCHANGED <<alert, thrState, thrFinished, thrNew, wbSent>>

-----------------------------------------------------------------------------
(* winbindd writes one status line into the FIFO. It can only do so while *)
(* some thread has the FIFO open for reading.                              *)
WinbindWrite ==
    /\ wbSent < MaxMsgs
    /\ \E u \in Readers, m \in StatusMsgs : WriteLine(u, m)
    /\ wbSent' = wbSent + 1
    /\ UNCHANGED <<status, enable, alert, thrState, thrFinished, thrNew,
                   admonCur, admonInit>>

(* All writers closed the FIFO: read() returns what was written.          *)
ReadEOF(t) ==
    /\ thrPc[t] = "reading"
    /\ thrPc' = [thrPc EXCEPT ![t] = "parse"]
    /\ UNCHANGED <<status, enable, alert, thrState, thrFinished, thrBatch,
                   thrNew, admonCur, admonInit, wbSent>>

(* parse_msg up to the state comparison: the sentinel and lines that are  *)
(* not JSON are dropped, as is every message while AD is disabled and    *)
(* every message about another domain; a message equal to the thread's    *)
(* cached state changes nothing.                                          *)
ParseMsg(t) ==
    /\ thrPc[t] = "parse"
    /\ thrBatch[t] # <<>>
    /\ LET m == Head(thrBatch[t]) IN
         IF m.kind = "json" /\ enable /\ m.dom = "ours" /\ m.st # thrState[t]
         THEN /\ thrNew' = [thrNew EXCEPT ![t] = m.st]
              /\ thrPc' = [thrPc EXCEPT ![t] = "write"]
         ELSE UNCHANGED <<thrNew, thrPc>>
    /\ thrBatch' = [thrBatch EXCEPT ![t] = Tail(thrBatch[t])]
    /\ UNCHANGED <<status, enable, alert, thrState, thrFinished,
                   admonCur, admonInit, wbSent>>

(* parse_msg on a state change: set_state, then create the offline alert  *)
(* on FAULTED or delete it otherwise, then remember the new state.        *)
ParseWrite(t) ==
    /\ thrPc[t] = "write"
    /\ status' = thrNew[t]
    /\ alert' = (thrNew[t] = "FAULTED")
    /\ thrState' = [thrState EXCEPT ![t] = thrNew[t]]
    /\ thrPc' = [thrPc EXCEPT ![t] = "parse"]
    /\ UNCHANGED <<enable, thrFinished, thrBatch, thrNew,
                   admonCur, admonInit, wbSent>>

(* read_messages: after the last line, leave the loop if finished is set, *)
(* else open the FIFO again.                                               *)
ReadLoop(t) ==
    /\ thrPc[t] = "parse"
    /\ thrBatch[t] = <<>>
    /\ thrPc' = [thrPc EXCEPT ![t] = IF thrFinished[t] THEN "exited" ELSE "open"]
    /\ UNCHANGED <<status, enable, alert, thrState, thrFinished, thrBatch,
                   thrNew, admonCur, admonInit, wbSent>>

(* The steps the monitor threads take on their own.                       *)
ThreadStep(t) == ReadEOF(t) \/ ParseMsg(t) \/ ParseWrite(t) \/ ReadLoop(t)

=============================================================================
