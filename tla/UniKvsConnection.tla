-------------------------- MODULE UniKvsConnection --------------------------
(***************************************************************************)
(* The connection of UniKVS clients: open, close and the operations that   *)
(* run in between, for clients that share storages and middleware.         *)
(*                                                                         *)
(* A call of a client's method is a process that runs once.  open, close   *)
(* and operations are interleaved at every await: the instance lock        *)
(* (asyncmux(this), exclusive for open and close, shared for operations),  *)
(* the connection's io lock, the wrapper lock of each plugin and the       *)
(* plugin's own open and close.  A connection is named by the open call    *)
(* that made it; its AbortController is dead once a close aborted it.      *)
(*                                                                         *)
(* A slot is a leaf storage or a middleware in the pipeline of a client.   *)
(* open, close and the rollback of open run one task per slot in parallel. *)
(***************************************************************************)
EXTENDS PluginLifecycle

CONSTANTS
    Clients,          \* UniKvs instances
    OpenCalls,        \* calls of open
    CloseCalls,       \* calls of close (or of the async disposer)
    Operations,       \* calls of get, set, stream, ...
    CallClient,       \* CallClient[k]: the client whose method is called
    Slots,            \* the leaves and middleware of all clients
    SlotClient,       \* SlotClient[s]: whose pipeline the slot is in
    SlotPlugin,       \* SlotPlugin[s]: the plugin in that slot
    ConcurrentClose,  \* may close be called while another close is running?
    ExternallyClosed  \* the plugins that the application may close itself

Calls == OpenCalls \cup CloseCalls \cup Operations

ASSUME ConnectionAssumption ==
    /\ OpenCalls \cap CloseCalls = {}
    /\ OpenCalls \cap Operations = {}
    /\ CloseCalls \cap Operations = {}
    /\ CallClient \in [Calls -> Clients]
    /\ SlotClient \in [Slots -> Clients]
    /\ SlotPlugin \in [Slots -> Plugins]
    /\ ConcurrentClose \in BOOLEAN
    /\ ExternallyClosed \subseteq Plugins \ Unmanaged
    /\ None \notin OpenCalls
    /\ None \notin Calls \X Slots

VARIABLES
    con,       \* con[c]: #con of client c
    pc,        \* pc[k]: where call k is
    conn,      \* conn[k]: the connection a close or an operation captured
    aborted,   \* aborted[k]: the signal passed to call k has fired
    dead,      \* dead[x]: the AbortController of open call x is aborted
    task,      \* task[k][s]: the progress of call k on slot s
    abandoned  \* the tokens whose close gave up before the lifecycle ran

callVars == <<con, pc, conn, aborted, dead, task, abandoned>>
vars == <<lifecycleVars, callVars>>

SlotsOf(c) == {s \in Slots : SlotClient[s] = c}

\* The connection that a call is about.
Target(k) == IF k \in OpenCalls THEN k ELSE conn[k]

\* What a counted open of a slot is counted for.
Token(k, s) == <<Target(k), s>>

\* Where a call holds the instance lock, exclusively or shared.
Exclusive == {"opening", "rollback", "closeIo", "closeGranted", "closing", "retrying"}
Shared == {"operationGranted", "running"}
LockFree(c) == \A k \in Calls : CallClient[k] = c => pc[k] \notin Exclusive \cup Shared
NoWriter(c) == \A k \in Calls : CallClient[k] = c => pc[k] \notin Exclusive

\* A stream holds the key lock of its connection until it is disposed.
IoFree(x) == \A k \in Operations : ~(pc[k] = "streaming" /\ conn[k] = x)

\* The signal that guards the waiting of a call.
Aborted(k) ==
    \/ aborted[k]
    \/ k \in OpenCalls /\ dead[k]
    \/ k \in Operations /\ conn[k] # None /\ dead[conn[k]]

\* #acSet: the opens of a client that have not settled.
Pending(c) ==
    {x \in OpenCalls : CallClient[x] = c /\ pc[x] \in {"openLock", "opening", "rollback"}}

\* The tasks of k are all past the states in S.
Settled(k, S) == \A s \in SlotsOf(CallClient[k]) : task[k][s] \notin S

\* Every slot of k in a state of From moves to the state to.
Restart(k, From, to, others) ==
    [task EXCEPT ![k] = [s \in Slots |->
        IF SlotClient[s] # CallClient[k] THEN @[s]
        ELSE IF @[s] \in From THEN to ELSE others]]

Goto(k, label) == pc' = [pc EXCEPT ![k] = label]

Step(k, s, label) == task' = [task EXCEPT ![k][s] = label]

Init ==
    /\ LifecycleInit
    /\ con = [c \in Clients |-> None]
    /\ pc = [k \in Calls |-> "ready"]
    /\ conn = [k \in Calls |-> None]
    /\ aborted = [k \in Calls |-> FALSE]
    /\ dead = [x \in OpenCalls |-> FALSE]
    /\ task = [k \in Calls |-> [s \in Slots |-> "none"]]
    /\ abandoned = {}

----------------------------------------------------------------------------
(* open *)

OpenCall(k) ==
    /\ k \in OpenCalls
    /\ pc[k] = "ready"
    /\ con[CallClient[k]] = None
    /\ Goto(k, "openLock")
    /\ UNCHANGED <<lifecycleVars, con, conn, aborted, dead, task, abandoned>>

\* The instance lock is granted; the connection is checked again.
OpenLock(k) ==
    /\ k \in OpenCalls
    /\ pc[k] = "openLock"
    /\ LockFree(CallClient[k])
    /\ ~Aborted(k)
    /\ con[CallClient[k]] = None
    /\ Goto(k, "opening")
    /\ task' = Restart(k, {"none"}, "wait", "wait")
    /\ UNCHANGED <<lifecycleVars, con, conn, aborted, dead, abandoned>>

\* UniKvsIsOpenError, when the call is made or once it has the lock.
OpenRefused(k) ==
    /\ k \in OpenCalls
    /\ pc[k] \in {"ready", "openLock"}
    /\ con[CallClient[k]] # None
    /\ pc[k] = "openLock" => LockFree(CallClient[k]) /\ ~Aborted(k)
    /\ Goto(k, "done")
    /\ UNCHANGED <<lifecycleVars, con, conn, aborted, dead, task, abandoned>>

\* Mutant: a pending open does not listen to the controller that close aborts.
OpenLockAborted_OwnSignalOnly(k) ==
    /\ k \in OpenCalls
    /\ pc[k] = "openLock"
    /\ aborted[k]
    /\ Goto(k, "done")
    /\ UNCHANGED <<lifecycleVars, con, conn, aborted, dead, task, abandoned>>

OpenLockAborted(k) ==
    /\ k \in OpenCalls
    /\ pc[k] = "openLock"
    /\ Aborted(k)
    /\ Goto(k, "done")
    /\ UNCHANGED <<lifecycleVars, con, conn, aborted, dead, task, abandoned>>

PluginOpenAtOnce(k, s) ==
    /\ pc[k] = "opening"
    /\ task[k][s] = "wait"
    /\ OpenAtOnce(SlotPlugin[s], Token(k, s))
    /\ Step(k, s, "ok")
    /\ UNCHANGED <<con, pc, conn, aborted, dead, abandoned>>

PluginOpenStarts(k, s) ==
    /\ pc[k] = "opening"
    /\ task[k][s] = "wait"
    /\ RealOpenStarts(SlotPlugin[s], <<k, s>>)
    /\ Step(k, s, "busy")
    /\ UNCHANGED <<con, pc, conn, aborted, dead, abandoned>>

PluginOpenSucceeds(k, s) ==
    /\ pc[k] = "opening"
    /\ task[k][s] = "busy"
    /\ RealOpenSucceeds(SlotPlugin[s], <<k, s>>, Token(k, s))
    /\ Step(k, s, "ok")
    /\ UNCHANGED <<con, pc, conn, aborted, dead, abandoned>>

PluginOpenFails(k, s) ==
    /\ pc[k] = "opening"
    /\ task[k][s] = "busy"
    /\ RealOpenFails(SlotPlugin[s], <<k, s>>)
    /\ Step(k, s, "failed")
    /\ UNCHANGED <<con, pc, conn, aborted, dead, abandoned>>

\* Only a request that waits behind another one is withdrawn by an abort: a
\* free wrapper lock is taken in the step that asks for it.
PluginOpenAborted(k, s) ==
    /\ pc[k] = "opening"
    /\ task[k][s] = "wait"
    /\ Aborted(k)
    /\ holder[SlotPlugin[s]] # None
    /\ Step(k, s, "failed")
    /\ UNCHANGED <<lifecycleVars, con, pc, conn, aborted, dead, abandoned>>

\* Mutant: the signal is not checked after the last plugin was opened.
OpenDone_Unchecked(k) ==
    /\ pc[k] = "opening"
    /\ Settled(k, {"wait", "busy", "failed"})
    /\ con' = [con EXCEPT ![CallClient[k]] = k]
    /\ Goto(k, "done")
    /\ UNCHANGED <<lifecycleVars, conn, aborted, dead, task, abandoned>>

\* All plugins are open and nobody aborted the call: the connection exists.
OpenDone(k) ==
    /\ pc[k] = "opening"
    /\ Settled(k, {"wait", "busy", "failed"})
    /\ ~Aborted(k)
    /\ con' = [con EXCEPT ![CallClient[k]] = k]
    /\ Goto(k, "done")
    /\ UNCHANGED <<lifecycleVars, conn, aborted, dead, task, abandoned>>

\* Mutant: the plugins that did open are not closed again.
OpenFailed_NoRollback(k) ==
    /\ pc[k] = "opening"
    /\ Settled(k, {"wait", "busy"})
    /\ Aborted(k) \/ ~Settled(k, {"failed"})
    /\ Goto(k, "done")
    /\ UNCHANGED <<lifecycleVars, con, conn, aborted, dead, task, abandoned>>

\* Some plugin failed or the call was aborted: what was opened is closed.
OpenFailed(k) ==
    /\ pc[k] = "opening"
    /\ Settled(k, {"wait", "busy"})
    /\ Aborted(k) \/ ~Settled(k, {"failed"})
    /\ Goto(k, "rollback")
    /\ task' = Restart(k, {"ok"}, "wait", "settled")
    /\ UNCHANGED <<lifecycleVars, con, conn, aborted, dead, abandoned>>

RollbackDone(k) ==
    /\ pc[k] = "rollback"
    /\ Settled(k, {"wait", "busy", "retryWait", "retryBusy"})
    /\ Goto(k, "done")
    /\ UNCHANGED <<lifecycleVars, con, conn, aborted, dead, task, abandoned>>

----------------------------------------------------------------------------
(* close *)

\* close aborts the opens of the client that have not settled.
AbortPending(k) ==
    dead' = [x \in OpenCalls |->
        dead[x] \/ x \in Pending(CallClient[k]) \cup {con[CallClient[k]]}]

\* Mutant: a client that is not open is not refused.
CloseCall_Unchecked(k) ==
    /\ k \in CloseCalls
    /\ pc[k] = "ready"
    /\ ConcurrentClose \/ \A j \in CloseCalls :
           CallClient[j] = CallClient[k] => pc[j] \in {"ready", "done"}
    /\ AbortPending(k)
    /\ conn' = [conn EXCEPT ![k] = con[CallClient[k]]]
    /\ Goto(k, "closeLock")
    /\ UNCHANGED <<lifecycleVars, con, aborted, task, abandoned>>

\* The connection is captured and aborted.
CloseCall(k) ==
    /\ k \in CloseCalls
    /\ pc[k] = "ready"
    /\ ConcurrentClose \/ \A j \in CloseCalls :
           CallClient[j] = CallClient[k] => pc[j] \in {"ready", "done"}
    /\ con[CallClient[k]] # None
    /\ AbortPending(k)
    /\ conn' = [conn EXCEPT ![k] = con[CallClient[k]]]
    /\ Goto(k, "closeLock")
    /\ UNCHANGED <<lifecycleVars, con, aborted, task, abandoned>>

\* UniKvsIsNotOpenError
CloseRefused(k) ==
    /\ k \in CloseCalls
    /\ pc[k] = "ready"
    /\ con[CallClient[k]] = None
    /\ AbortPending(k)
    /\ Goto(k, "done")
    /\ UNCHANGED <<lifecycleVars, con, conn, aborted, task, abandoned>>

\* The instance lock is granted.
CloseLock(k) ==
    /\ pc[k] = "closeLock"
    /\ LockFree(CallClient[k])
    /\ ~Aborted(k)
    /\ con[CallClient[k]] = conn[k]
    /\ Goto(k, "closeIo")
    /\ UNCHANGED <<lifecycleVars, con, conn, aborted, dead, task, abandoned>>

\* The instance lock is granted after another close took the connection.
CloseLockLate(k) ==
    /\ pc[k] = "closeLock"
    /\ LockFree(CallClient[k])
    /\ ~Aborted(k)
    /\ con[CallClient[k]] # conn[k]
    /\ Goto(k, "failedEarly")
    /\ UNCHANGED <<lifecycleVars, con, conn, aborted, dead, task, abandoned>>

\* The io lock is granted once no stream holds a key of the connection.
CloseIo(k) ==
    /\ pc[k] = "closeIo"
    /\ IoFree(conn[k])
    /\ ~Aborted(k)
    /\ Goto(k, "closeGranted")
    /\ UNCHANGED <<lifecycleVars, con, conn, aborted, dead, task, abandoned>>

\* Mutant: io.lock() is called without the signal.
CloseAborted_NoIoSignal(k) ==
    /\ pc[k] = "closeLock"
    /\ Aborted(k)
    /\ Goto(k, "failedEarly")
    /\ UNCHANGED <<lifecycleVars, con, conn, aborted, dead, task, abandoned>>

\* An abort while waiting for either lock; the instance lock is released.
CloseAborted(k) ==
    /\ pc[k] \in {"closeLock", "closeIo"}
    /\ Aborted(k)
    /\ Goto(k, "failedEarly")
    /\ UNCHANGED <<lifecycleVars, con, conn, aborted, dead, task, abandoned>>

\* progress.pluginsStarted = true; every wrapper is asked to close.
CloseStart(k) ==
    /\ pc[k] = "closeGranted"
    /\ ~Aborted(k)
    /\ Goto(k, "closing")
    /\ task' = Restart(k, {"none"}, "wait", "wait")
    /\ UNCHANGED <<lifecycleVars, con, conn, aborted, dead, abandoned>>

\* The signal fired after the io lock was granted: every wrapper refuses.
CloseStartAborted(k) ==
    /\ pc[k] = "closeGranted"
    /\ Aborted(k)
    /\ Goto(k, "closing")
    /\ task' = Restart(k, {"none"}, "failed", "failed")
    /\ abandoned' = abandoned \cup {Token(k, s) : s \in SlotsOf(CallClient[k])}
    /\ UNCHANGED <<lifecycleVars, con, conn, aborted, dead>>

\* The three places that close the plugins of a client, and what each of them
\* does with a plugin that could not be closed: close retries it after all
\* the others, the rollback of open at once, the disposal not at all.
Closers == {"closing", "rollback", "disposing"}
AfterFailure(k) ==
    CASE pc[k] = "closing" -> "failed"
      [] pc[k] = "rollback" -> "retryWait"
      [] OTHER -> "settled"

PluginCloseAtOnce(k, s) ==
    /\ pc[k] \in Closers
    /\ task[k][s] = "wait"
    /\ CloseAtOnce(SlotPlugin[s], Token(k, s))
    /\ Step(k, s, "settled")
    /\ UNCHANGED <<con, pc, conn, aborted, dead, abandoned>>

PluginCloseStarts(k, s) ==
    /\ pc[k] \in Closers
    /\ task[k][s] = "wait"
    /\ RealCloseStarts(SlotPlugin[s], <<k, s>>, Token(k, s))
    /\ Step(k, s, "busy")
    /\ UNCHANGED <<con, pc, conn, aborted, dead, abandoned>>

PluginCloseSucceeds(k, s) ==
    /\ pc[k] \in Closers
    /\ task[k][s] = "busy"
    /\ RealCloseSucceeds(SlotPlugin[s], <<k, s>>)
    /\ Step(k, s, "settled")
    /\ UNCHANGED <<con, pc, conn, aborted, dead, abandoned>>

PluginCloseFails(k, s) ==
    /\ pc[k] \in Closers
    /\ task[k][s] = "busy"
    /\ RealCloseFails(SlotPlugin[s], <<k, s>>)
    /\ Step(k, s, AfterFailure(k))
    /\ UNCHANGED <<con, pc, conn, aborted, dead, abandoned>>

\* The wait for the wrapper lock ends with the signal: the one given to
\* close, or a timeout of its own for the rollback and the disposal.
PluginCloseAborted(k, s) ==
    /\ pc[k] \in Closers
    /\ task[k][s] = "wait"
    /\ holder[SlotPlugin[s]] # None
    /\ pc[k] = "closing" => Aborted(k)
    /\ Step(k, s, AfterFailure(k))
    /\ abandoned' = abandoned \cup {Token(k, s)}
    /\ UNCHANGED <<lifecycleVars, con, pc, conn, aborted, dead>>

Retriers == {"retrying", "rollback"}

PluginRetryAtOnce(k, s) ==
    /\ pc[k] \in Retriers
    /\ task[k][s] = "retryWait"
    /\ RetryAtOnce(SlotPlugin[s])
    /\ Step(k, s, "settled")
    /\ UNCHANGED <<con, pc, conn, aborted, dead, abandoned>>

PluginRetryStarts(k, s) ==
    /\ pc[k] \in Retriers
    /\ task[k][s] = "retryWait"
    /\ RetryStarts(SlotPlugin[s], <<k, s>>)
    /\ Step(k, s, "retryBusy")
    /\ UNCHANGED <<con, pc, conn, aborted, dead, abandoned>>

PluginRetrySucceeds(k, s) ==
    /\ pc[k] \in Retriers
    /\ task[k][s] = "retryBusy"
    /\ RealCloseSucceeds(SlotPlugin[s], <<k, s>>)
    /\ Step(k, s, "settled")
    /\ UNCHANGED <<con, pc, conn, aborted, dead, abandoned>>

PluginRetryFails(k, s) ==
    /\ pc[k] \in Retriers
    /\ task[k][s] = "retryBusy"
    /\ RealCloseFails(SlotPlugin[s], <<k, s>>)
    /\ Step(k, s, "settled")
    /\ UNCHANGED <<con, pc, conn, aborted, dead, abandoned>>

\* The retry's own timeout fires while another task has the wrapper lock.
PluginRetryAborted(k, s) ==
    /\ pc[k] \in Retriers
    /\ task[k][s] = "retryWait"
    /\ holder[SlotPlugin[s]] # None
    /\ Step(k, s, "settled")
    /\ UNCHANGED <<lifecycleVars, con, pc, conn, aborted, dead, abandoned>>

\* Every plugin was closed: #con = null.
CloseDone(k) ==
    /\ pc[k] = "closing"
    /\ Settled(k, {"wait", "busy", "failed"})
    /\ con' = [con EXCEPT ![CallClient[k]] = None]
    /\ Goto(k, "done")
    /\ UNCHANGED <<lifecycleVars, conn, aborted, dead, task, abandoned>>

\* The plugins that failed, and only they, are retried once.
CloseFailed(k) ==
    /\ pc[k] = "closing"
    /\ Settled(k, {"wait", "busy"})
    /\ ~Settled(k, {"failed"})
    /\ Goto(k, "retrying")
    /\ task' = Restart(k, {"failed"}, "retryWait", "settled")
    /\ UNCHANGED <<lifecycleVars, con, conn, aborted, dead, abandoned>>

CloseRetried(k) ==
    /\ pc[k] = "retrying"
    /\ Settled(k, {"retryWait", "retryBusy"})
    /\ Goto(k, "failedLate")
    /\ UNCHANGED <<lifecycleVars, con, conn, aborted, dead, task, abandoned>>

(* The rejection of #close is handled after the locks were released. *)

\* Mutant: all plugins are closed again after #close closed or retried them.
CloseDiscard_Disposes(k) ==
    /\ pc[k] = "failedLate"
    /\ con[CallClient[k]] = conn[k]
    /\ con' = [con EXCEPT ![CallClient[k]] = None]
    /\ Goto(k, "disposing")
    /\ task' = Restart(k, {"none"}, "wait", "wait")
    /\ UNCHANGED <<lifecycleVars, conn, aborted, dead, abandoned>>

\* #close came to the plugins: the connection is discarded.
CloseDiscard(k) ==
    /\ pc[k] = "failedLate"
    /\ con[CallClient[k]] = conn[k]
    /\ con' = [con EXCEPT ![CallClient[k]] = None]
    /\ Goto(k, "done")
    /\ UNCHANGED <<lifecycleVars, conn, aborted, dead, task, abandoned>>

\* #close did not come to the plugins: they are closed here.
CloseDispose(k) ==
    /\ pc[k] = "failedEarly"
    /\ con[CallClient[k]] = conn[k]
    /\ con' = [con EXCEPT ![CallClient[k]] = None]
    /\ Goto(k, "disposing")
    /\ task' = Restart(k, {"none"}, "wait", "wait")
    /\ UNCHANGED <<lifecycleVars, conn, aborted, dead, abandoned>>

\* Another close has discarded the connection.
CloseOutrun(k) ==
    /\ pc[k] \in {"failedEarly", "failedLate"}
    /\ con[CallClient[k]] # conn[k]
    /\ Goto(k, "done")
    /\ UNCHANGED <<lifecycleVars, con, conn, aborted, dead, task, abandoned>>

DisposeDone(k) ==
    /\ pc[k] = "disposing"
    /\ Settled(k, {"wait", "busy"})
    /\ Goto(k, "done")
    /\ UNCHANGED <<lifecycleVars, con, conn, aborted, dead, task, abandoned>>

----------------------------------------------------------------------------
(* operations *)

OperationCall(k) ==
    /\ k \in Operations
    /\ pc[k] = "ready"
    /\ con[CallClient[k]] # None
    /\ conn' = [conn EXCEPT ![k] = con[CallClient[k]]]
    /\ Goto(k, "operationLock")
    /\ UNCHANGED <<lifecycleVars, con, aborted, dead, task, abandoned>>

\* The shared instance lock is granted.
OperationLock(k) ==
    /\ pc[k] = "operationLock"
    /\ NoWriter(CallClient[k])
    /\ ~Aborted(k)
    /\ Goto(k, "operationGranted")
    /\ UNCHANGED <<lifecycleVars, con, conn, aborted, dead, task, abandoned>>

\* The connection is checked again.
OperationStart(k) ==
    /\ pc[k] = "operationGranted"
    /\ con[CallClient[k]] # None
    /\ Goto(k, "running")
    /\ UNCHANGED <<lifecycleVars, con, conn, aborted, dead, task, abandoned>>

\* UniKvsIsNotOpenError, when the call is made or once it has the lock.
OperationRefused(k) ==
    /\ k \in Operations
    /\ pc[k] \in {"ready", "operationGranted"}
    /\ con[CallClient[k]] = None
    /\ Goto(k, "done")
    /\ UNCHANGED <<lifecycleVars, con, conn, aborted, dead, task, abandoned>>

OperationLockAborted(k) ==
    /\ pc[k] = "operationLock"
    /\ Aborted(k)
    /\ Goto(k, "done")
    /\ UNCHANGED <<lifecycleVars, con, conn, aborted, dead, task, abandoned>>

\* An operation settles; stream returns with its key lock held.
OperationDone(k) ==
    /\ pc[k] = "running"
    /\ \E label \in {"done", "streaming"} : Goto(k, label)
    /\ UNCHANGED <<lifecycleVars, con, conn, aborted, dead, task, abandoned>>

\* The ValueStream is disposed, or collected and its lock released.
StreamDispose(k) ==
    /\ pc[k] = "streaming"
    /\ Goto(k, "done")
    /\ UNCHANGED <<lifecycleVars, con, conn, aborted, dead, task, abandoned>>

----------------------------------------------------------------------------
(* the environment *)

\* The signal given to a call fires; only where the call still looks at it.
Abort(k) ==
    /\ ~aborted[k]
    /\ pc[k] \in {"openLock", "opening", "closeLock", "closeIo", "closeGranted",
                  "closing", "operationLock"}
    /\ aborted' = [aborted EXCEPT ![k] = TRUE]
    /\ UNCHANGED <<lifecycleVars, con, pc, conn, dead, task, abandoned>>

CloseFromOutside(p) ==
    /\ p \in ExternallyClosed
    /\ ClosedFromOutside(p)
    /\ UNCHANGED callVars

\* Every call settled: the behaviour may end here and nowhere else.
Terminated ==
    /\ \A k \in Calls : pc[k] = "done"
    /\ UNCHANGED vars

----------------------------------------------------------------------------

OpenStep(k) ==
    \/ OpenCall(k) \/ OpenLock(k) \/ OpenRefused(k) \/ OpenLockAborted(k)
    \/ OpenDone(k) \/ OpenFailed(k) \/ RollbackDone(k)

CloseStep(k) ==
    \/ CloseCall(k) \/ CloseRefused(k) \/ CloseLock(k) \/ CloseLockLate(k)
    \/ CloseIo(k) \/ CloseAborted(k) \/ CloseStart(k) \/ CloseStartAborted(k)
    \/ CloseDone(k) \/ CloseFailed(k) \/ CloseRetried(k)
    \/ CloseDiscard(k) \/ CloseDispose(k) \/ CloseOutrun(k) \/ DisposeDone(k)

OperationStep(k) ==
    \/ OperationCall(k) \/ OperationRefused(k) \/ OperationLock(k) \/ OperationStart(k)
    \/ OperationLockAborted(k) \/ OperationDone(k)

\* One step of a plugin task of call k.
PluginStep(k, s) ==
    \/ PluginOpenAtOnce(k, s) \/ PluginOpenStarts(k, s)
    \/ PluginOpenSucceeds(k, s) \/ PluginOpenFails(k, s)
    \/ PluginCloseAtOnce(k, s) \/ PluginCloseStarts(k, s)
    \/ PluginCloseSucceeds(k, s) \/ PluginCloseFails(k, s)
    \/ PluginRetryAtOnce(k, s) \/ PluginRetryStarts(k, s)
    \/ PluginRetrySucceeds(k, s) \/ PluginRetryFails(k, s)

\* A plugin task gives up waiting for the wrapper lock.
PluginGivesUp(k, s) ==
    \/ PluginOpenAborted(k, s) \/ PluginCloseAborted(k, s) \/ PluginRetryAborted(k, s)

Next ==
    \/ \E k \in Calls : OpenStep(k)
    \/ \E k \in Calls : CloseStep(k)
    \/ \E k \in Calls : OperationStep(k)
    \/ \E k \in Calls, s \in Slots : PluginStep(k, s)
    \/ \E k \in Calls, s \in Slots : PluginGivesUp(k, s)
    \/ \E k \in Calls : StreamDispose(k)
    \/ \E k \in Calls : Abort(k)
    \/ \E p \in Plugins : CloseFromOutside(p)
    \/ Terminated

Spec == Init /\ [][Next]_vars

\* Promise jobs run, and a plugin's own open and close settle.  A close has a
\* signal that fires (its default is AbortSignal.timeout(10e3)).  Nothing is
\* assumed of operations and streams: they may never end.
Fairness ==
    /\ \A k \in Calls :
          /\ WF_vars(pc[k] # "ready" /\ (OpenStep(k) \/ CloseStep(k)))
          /\ WF_vars(pc[k] = "operationGranted" /\ OperationStep(k))
    /\ \A k \in Calls : \A s \in SlotsOf(CallClient[k]) : WF_vars(PluginStep(k, s))
    /\ \A k \in CloseCalls : WF_vars(Abort(k))

FairSpec == Spec /\ Fairness

----------------------------------------------------------------------------
(* properties *)

OpenLabels == {"ready", "openLock", "opening", "rollback", "done"}
CloseLabels == {"ready", "closeLock", "closeIo", "closeGranted", "closing", "retrying",
                "failedEarly", "failedLate", "disposing", "done"}
OperationLabels == {"ready", "operationLock", "operationGranted", "running", "streaming", "done"}
Labels == OpenLabels \cup CloseLabels \cup OperationLabels

TaskLabels == {"none", "wait", "busy", "ok", "failed", "retryWait", "retryBusy", "settled"}

Tokens == OpenCalls \X Slots

LifecycleTypeOK ==
    /\ isOpen \in [Plugins -> BOOLEAN]
    /\ references \in [Plugins -> Nat]
    /\ closeFailed \in [Plugins -> BOOLEAN]
    /\ holder \in [Plugins -> (Calls \X Slots) \cup {None}]
    /\ owners \in [Plugins -> SUBSET Tokens]

CallTypeOK ==
    /\ con \in [Clients -> OpenCalls \cup {None}]
    /\ pc \in [Calls -> Labels]
    /\ \A k \in OpenCalls : pc[k] \in OpenLabels
    /\ \A k \in CloseCalls : pc[k] \in CloseLabels
    /\ \A k \in Operations : pc[k] \in OperationLabels
    /\ conn \in [Calls -> OpenCalls \cup {None}]
    /\ \A k \in Calls \ OpenCalls : pc[k] \notin {"ready", "done"} => conn[k] # None
    /\ aborted \in [Calls -> BOOLEAN]
    /\ dead \in [OpenCalls -> BOOLEAN]
    /\ task \in [Calls -> [Slots -> TaskLabels]]
    /\ abandoned \subseteq Tokens

\* The values the fields of the plugin lifecycles and of the clients take.  A
\* close or an operation that went on has captured a connection.
TypeOK == LifecycleTypeOK /\ CallTypeOK

\* No use of a shared plugin is released twice and none is counted twice,
\* whatever mix of failing opens, rollbacks, failing closes, retries, aborted
\* closes and disposals the clients go through: #references is the number of
\* the uses that were opened and not closed.
ReferencesMatchOwners ==
    \A p \in Plugins : references[p] = Cardinality(owners[p])

\* A close of connection x lost its signal while it waited for a lock.
Forced(x) == \E j \in CloseCalls : conn[j] = x /\ aborted[j]

\* The plugins of a live connection are open, whatever the other clients that
\* share them do; and a close that is not forced by its signal closes no
\* plugin under a running operation or an undisposed stream.
PluginsOpenWhileUsed ==
    \A s \in Slots :
        LET c == SlotClient[s]
            used == \/ con[c] # None /\ ~dead[con[c]]
                    \/ \E k \in Operations :
                          /\ CallClient[k] = c
                          /\ pc[k] \in {"running", "streaming"}
                          /\ ~Forced(conn[k])
        IN  used /\ SlotPlugin[s] \notin ExternallyClosed => isOpen[SlotPlugin[s]]

\* Somebody is still responsible for every counted use: the open that is
\* running, the rollback or the disposal that will release it, the published
\* connection; or a close gave it up, without reaching the lifecycle, because
\* its signal fired.
EveryUseHasAReleaser ==
    \A p \in Plugins : \A t \in owners[p] :
        LET x == t[1]
            s == t[2]
        IN  \/ con[CallClient[x]] = x
            \/ pc[x] = "opening"
            \/ pc[x] = "rollback" /\ task[x][s] = "wait"
            \/ \E k \in CloseCalls :
                  conn[k] = x /\ pc[k] = "disposing" /\ task[k][s] = "wait"
            \/ t \in abandoned /\ (Forced(x) \/ p \in ExternallyClosed)

\* A plugin that nobody uses is closed, or its close failed and is remembered
\* as failed for the next open or close.  No client closes a plugin that the
\* application had opened itself.
UnusedPluginsAreClosed ==
    \A p \in Plugins :
        /\ p \in Managed /\ isOpen[p] /\ holder[p] = None
              => owners[p] # {} \/ closeFailed[p]
        /\ p \in Unmanaged => isOpen[p]

\* A client whose connection was aborted does not stay in the state where
\* isOpen is true and every operation fails: some close is on its way to
\* discard the connection.
NoDeadConnection ==
    \A c \in Clients :
        con[c] # None /\ dead[con[c]] =>
            \E k \in CloseCalls : conn[k] = con[c] /\ pc[k] \notin {"ready", "done"}

\* A close settles although operations never end and streams are never
\* disposed: its signal discards the connection.
CloseSettles ==
    \A k \in CloseCalls : pc[k] = "closeLock" ~> pc[k] = "done"

\* An open settles if the operations that hold the instance lock do, even
\* when a stream of the previous connection is never disposed.
OpenSettles ==
    (\A k \in Operations : pc[k] = "running" ~> pc[k] # "running")
        => \A k \in OpenCalls : pc[k] = "openLock" ~> pc[k] = "done"

\* Neither open nor close waits for ever: not for the other on the instance
\* lock, and not on the wrapper lock of a plugin for a client that shares it,
\* although that client's own opens and closes fail, are aborted and are retried.
ConnectionCallsSettle == CloseSettles /\ OpenSettles

----------------------------------------------------------------------------
(* An inductive invariant, for clients that do not close twice at a time *)

\* A lifecycle counts the uses of managed plugins, and only of those; what is
\* in use is open, and what is open is in use or was left open by a failure.
LifecycleAt(p) ==
    /\ IsFiniteSet(owners[p])
    /\ references[p] = Cardinality(owners[p])
    /\ p \notin Managed => owners[p] = {} /\ ~closeFailed[p]
    /\ p \in Unmanaged => isOpen[p]
    /\ p \notin HasOpen \cup ExternallyClosed => isOpen[p]
    /\ p \in Managed /\ isOpen[p] /\ holder[p] = None
          => owners[p] # {} \/ closeFailed[p]
    /\ p \in Managed \ ExternallyClosed /\ owners[p] # {} => isOpen[p]

LifecycleInv == \A p \in Plugins : LifecycleAt(p)

\* A connection is made by an open call of its client that has settled, while
\* there is none; whoever closes it has aborted it before.
ConnectionInv ==
    /\ \A c \in Clients :
          con[c] # None => pc[con[c]] = "done" /\ CallClient[con[c]] = c
    /\ \A k \in Calls \ OpenCalls :
          conn[k] # None => pc[conn[k]] = "done" /\ CallClient[conn[k]] = CallClient[k]
    /\ \A k \in Calls : pc[k] = "ready" => conn[k] = None
    /\ \A k \in CloseCalls : conn[k] # None => dead[conn[k]]
    /\ \A x \in OpenCalls : pc[x] = "opening" => con[CallClient[x]] = None

\* What the instance lock excludes, and that closes come one after another.
ExclusionInv ==
    /\ \A j, k \in Calls :
          /\ CallClient[j] = CallClient[k]
          /\ pc[j] \in Exclusive
          /\ pc[k] \in Exclusive \cup Shared
          => j = k
    /\ \A j, k \in CloseCalls :
          /\ CallClient[j] = CallClient[k]
          /\ pc[j] \notin {"ready", "done"}
          /\ pc[k] \notin {"ready", "done"}
          => j = k

\* A close that has the instance lock closes the current connection; one that
\* disposes has discarded it, and one that discards it early was aborted.
CloseInv ==
    \A k \in CloseCalls :
        /\ pc[k] \in {"closeIo", "closeGranted", "closing", "retrying"}
              => con[CallClient[k]] = conn[k]
        /\ pc[k] = "disposing" => con[CallClient[k]] # conn[k]
        /\ pc[k] = "failedEarly" /\ con[CallClient[k]] = conn[k] => aborted[k]

\* Tasks run on the slots of the call's client; one that is inside a plugin's
\* own open or close is there for a reason.
TaskInv ==
    \A k \in Calls, s \in Slots :
        /\ task[k][s] # "none" => SlotClient[s] = CallClient[k]
        /\ pc[k] = "opening" /\ SlotClient[s] = CallClient[k]
              => task[k][s] \in {"wait", "busy", "ok", "failed"}
        /\ task[k][s] \in {"busy", "retryBusy"} => holder[SlotPlugin[s]] = <<k, s>>
        /\ pc[k] = "opening" /\ task[k][s] = "busy" =>
              SlotPlugin[s] \in HasOpen \ Unmanaged /\ ~isOpen[SlotPlugin[s]]
        /\ (pc[k] \in Closers /\ task[k][s] = "busy") \/ task[k][s] = "retryBusy" =>
              SlotPlugin[s] \in Managed /\ owners[SlotPlugin[s]] = {}

\* Which uses are counted: those of an open that is running, up to where each
\* of its tasks is; those that a rollback, a close or a disposal has yet to
\* release; and those of a connection whose plugins no close has begun to close.
UseInv ==
    /\ \A x \in OpenCalls, s \in Slots :
          pc[x] \in {"ready", "openLock"} => <<x, s>> \notin owners[SlotPlugin[s]]
    /\ \A x \in OpenCalls, s \in Slots :
          pc[x] = "opening" /\ SlotPlugin[s] \in Managed =>
             (<<x, s>> \in owners[SlotPlugin[s]] <=> task[x][s] = "ok")
    /\ \A k \in Calls, s \in Slots :
          pc[k] \in Closers /\ task[k][s] = "wait" /\ SlotPlugin[s] \in Managed =>
             Token(k, s) \in owners[SlotPlugin[s]]
    /\ \A c \in Clients, s \in Slots :
          con[c] # None /\ SlotClient[s] = c /\ SlotPlugin[s] \in Managed =>
             \/ <<con[c], s>> \in owners[SlotPlugin[s]]
             \/ \E k \in CloseCalls :
                   conn[k] = con[c] /\ pc[k] \in {"closing", "retrying", "failedLate"}

\* The plugins that are not counted stay open once a client opened them.
UncountedInv ==
    \A s \in Slots : SlotPlugin[s] \notin Managed \cup ExternallyClosed =>
        /\ con[SlotClient[s]] # None => isOpen[SlotPlugin[s]]
        /\ \A x \in OpenCalls :
              pc[x] = "opening" /\ task[x][s] = "ok" => isOpen[SlotPlugin[s]]

\* A close that was not aborted begins with the plugins when no operation and
\* no stream is left on its connection.
OperationInv ==
    \A k \in Operations :
        /\ conn[k] # None /\ ~dead[conn[k]] => con[CallClient[k]] = conn[k]
        /\ pc[k] \in {"operationGranted", "running", "streaming"} /\ ~Forced(conn[k]) =>
              /\ con[CallClient[k]] = conn[k]
              /\ \A j \in CloseCalls : conn[j] = conn[k] =>
                    pc[j] \notin {"closeGranted", "closing", "retrying", "failedLate"}

IInv ==
    /\ TypeOK
    /\ LifecycleInv
    /\ ConnectionInv
    /\ ExclusionInv
    /\ CloseInv
    /\ TaskInv
    /\ UseInv
    /\ UncountedInv
    /\ OperationInv
=============================================================================
