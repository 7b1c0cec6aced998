----------------------- MODULE UniKvsConnection_proofs -----------------------
(***************************************************************************)
(* Theorems about UniKvsConnection, for any clients, plugins and calls.    *)
(* The types come first, then the inductive invariant and the safety       *)
(* properties that follow from it, for clients that do not close twice at  *)
(* a time.                                                                 *)
(***************************************************************************)
EXTENDS UniKvsConnection, FiniteSetTheorems, TLAPS

USE ConnectionAssumption, PluginAssumption
    DEF ConnectionAssumption, PluginAssumption, Calls

----------------------------------------------------------------------------
(* How the tasks change *)

\* Restart touches the slots of one call only.
LEMMA RestartTasks ==
    ASSUME task \in [Calls -> [Slots -> TaskLabels]],
           NEW k \in Calls, NEW From, NEW to \in TaskLabels, NEW others \in TaskLabels
    PROVE  /\ Restart(k, From, to, others) \in [Calls -> [Slots -> TaskLabels]]
           /\ \A j \in Calls \ {k} : Restart(k, From, to, others)[j] = task[j]
           /\ \A s \in Slots : Restart(k, From, to, others)[k][s] =
                IF SlotClient[s] # CallClient[k] THEN task[k][s]
                ELSE IF task[k][s] \in From THEN to ELSE others
BY DEF Restart

\* Step touches one slot of one call.
LEMMA StepTasks ==
    ASSUME CallTypeOK,
           NEW k \in Calls, NEW s \in Slots, NEW label \in TaskLabels,
           Step(k, s, label)
    PROVE  /\ task' \in [Calls -> [Slots -> TaskLabels]]
           /\ task'[k][s] = label
           /\ \A j \in Calls, r \in Slots : <<j, r>> # <<k, s>> => task'[j][r] = task[j][r]
BY DEF Step, CallTypeOK

\* What a running call is about, and where a failed close sends a task.
LEMMA CallLabels ==
    ASSUME CallTypeOK, NEW k \in Calls, pc[k] \notin {"ready", "done"}
    PROVE  /\ Target(k) \in OpenCalls
           /\ \A s \in Slots : Token(k, s) \in Tokens
           /\ AfterFailure(k) \in {"failed", "retryWait", "settled"}
BY DEF CallTypeOK, Target, Token, Tokens, AfterFailure

----------------------------------------------------------------------------
(* Type correctness *)

\* The type invariant holds when no client has been opened.
LEMMA TypeInit == Init => TypeOK
BY DEF Init, LifecycleInit, TypeOK, LifecycleTypeOK, CallTypeOK, Labels, OpenLabels,
       CloseLabels, OperationLabels, TaskLabels, Tokens

\* Each operation of a lifecycle keeps the types of its fields.
LEMMA LifecycleTypes ==
    ASSUME LifecycleTypeOK, NEW p \in Plugins,
           NEW tsk \in Calls \X Slots, NEW token \in Tokens,
           \/ OpenAtOnce(p, token)
           \/ RealOpenStarts(p, tsk)
           \/ RealOpenSucceeds(p, tsk, token)
           \/ RealOpenFails(p, tsk)
           \/ CloseAtOnce(p, token)
           \/ RealCloseStarts(p, tsk, token)
           \/ RealCloseSucceeds(p, tsk)
           \/ RealCloseFails(p, tsk)
           \/ RetryAtOnce(p)
           \/ RetryStarts(p, tsk)
           \/ ClosedFromOutside(p)
    PROVE  LifecycleTypeOK'
<1> USE DEF LifecycleTypeOK
<1>1. CASE OpenAtOnce(p, token)
  <2>1. CASE Count(p, token) /\ UNCHANGED <<isOpen, holder>> BY <2>1 DEF Count
  <2>2. CASE UNCHANGED lifecycleVars BY <2>2 DEF lifecycleVars
  <2> QED BY <1>1, <2>1, <2>2 DEF OpenAtOnce, lifecycleVars
<1>2. CASE RealOpenStarts(p, tsk) BY <1>2 DEF RealOpenStarts
<1>3. CASE RealOpenSucceeds(p, tsk, token)
  <2>1. holder' \in [Plugins -> (Calls \X Slots) \cup {None}] /\ isOpen' \in [Plugins -> BOOLEAN]
    BY <1>3 DEF RealOpenSucceeds
  <2>2. CASE Count(p, token) BY <2>1, <2>2 DEF Count
  <2>3. CASE UNCHANGED <<references, closeFailed, owners>> BY <2>1, <2>3
  <2> QED BY <1>3, <2>2, <2>3 DEF RealOpenSucceeds
<1>4. CASE RealOpenFails(p, tsk) BY <1>4 DEF RealOpenFails
<1>5. CASE CloseAtOnce(p, token)
  <2>1. CASE UNCHANGED <<references, closeFailed>> BY <1>5, <2>1 DEF CloseAtOnce
  <2>2. CASE references[p] > 1 /\ references' = [references EXCEPT ![p] = @ - 1]
              /\ UNCHANGED closeFailed
    BY <1>5, <2>2 DEF CloseAtOnce
  <2>3. CASE /\ references' = [references EXCEPT ![p] = 0]
             /\ closeFailed' = [closeFailed EXCEPT ![p] = FALSE]
    BY <1>5, <2>3 DEF CloseAtOnce
  <2> QED BY <1>5, <2>1, <2>2, <2>3 DEF CloseAtOnce
<1>6. CASE RealCloseStarts(p, tsk, token) BY <1>6 DEF RealCloseStarts
<1>7. CASE RealCloseSucceeds(p, tsk) BY <1>7 DEF RealCloseSucceeds
<1>8. CASE RealCloseFails(p, tsk) BY <1>8 DEF RealCloseFails
<1>9. CASE RetryAtOnce(p) BY <1>9 DEF RetryAtOnce
<1>10. CASE RetryStarts(p, tsk) BY <1>10 DEF RetryStarts
<1>11. CASE ClosedFromOutside(p) BY <1>11 DEF ClosedFromOutside
<1> QED
  BY <1>1, <1>2, <1>3, <1>4, <1>5, <1>6, <1>7, <1>8, <1>9, <1>10, <1>11

\* Nor does a step of a task disturb the types of the calls.
LEMMA TaskTypes ==
    ASSUME CallTypeOK, NEW k \in Calls, NEW s \in Slots, NEW label \in TaskLabels,
           Step(k, s, label), UNCHANGED <<con, pc, conn, aborted, dead>>,
           abandoned' \subseteq Tokens
    PROVE  CallTypeOK'
BY StepTasks DEF CallTypeOK

\* A call that moves to a label of its kind keeps the types of the calls.
LEMMA GotoTypes ==
    ASSUME CallTypeOK, NEW k \in Calls, NEW label, Goto(k, label),
           k \in OpenCalls => label \in OpenLabels,
           k \in CloseCalls => label \in CloseLabels,
           k \in Operations => label \in OperationLabels,
           NEW x \in OpenCalls \cup {None},
           conn' = [conn EXCEPT ![k] = x],
           k \notin OpenCalls /\ label # "done" => x # None,
           con' \in [Clients -> OpenCalls \cup {None}],
           dead' \in [OpenCalls -> BOOLEAN],
           task' \in [Calls -> [Slots -> TaskLabels]],
           abandoned' \subseteq Tokens,
           UNCHANGED aborted
    PROVE  CallTypeOK'
BY DEF CallTypeOK, Goto, Labels, OpenLabels, CloseLabels, OperationLabels

\* The same for a call that goes on with the connection it has.
LEMMA OnwardTypes ==
    ASSUME CallTypeOK, NEW k \in Calls, NEW label, Goto(k, label),
           pc[k] \notin {"ready", "done"} \/ k \in OpenCalls,
           k \in OpenCalls => label \in OpenLabels,
           k \in CloseCalls => label \in CloseLabels,
           k \in Operations => label \in OperationLabels,
           con' \in [Clients -> OpenCalls \cup {None}],
           task' \in [Calls -> [Slots -> TaskLabels]],
           abandoned' \subseteq Tokens,
           UNCHANGED <<conn, dead, aborted>>
    PROVE  CallTypeOK'
BY DEF CallTypeOK, Goto, Labels, OpenLabels, CloseLabels, OperationLabels

\* The kind of a call can be read from its label.
LEMMA Kinds ==
    ASSUME CallTypeOK, NEW k \in Calls
    PROVE  /\ pc[k] \in OpenLabels \ {"ready", "done"} => k \in OpenCalls
           /\ pc[k] \in CloseLabels \ {"ready", "done"} => k \in CloseCalls
           /\ pc[k] \in OperationLabels \ {"ready", "done"} => k \in Operations
BY DEF CallTypeOK, OpenLabels, CloseLabels, OperationLabels

\* Every step keeps the type invariant.
LEMMA TypeStep == TypeOK /\ [Next]_vars => TypeOK'
<1> SUFFICES ASSUME LifecycleTypeOK, CallTypeOK, [Next]_vars PROVE TypeOK'
  BY DEF TypeOK
<1>0. UNCHANGED lifecycleVars => LifecycleTypeOK'
  BY DEF lifecycleVars, LifecycleTypeOK
<1>t. /\ task \in [Calls -> [Slots -> TaskLabels]]
      /\ con \in [Clients -> OpenCalls \cup {None}]
      /\ conn \in [Calls -> OpenCalls \cup {None}]
      /\ dead \in [OpenCalls -> BOOLEAN]
      /\ abandoned \subseteq Tokens
  BY DEF CallTypeOK
<1>w. /\ "wait" \in TaskLabels /\ "failed" \in TaskLabels
      /\ "settled" \in TaskLabels /\ "retryWait" \in TaskLabels
  BY DEF TaskLabels
<1>r. ASSUME NEW k \in Calls
      PROVE  /\ Restart(k, {"none"}, "wait", "wait") \in [Calls -> [Slots -> TaskLabels]]
             /\ Restart(k, {"none"}, "failed", "failed") \in [Calls -> [Slots -> TaskLabels]]
  BY <1>t, <1>w, RestartTasks
<1>1. ASSUME NEW k \in Calls, OpenStep(k) PROVE TypeOK'
  <2>k. k \in OpenCalls /\ UNCHANGED <<lifecycleVars, conn, dead, aborted, abandoned>>
    BY <1>1, Kinds
    DEF OpenStep, OpenCall, OpenLock, OpenRefused, OpenLockAborted, OpenDone, OpenFailed, RollbackDone,
        OpenLabels
  <2>l. \E label \in OpenLabels : Goto(k, label)
    BY <1>1
    DEF OpenStep, OpenCall, OpenLock, OpenRefused, OpenLockAborted, OpenDone, OpenFailed, RollbackDone,
        OpenLabels
  <2>c. con' \in [Clients -> OpenCalls \cup {None}]
    BY <1>1, <1>t, <2>k
    DEF OpenStep, OpenCall, OpenLock, OpenRefused, OpenLockAborted, OpenDone, OpenFailed, RollbackDone
  <2>t. task' \in [Calls -> [Slots -> TaskLabels]]
    <3>1. CASE OpenLock(k) BY <3>1, <1>t, <1>r DEF OpenLock
    <3>2. CASE OpenFailed(k) BY <3>2, <1>t, <1>w, RestartTasks DEF OpenFailed
    <3> QED
      BY <1>1, <1>t, <3>1, <3>2
      DEF OpenStep, OpenCall, OpenRefused, OpenLockAborted, OpenDone, RollbackDone
  <2>a. CallTypeOK'
    BY <1>t, <2>k, <2>l, <2>c, <2>t, OnwardTypes
  <2> QED BY <1>0, <2>k, <2>a DEF TypeOK
<1>2. ASSUME NEW k \in Calls, CloseStep(k) PROVE TypeOK'
  <2>k. k \in CloseCalls /\ UNCHANGED <<lifecycleVars, aborted>>
    BY <1>2, Kinds
    DEF CloseCall, CloseRefused, CloseLabels, CloseStep, CloseLock, CloseLockLate, CloseIo, CloseAborted, CloseStart,
          CloseStartAborted, CloseDone, CloseFailed, CloseRetried, CloseDiscard, CloseDispose,
          CloseOutrun, DisposeDone
  <2>1. CASE CloseCall(k)
    <3>1. con[CallClient[k]] \in OpenCalls \cup {None} BY <1>t
    <3>2. dead' \in [OpenCalls -> BOOLEAN] BY <1>t, <2>1 DEF CloseCall, AbortPending
    <3>3. CallTypeOK'
      BY <1>t, <2>1, <2>k, <3>1, <3>2, GotoTypes DEF CloseCall, CloseLabels
    <3> QED BY <1>0, <2>k, <3>3 DEF TypeOK
  <2>2. CASE CloseRefused(k)
    <3>1. dead' \in [OpenCalls -> BOOLEAN] BY <1>t, <2>2 DEF CloseRefused, AbortPending
    <3>2. conn' = [conn EXCEPT ![k] = conn[k]] /\ conn[k] \in OpenCalls \cup {None}
      BY <1>t, <2>2 DEF CloseRefused
    <3>3. CallTypeOK'
      BY <1>t, <2>2, <2>k, <3>1, <3>2, GotoTypes DEF CloseRefused, CloseLabels
    <3> QED BY <1>0, <2>k, <3>3 DEF TypeOK
  <2>3. CASE ~CloseCall(k) /\ ~CloseRefused(k)
    <3>l. \E label \in CloseLabels : Goto(k, label)
      BY <1>2, <2>3
      DEF CloseLabels, CloseStep, CloseLock, CloseLockLate, CloseIo, CloseAborted, CloseStart,
          CloseStartAborted, CloseDone, CloseFailed, CloseRetried, CloseDiscard, CloseDispose,
          CloseOutrun, DisposeDone
    <3>p. pc[k] \notin {"ready", "done"} /\ UNCHANGED <<conn, dead>>
      BY <1>2, <2>3
      DEF CloseStep, CloseLock, CloseLockLate, CloseIo, CloseAborted, CloseStart,
          CloseStartAborted, CloseDone, CloseFailed, CloseRetried, CloseDiscard, CloseDispose,
          CloseOutrun, DisposeDone
    <3>c. con' \in [Clients -> OpenCalls \cup {None}]
      BY <1>2, <1>t, <2>3
      DEF CloseStep, CloseLock, CloseLockLate, CloseIo, CloseAborted, CloseStart,
          CloseStartAborted, CloseDone, CloseFailed, CloseRetried, CloseDiscard, CloseDispose,
          CloseOutrun, DisposeDone
    <3>t. task' \in [Calls -> [Slots -> TaskLabels]]
      <4>1. CASE CloseFailed(k) BY <4>1, <1>t, <1>w, RestartTasks DEF CloseFailed
      <4> QED
        BY <1>2, <1>t, <1>r, <2>3, <4>1
        DEF CloseStep, CloseLock, CloseLockLate, CloseIo, CloseAborted, CloseStart,
            CloseStartAborted, CloseDone, CloseRetried, CloseDiscard, CloseDispose,
            CloseOutrun, DisposeDone
    <3>b. abandoned' \subseteq Tokens
      <4>1. \A s \in SlotsOf(CallClient[k]) : Token(k, s) \in Tokens
        BY <3>p, CallLabels DEF SlotsOf
      <4> QED
        BY <1>2, <1>t, <2>3, <4>1
        DEF CloseStep, CloseLock, CloseLockLate, CloseIo, CloseAborted, CloseStart,
          CloseStartAborted, CloseDone, CloseFailed, CloseRetried, CloseDiscard, CloseDispose,
          CloseOutrun, DisposeDone
    <3>a. CallTypeOK'
      BY <2>k, <3>l, <3>p, <3>c, <3>t, <3>b, OnwardTypes
    <3> QED BY <1>0, <2>k, <3>a DEF TypeOK
  <2> QED BY <2>1, <2>2, <2>3
<1>3. ASSUME NEW k \in Calls, OperationStep(k) PROVE TypeOK'
  <2> USE <1>0 DEF TypeOK, CallTypeOK, Labels, OpenLabels, CloseLabels, OperationLabels, Goto
  <2>1. CASE OperationCall(k) BY <2>1 DEF OperationCall
  <2>2. CASE OperationRefused(k) BY <2>2 DEF OperationRefused
  <2>3. CASE OperationLock(k) BY <2>3 DEF OperationLock
  <2>4. CASE OperationStart(k) BY <2>4 DEF OperationStart
  <2>5. CASE OperationLockAborted(k) BY <2>5 DEF OperationLockAborted
  <2>6. CASE OperationDone(k) BY <2>6 DEF OperationDone
  <2> QED BY <1>3, <2>1, <2>2, <2>3, <2>4, <2>5, <2>6 DEF OperationStep
<1>4. ASSUME NEW k \in Calls, NEW s \in Slots, PluginStep(k, s) PROVE TypeOK'
  <2>0. pc[k] \notin {"ready", "done"} /\ SlotPlugin[s] \in Plugins
    BY <1>4 DEF PluginStep, PluginOpenAtOnce, PluginOpenStarts, PluginOpenSucceeds,
       PluginOpenFails, PluginCloseAtOnce, PluginCloseStarts, PluginCloseSucceeds,
       PluginCloseFails, PluginRetryAtOnce, PluginRetryStarts, PluginRetrySucceeds, PluginRetryFails,
       Closers, Retriers
  <2>1. /\ Token(k, s) \in Tokens /\ <<k, s>> \in Calls \X Slots
        /\ AfterFailure(k) \in TaskLabels
        /\ abandoned \subseteq Tokens
    BY <2>0, CallLabels DEF TaskLabels, CallTypeOK
  <2>2. {"ok", "busy", "failed", "settled", "retryBusy"} \subseteq TaskLabels
    BY DEF TaskLabels
  <2>3. LifecycleTypeOK'
    BY <1>4, <2>0, <2>1, LifecycleTypes
    DEF PluginStep, PluginOpenAtOnce, PluginOpenStarts, PluginOpenSucceeds,
       PluginOpenFails, PluginCloseAtOnce, PluginCloseStarts, PluginCloseSucceeds,
       PluginCloseFails, PluginRetryAtOnce, PluginRetryStarts, PluginRetrySucceeds, PluginRetryFails
  <2>4. CallTypeOK'
    BY <1>4, <2>1, <2>2, TaskTypes
    DEF PluginStep, PluginOpenAtOnce, PluginOpenStarts, PluginOpenSucceeds,
       PluginOpenFails, PluginCloseAtOnce, PluginCloseStarts, PluginCloseSucceeds,
       PluginCloseFails, PluginRetryAtOnce, PluginRetryStarts, PluginRetrySucceeds, PluginRetryFails
  <2> QED BY <2>3, <2>4 DEF TypeOK
<1>5. ASSUME NEW k \in Calls, NEW s \in Slots, PluginGivesUp(k, s) PROVE TypeOK'
  <2>0. pc[k] \notin {"ready", "done"}
    BY <1>5 DEF PluginGivesUp, PluginOpenAborted, PluginCloseAborted, PluginRetryAborted,
       Closers, Retriers
  <2>1. /\ Token(k, s) \in Tokens
        /\ AfterFailure(k) \in TaskLabels
        /\ abandoned \subseteq Tokens
        /\ {"failed", "settled"} \subseteq TaskLabels
    BY <2>0, CallLabels DEF TaskLabels, CallTypeOK
  <2>2. CallTypeOK'
    BY <1>5, <2>1, TaskTypes
    DEF PluginGivesUp, PluginOpenAborted, PluginCloseAborted, PluginRetryAborted
  <2> QED
    BY <1>0, <1>5, <2>2
    DEF TypeOK, PluginGivesUp, PluginOpenAborted, PluginCloseAborted, PluginRetryAborted
<1>6. ASSUME NEW k \in Calls, StreamDispose(k) PROVE TypeOK'
  BY <1>0, <1>6 DEF StreamDispose, TypeOK, CallTypeOK, Labels, OpenLabels, CloseLabels,
     OperationLabels, Goto
<1>7. ASSUME NEW k \in Calls, Abort(k) PROVE TypeOK'
  BY <1>0, <1>7 DEF Abort, TypeOK, CallTypeOK
<1>8. ASSUME NEW p \in Plugins, CloseFromOutside(p) PROVE TypeOK'
  BY <1>8 DEF CloseFromOutside, ClosedFromOutside, callVars, TypeOK, LifecycleTypeOK,
     CallTypeOK
<1>9. CASE UNCHANGED vars
  BY <1>0, <1>9 DEF vars, callVars, TypeOK, CallTypeOK
<1> QED
  BY <1>1, <1>2, <1>3, <1>4, <1>5, <1>6, <1>7, <1>8, <1>9 DEF Next, Terminated

\* Every field of the clients and of the plugin lifecycles keeps its type, and
\* a call only goes through the labels of its kind.
THEOREM TypeCorrect == Spec => []TypeOK
BY TypeInit, TypeStep, PTL DEF Spec

----------------------------------------------------------------------------
(* The lifecycle of a plugin *)

\* What a counted open does to the plugin it is for, and to the others.
LEMMA CountEffect ==
    ASSUME LifecycleTypeOK, NEW p \in Plugins, NEW token, Count(p, token)
    PROVE  /\ references'[p] = references[p] + 1
           /\ ~closeFailed'[p]
           /\ owners'[p] = owners[p] \cup {token}
           /\ \A q \in Plugins : q # p => /\ references'[q] = references[q]
                                          /\ closeFailed'[q] = closeFailed[q]
                                          /\ owners'[q] = owners[q]
BY DEF LifecycleTypeOK, Count

\* The size of a set of uses, with one more and with one less.
LEMMA OneMore ==
    ASSUME NEW S, NEW x, IsFiniteSet(S), x \notin S
    PROVE  IsFiniteSet(S \cup {x}) /\ Cardinality(S \cup {x}) = Cardinality(S) + 1
BY FS_AddElement

\* Taking one element out of a finite set makes it smaller by one.
LEMMA OneLess ==
    ASSUME NEW S, NEW x, IsFiniteSet(S), x \in S
    PROVE  /\ IsFiniteSet(S \ {x})
           /\ Cardinality(S \ {x}) = Cardinality(S) - 1
           /\ Cardinality(S) \in Nat \ {0}
           /\ Cardinality(S) = 1 => S \ {x} = {}
<1>1. IsFiniteSet(S \ {x}) /\ Cardinality(S \ {x}) = Cardinality(S) - 1
  BY FS_RemoveElement
<1>2. Cardinality(S) \in Nat BY FS_CardinalityType
<1>3. Cardinality(S) # 0 BY FS_EmptySet
<1>4. Cardinality(S) = 1 => S \ {x} = {} BY <1>1, FS_EmptySet
<1> QED BY <1>1, <1>2, <1>3, <1>4

\* The number of uses of a plugin is a natural number.
LEMMA SizeType ==
    ASSUME NEW S, IsFiniteSet(S)
    PROVE  Cardinality(S) \in Nat /\ (Cardinality(S) = 0 <=> S = {})
BY FS_CardinalityType, FS_EmptySet

\* Nothing can be taken out of the empty set.
LEMMA NoneLess == ASSUME NEW x PROVE {} \ {x} = {}
OBVIOUS

\* Opening a plugin keeps the invariant of its lifecycle if the use is new.
LEMMA OpenAtOnceLifecycle ==
    ASSUME LifecycleTypeOK, LifecycleInv, NEW p \in Plugins, NEW token,
           token \notin owners[p], OpenAtOnce(p, token)
    PROVE  /\ LifecycleInv'
           /\ UNCHANGED <<isOpen, holder>>
           /\ p \in HasOpen => isOpen[p]
           /\ \A q \in Plugins : q # p => owners'[q] = owners[q]
           /\ p \in Managed => owners'[p] = owners[p] \cup {token}
           /\ p \notin Managed => owners'[p] = owners[p]
<1>0. LifecycleAt(p) BY DEF LifecycleInv
<1>1. UNCHANGED <<isOpen, holder>> /\ holder[p] = None /\ (p \in HasOpen => isOpen[p])
  BY DEF OpenAtOnce
<1>2. CASE p \in HasOpen \cap HasClose /\ (references[p] > 0 \/ closeFailed[p]) /\ Count(p, token)
  <2>1. p \in Managed
    <3>1. references[p] > 0 => owners[p] # {}
      BY <1>0, SizeType DEF LifecycleAt
    <3> QED BY <1>0, <1>2, <3>1 DEF LifecycleAt
  <2>2. LifecycleAt(p)'
    BY <1>0, <1>1, <1>2, <2>1, CountEffect, OneMore DEF LifecycleAt, Managed
  <2>3. \A q \in Plugins : q # p => LifecycleAt(q)'
    BY <1>1, <1>2, CountEffect DEF LifecycleInv, LifecycleAt
  <2> QED BY <1>1, <1>2, <2>1, <2>2, <2>3, CountEffect DEF LifecycleInv
<1>3. CASE /\ p \notin HasOpen \cap HasClose \/ (references[p] = 0 /\ ~closeFailed[p])
           /\ UNCHANGED <<references, closeFailed, owners>>
  <2>1. p \notin Managed
    <3>1. references[p] = 0 => owners[p] = {}
      BY <1>0, SizeType DEF LifecycleAt
    <3> QED BY <1>0, <1>1, <1>3, <3>1 DEF LifecycleAt, Managed
  <2> QED BY <1>1, <1>3, <2>1 DEF LifecycleInv, LifecycleAt
<1> QED BY <1>2, <1>3 DEF OpenAtOnce

\* A real open that starts keeps the count exact and takes the wrapper lock.
LEMMA RealOpenStartsLifecycle ==
    ASSUME LifecycleTypeOK, LifecycleInv, NEW p \in Plugins, NEW tsk,
           tsk # None, RealOpenStarts(p, tsk)
    PROVE  /\ LifecycleInv'
           /\ p \in HasOpen \ Unmanaged /\ ~isOpen[p]
           /\ holder'[p] = tsk
           /\ \A q \in Plugins : q # p => holder'[q] = holder[q]
           /\ UNCHANGED <<isOpen, owners>>
BY DEF LifecycleTypeOK, RealOpenStarts, LifecycleInv, LifecycleAt

\* A real open that succeeds counts the first use of a managed plugin.
LEMMA RealOpenSucceedsLifecycle ==
    ASSUME LifecycleTypeOK, LifecycleInv, NEW p \in Plugins, NEW tsk, NEW token,
           p \in HasOpen \ Unmanaged, token \notin owners[p],
           RealOpenSucceeds(p, tsk, token)
    PROVE  /\ LifecycleInv'
           /\ isOpen'[p] /\ holder'[p] = None
           /\ \A q \in Plugins : q # p => /\ isOpen'[q] = isOpen[q]
                                          /\ holder'[q] = holder[q]
                                          /\ owners'[q] = owners[q]
           /\ p \in Managed => owners'[p] = owners[p] \cup {token}
           /\ p \notin Managed => owners'[p] = owners[p]
<1>0. LifecycleAt(p) BY DEF LifecycleInv
<1>1. /\ isOpen'[p] /\ holder'[p] = None
      /\ \A q \in Plugins : q # p => isOpen'[q] = isOpen[q] /\ holder'[q] = holder[q]
  BY DEF RealOpenSucceeds, LifecycleTypeOK
<1>2. CASE p \in HasClose /\ Count(p, token)
  <2>1. p \in Managed BY <1>2 DEF Managed
  <2>2. LifecycleAt(p)'
    BY <1>0, <1>1, <1>2, <2>1, CountEffect, OneMore DEF LifecycleAt, Managed
  <2>3. \A q \in Plugins : q # p => LifecycleAt(q)'
    BY <1>1, <1>2, CountEffect DEF LifecycleInv, LifecycleAt
  <2> QED BY <1>1, <1>2, <2>1, <2>2, <2>3, CountEffect DEF LifecycleInv
<1>3. CASE p \notin HasClose /\ UNCHANGED <<references, closeFailed, owners>>
  <2>1. p \notin Managed BY <1>3 DEF Managed
  <2> QED BY <1>1, <1>3, <2>1 DEF LifecycleInv, LifecycleAt
<1> QED BY <1>2, <1>3 DEF RealOpenSucceeds

\* A real open that fails counts nothing.
LEMMA RealOpenFailsLifecycle ==
    ASSUME LifecycleTypeOK, LifecycleInv, NEW p \in Plugins, NEW tsk,
           ~isOpen[p], RealOpenFails(p, tsk)
    PROVE  /\ LifecycleInv'
           /\ holder'[p] = None
           /\ \A q \in Plugins : q # p => holder'[q] = holder[q]
           /\ UNCHANGED <<isOpen, owners>>
BY DEF LifecycleTypeOK, RealOpenFails, LifecycleInv, LifecycleAt

\* Releasing a use keeps the invariant if the use was counted.
LEMMA CloseAtOnceLifecycle ==
    ASSUME LifecycleTypeOK, LifecycleInv, NEW p \in Plugins, NEW token,
           p \in Managed => token \in owners[p], CloseAtOnce(p, token)
    PROVE  /\ LifecycleInv'
           /\ UNCHANGED <<isOpen, holder>>
           /\ owners'[p] = owners[p] \ {token}
           /\ \A q \in Plugins : q # p => owners'[q] = owners[q]
<1>0. LifecycleAt(p) BY DEF LifecycleInv
<1>1. /\ UNCHANGED <<isOpen, holder>>
      /\ holder[p] = None
      /\ owners'[p] = owners[p] \ {token}
      /\ \A q \in Plugins : q # p => owners'[q] = owners[q]
  BY DEF CloseAtOnce, LifecycleTypeOK
<1>2. CASE p \notin Managed
  <2>1. owners[p] = {} /\ ~closeFailed[p] /\ references[p] = 0
    BY <1>0, <1>2, SizeType DEF LifecycleAt
  <2>2. UNCHANGED <<references, closeFailed>> BY <2>1 DEF CloseAtOnce
  <2>3. owners'[p] = {} BY <1>1, <2>1, NoneLess
  <2> QED BY <1>0, <1>1, <1>2, <2>1, <2>2, <2>3 DEF LifecycleInv, LifecycleAt
<1>3. CASE p \in Managed
  <2>0. /\ IsFiniteSet(owners[p])
        /\ references[p] = Cardinality(owners[p])
        /\ token \in owners[p]
    BY <1>0, <1>3 DEF LifecycleAt
  <2>1. /\ IsFiniteSet(owners'[p])
        /\ Cardinality(owners'[p]) = references[p] - 1
        /\ references[p] \in Nat \ {0}
    BY <1>1, <2>0, OneLess
  <2>2. /\ references'[p] = references[p] - 1
        /\ references[p] = 1 => ~isOpen[p]
        /\ references[p] # 1 => closeFailed'[p] = closeFailed[p]
        /\ \A q \in Plugins : q # p =>
              references'[q] = references[q] /\ closeFailed'[q] = closeFailed[q]
    <3>1. p \in HasClose /\ references[p] # 0 BY <1>3, <2>1 DEF Managed
    <3>2. CASE /\ references[p] > 1
               /\ references' = [references EXCEPT ![p] = @ - 1]
               /\ UNCHANGED closeFailed
      BY <2>1, <3>2 DEF LifecycleTypeOK
    <3>3. CASE /\ references[p] = 1
               /\ ~isOpen[p]
               /\ references' = [references EXCEPT ![p] = 0]
               /\ closeFailed' = [closeFailed EXCEPT ![p] = FALSE]
      BY <3>3 DEF LifecycleTypeOK
    <3> QED BY <3>1, <3>2, <3>3 DEF CloseAtOnce
  <2>3. references[p] # 1 => owners'[p] # {}
    BY <2>1, SizeType
  <2>4. p \in Managed \ ExternallyClosed => isOpen[p]
    BY <1>0, <1>3 DEF LifecycleAt
  <2>5. LifecycleAt(p)'
    BY <1>0, <1>1, <1>3, <2>1, <2>2, <2>3, <2>4 DEF LifecycleAt, Managed
  <2>6. \A q \in Plugins : q # p => LifecycleAt(q)'
    BY <1>1, <2>2 DEF LifecycleInv, LifecycleAt
  <2> QED BY <1>1, <2>5, <2>6 DEF LifecycleInv
<1> QED BY <1>2, <1>3

\* A real close starts only when the last use was given up.
LEMMA RealCloseStartsLifecycle ==
    ASSUME LifecycleTypeOK, LifecycleInv, NEW p \in Plugins, NEW tsk, NEW token,
           tsk # None, p \in Managed => token \in owners[p], RealCloseStarts(p, tsk, token)
    PROVE  /\ LifecycleInv'
           /\ UNCHANGED isOpen
           /\ p \in Managed
           /\ owners'[p] = {} /\ owners[p] \ {token} = {}
           /\ holder'[p] = tsk
           /\ \A q \in Plugins : q # p => owners'[q] = owners[q] /\ holder'[q] = holder[q]
<1>0. LifecycleAt(p) BY DEF LifecycleInv
<1>1. p \in Managed
  <2>1. p \notin Managed => references[p] = 0 /\ ~closeFailed[p]
    BY <1>0, SizeType DEF LifecycleAt
  <2> QED BY <2>1 DEF RealCloseStarts
<1>2. references[p] = 1 /\ owners[p] \ {token} = {} /\ IsFiniteSet(owners[p] \ {token})
  <2>1. /\ IsFiniteSet(owners[p])
        /\ references[p] = Cardinality(owners[p])
        /\ token \in owners[p]
        /\ references[p] \in {0, 1}
    BY <1>0, <1>1 DEF LifecycleAt, RealCloseStarts
  <2> QED BY <2>1, OneLess
<1>3. /\ references'[p] = 0 /\ owners'[p] = {} /\ holder'[p] = tsk
      /\ UNCHANGED <<isOpen, closeFailed>>
      /\ \A q \in Plugins : q # p => /\ owners'[q] = owners[q]
                                     /\ holder'[q] = holder[q]
                                     /\ references'[q] = references[q]
  BY <1>2 DEF RealCloseStarts, LifecycleTypeOK
<1>4. LifecycleAt(p)'
  BY <1>0, <1>1, <1>2, <1>3, FS_EmptySet DEF LifecycleAt
<1>5. \A q \in Plugins : q # p => LifecycleAt(q)'
  BY <1>3 DEF LifecycleInv, LifecycleAt
<1> QED BY <1>1, <1>2, <1>3, <1>4, <1>5 DEF LifecycleInv

\* A real close that ends, in success or failure, leaves the count alone.
LEMMA RealCloseEndsLifecycle ==
    ASSUME LifecycleTypeOK, LifecycleInv, NEW p \in Plugins, NEW tsk,
           p \in Managed, owners[p] = {},
           RealCloseSucceeds(p, tsk) \/ RealCloseFails(p, tsk)
    PROVE  /\ LifecycleInv'
           /\ UNCHANGED owners
           /\ holder'[p] = None
           /\ \A q \in Plugins : q # p => isOpen'[q] = isOpen[q] /\ holder'[q] = holder[q]
<1>1. /\ UNCHANGED <<owners, references>>
      /\ holder'[p] = None
      /\ \A q \in Plugins : q # p => /\ isOpen'[q] = isOpen[q]
                                     /\ holder'[q] = holder[q]
                                     /\ closeFailed'[q] = closeFailed[q]
  BY DEF RealCloseSucceeds, RealCloseFails, LifecycleTypeOK
<1>2. ~isOpen'[p] \/ closeFailed'[p]
  BY DEF RealCloseSucceeds, RealCloseFails, LifecycleTypeOK
<1>3. LifecycleAt(p)'
  BY <1>1, <1>2 DEF LifecycleInv, LifecycleAt, Managed
<1>4. \A q \in Plugins : q # p => LifecycleAt(q)'
  BY <1>1 DEF LifecycleInv, LifecycleAt
<1> QED BY <1>1, <1>3, <1>4 DEF LifecycleInv

\* A retry with nothing to close changes nothing.
LEMMA RetryAtOnceLifecycle ==
    ASSUME LifecycleTypeOK, LifecycleInv, NEW p \in Plugins, RetryAtOnce(p)
    PROVE  LifecycleInv' /\ UNCHANGED <<isOpen, holder, owners>>
<1>1. UNCHANGED <<isOpen, holder, owners, references>> BY DEF RetryAtOnce
<1>2. /\ MustRetry(p) => ~isOpen[p]
      /\ closeFailed'[p] = (closeFailed[p] /\ ~MustRetry(p))
      /\ \A q \in Plugins : q # p => closeFailed'[q] = closeFailed[q]
  BY DEF RetryAtOnce, LifecycleTypeOK
<1>3. LifecycleAt(p)'
  BY <1>1, <1>2 DEF LifecycleInv, LifecycleAt
<1>4. \A q \in Plugins : q # p => LifecycleAt(q)'
  BY <1>1, <1>2 DEF LifecycleInv, LifecycleAt
<1> QED BY <1>1, <1>3, <1>4 DEF LifecycleInv

\* A retry starts a real close only while nobody uses the plugin.
LEMMA RetryStartsLifecycle ==
    ASSUME LifecycleTypeOK, LifecycleInv, NEW p \in Plugins, NEW tsk, tsk # None,
           RetryStarts(p, tsk)
    PROVE  /\ LifecycleInv'
           /\ UNCHANGED <<isOpen, owners>>
           /\ p \in Managed
           /\ owners[p] = {}
           /\ holder'[p] = tsk
           /\ \A q \in Plugins : q # p => holder'[q] = holder[q]
<1>1. /\ UNCHANGED <<isOpen, owners, references, closeFailed>>
      /\ holder'[p] = tsk
      /\ \A q \in Plugins : q # p => holder'[q] = holder[q]
      /\ closeFailed[p] /\ references[p] = 0
  BY DEF RetryStarts, MustRetry, LifecycleTypeOK
<1>2. p \in Managed /\ owners[p] = {}
  BY <1>1, SizeType DEF LifecycleInv, LifecycleAt
<1> QED BY <1>1, <1>2 DEF LifecycleInv, LifecycleAt

\* The application closing its plugin does not change who uses it.
LEMMA ClosedFromOutsideLifecycle ==
    ASSUME LifecycleTypeOK, LifecycleInv, NEW p \in ExternallyClosed, ClosedFromOutside(p)
    PROVE  /\ LifecycleInv'
           /\ UNCHANGED <<owners, holder>>
           /\ ~isOpen'[p]
           /\ \A q \in Plugins : q # p => isOpen'[q] = isOpen[q]
BY DEF ClosedFromOutside, LifecycleTypeOK, LifecycleInv, LifecycleAt

----------------------------------------------------------------------------
(* The calls *)

\* A move changes the label of one call.
LEMMA GotoPc ==
    ASSUME CallTypeOK, NEW k \in Calls, NEW label, Goto(k, label)
    PROVE  pc'[k] = label /\ \A j \in Calls : j # k => pc'[j] = pc[j]
BY DEF CallTypeOK, Goto

\* Calls of close and of operations do not move the opens.
LEMMA OpensStay ==
    ASSUME CallTypeOK, NEW k \in Calls \ OpenCalls, NEW label, Goto(k, label)
    PROVE  \A x \in OpenCalls : pc'[x] = pc[x]
BY DEF CallTypeOK, Goto

\* What a call captured as its connection is an open call or nothing.
LEMMA ConnTypes ==
    ASSUME CallTypeOK
    PROVE  /\ \A c \in Clients : con[c] \in OpenCalls \cup {None}
           /\ \A k \in Calls : conn[k] \in OpenCalls \cup {None}
           /\ \A k \in Calls : CallClient[k] \in Clients
BY DEF CallTypeOK

\* An assignment to what one call captured leaves the other calls alone.
LEMMA Capture ==
    ASSUME CallTypeOK, NEW k \in Calls, NEW x, conn' = [conn EXCEPT ![k] = x]
    PROVE  conn'[k] = x /\ \A j \in Calls : j # k => conn'[j] = conn[j]
BY DEF CallTypeOK

\* AbortPending kills the connection of its client and revives none.
LEMMA AbortPendingDead ==
    ASSUME CallTypeOK, NEW k \in Calls, AbortPending(k)
    PROVE  /\ \A x \in OpenCalls : dead[x] => dead'[x]
           /\ con[CallClient[k]] # None => dead'[con[CallClient[k]]]
BY ConnTypes DEF CallTypeOK, AbortPending


\* The premises of the steps of the calls.
LEMMA Unlocked ==
    ASSUME NEW c, NEW j \in Calls, CallClient[j] = c
    PROVE  /\ LockFree(c) => pc[j] \notin Exclusive \cup Shared
           /\ NoWriter(c) => pc[j] \notin Exclusive
BY DEF LockFree, NoWriter

\* A call that moves on without a change of the connections.
LEMMA MoveConnection ==
    ASSUME CallTypeOK, ConnectionInv, NEW k \in Calls, NEW label, Goto(k, label),
           pc[k] # "done", label # "ready",
           k \in OpenCalls /\ label = "opening" => con[CallClient[k]] = None,
           UNCHANGED <<con, conn, dead>>
    PROVE  ConnectionInv'
<1>1. pc'[k] = label /\ \A j \in Calls : j # k => pc'[j] = pc[j]
  BY GotoPc
<1> QED BY <1>1, ConnTypes DEF ConnectionInv

\* A call may move where its lock allows without breaking the exclusion.
LEMMA MoveExclusion ==
    ASSUME CallTypeOK, ExclusionInv, NEW k \in Calls, NEW label, Goto(k, label),
           label \in Exclusive => pc[k] \in Exclusive \/ LockFree(CallClient[k]),
           label \in Shared => pc[k] \in Shared \/ NoWriter(CallClient[k]),
           k \in CloseCalls /\ label # "done" =>
              \/ pc[k] \notin {"ready", "done"}
              \/ \A j \in CloseCalls :
                    CallClient[j] = CallClient[k] => pc[j] \in {"ready", "done"}
    PROVE  ExclusionInv'
<1>1. pc'[k] = label /\ \A j \in Calls : j # k => pc'[j] = pc[j]
  BY GotoPc
<1>2. ASSUME NEW i \in Calls, NEW j \in Calls, CallClient[i] = CallClient[j],
             pc'[i] \in Exclusive, pc'[j] \in Exclusive \cup Shared, i # j
      PROVE  FALSE
  <2>1. CASE i = k
    <3>1. pc[j] \in Exclusive \cup Shared BY <1>1, <1>2, <2>1
    <3> QED BY <1>1, <1>2, <2>1, <3>1, Unlocked DEF ExclusionInv
  <2>2. CASE j = k
    <3>1. pc[i] \in Exclusive BY <1>1, <1>2, <2>2
    <3>2. pc[k] \notin Exclusive \cup Shared BY <1>2, <2>2, <3>1 DEF ExclusionInv
    <3> QED BY <1>1, <1>2, <2>2, <3>1, <3>2, Unlocked
  <2>3. CASE i # k /\ j # k
    BY <1>1, <1>2, <2>3 DEF ExclusionInv
  <2> QED BY <2>1, <2>2, <2>3
<1>3. ASSUME NEW i \in CloseCalls, NEW j \in CloseCalls, CallClient[i] = CallClient[j],
             pc'[i] \notin {"ready", "done"}, pc'[j] \notin {"ready", "done"}, i # j
      PROVE  FALSE
  BY <1>1, <1>3 DEF ExclusionInv
<1> QED BY <1>2, <1>3 DEF ExclusionInv

\* A close that keeps the connections and the signals as they are.
LEMMA MoveClose ==
    ASSUME CallTypeOK, CloseInv, NEW k \in Calls, NEW label, Goto(k, label),
           k \in CloseCalls /\ label \in {"closeIo", "closeGranted", "closing", "retrying"} =>
              con[CallClient[k]] = conn[k],
           k \in CloseCalls => label # "disposing",
           k \in CloseCalls /\ label = "failedEarly" =>
              aborted[k] \/ con[CallClient[k]] # conn[k],
           UNCHANGED <<con, aborted>>,
           \A j \in CloseCalls : conn'[j] = conn[j] \/ (j = k /\ label = "closeLock")
    PROVE  CloseInv'
<1>1. pc'[k] = label /\ \A j \in Calls : j # k => pc'[j] = pc[j]
  BY GotoPc
<1> QED BY <1>1 DEF CloseInv

\* The steps of calls that leave the connections and their controllers alone.
OpenMoves(k) ==
    \/ OpenCall(k) \/ OpenLock(k) \/ OpenRefused(k) \/ OpenLockAborted(k)
    \/ OpenFailed(k) \/ RollbackDone(k)
CloseMoves(k) ==
    \/ CloseLock(k) \/ CloseLockLate(k) \/ CloseIo(k) \/ CloseAborted(k)
    \/ CloseStart(k) \/ CloseStartAborted(k) \/ CloseFailed(k) \/ CloseRetried(k)
    \/ CloseOutrun(k) \/ DisposeDone(k)
OperationMoves(k) ==
    \/ OperationRefused(k) \/ OperationLock(k) \/ OperationStart(k)
    \/ OperationLockAborted(k) \/ OperationDone(k) \/ StreamDispose(k)

\* The step of a call.
CallStep(k) == OpenStep(k) \/ CloseStep(k) \/ OperationStep(k) \/ StreamDispose(k)

\* The steps of the calls, sorted by what they do to the connections.
LEMMA CallSteps ==
    ASSUME NEW k, CallStep(k)
    PROVE  \/ OpenMoves(k) \/ CloseMoves(k) \/ OperationMoves(k)
           \/ OpenDone(k) \/ CloseCall(k) \/ CloseRefused(k)
           \/ CloseDone(k) \/ CloseDiscard(k) \/ CloseDispose(k)
           \/ OperationCall(k)
BY DEF CallStep, OpenStep, CloseStep, OperationStep, OpenMoves, CloseMoves, OperationMoves

\* A close that discards the connection.
LEMMA Discards ==
    ASSUME CallTypeOK, CloseInv, NEW k \in Calls,
           CloseDone(k) \/ CloseDiscard(k) \/ CloseDispose(k)
    PROVE  /\ k \in CloseCalls /\ k \notin OpenCalls
           /\ conn[k] # None
           /\ con[CallClient[k]] = conn[k]
           /\ pc[k] \in {"closing", "failedLate", "failedEarly"}
           /\ con'[CallClient[k]] = None
           /\ \A c \in Clients : c # CallClient[k] => con'[c] = con[c]
           /\ UNCHANGED <<lifecycleVars, conn, dead, aborted, abandoned>>
           /\ \E label \in {"done", "disposing"} : Goto(k, label)
<1>1. k \in CloseCalls /\ conn[k] # None /\ pc[k] \in {"closing", "failedLate", "failedEarly"}
  BY Kinds DEF CloseDone, CloseDiscard, CloseDispose, CloseLabels, CallTypeOK
<1>2. con[CallClient[k]] = conn[k]
  BY <1>1 DEF CloseDone, CloseDiscard, CloseDispose, CloseInv
<1>3. con' = [con EXCEPT ![CallClient[k]] = None]
  BY DEF CloseDone, CloseDiscard, CloseDispose
<1>4. /\ UNCHANGED <<lifecycleVars, conn, dead, aborted, abandoned>>
      /\ \E label \in {"done", "disposing"} : Goto(k, label)
  BY DEF CloseDone, CloseDiscard, CloseDispose
<1> QED BY <1>1, <1>2, <1>3, <1>4, ConnTypes DEF CallTypeOK

\* An open that publishes its connection.
LEMMA Publishes ==
    ASSUME CallTypeOK, NEW k \in Calls, OpenDone(k)
    PROVE  /\ k \in OpenCalls /\ k \notin CloseCalls /\ k \notin Operations
           /\ pc[k] = "opening"
           /\ Goto(k, "done")
           /\ con'[CallClient[k]] = k
           /\ \A c \in Clients : c # CallClient[k] => con'[c] = con[c]
           /\ UNCHANGED <<lifecycleVars, conn, dead, aborted, task, abandoned>>
           /\ ~dead[k]
<1>1. k \in OpenCalls BY Kinds DEF OpenDone, OpenLabels
<1> QED BY <1>1, ConnTypes DEF OpenDone, CallTypeOK, Aborted

\* A step of a call keeps the relation of connections and calls.
LEMMA ConnectionStep ==
    ASSUME CallTypeOK, ConnectionInv, ExclusionInv, CloseInv, NEW k \in Calls, CallStep(k)
    PROVE  ConnectionInv'
<1>1. CASE OpenMoves(k)
  BY <1>1, MoveConnection
  DEF OpenMoves, OpenCall, OpenLock, OpenRefused, OpenLockAborted, OpenFailed, RollbackDone
<1>2. CASE CloseMoves(k)
  BY <1>2, MoveConnection
  DEF CloseMoves, CloseLock, CloseLockLate, CloseIo, CloseAborted, CloseStart,
      CloseStartAborted, CloseFailed, CloseRetried, CloseOutrun, DisposeDone
<1>3. CASE OperationMoves(k)
  BY <1>3, MoveConnection
  DEF OperationMoves, OperationRefused, OperationLock, OperationStart,
      OperationLockAborted, OperationDone, StreamDispose
<1>4. CASE OpenDone(k)
  <2>1. pc'[k] = "done" /\ \A j \in Calls : j # k => pc'[j] = pc[j]
    BY <1>4, Publishes, GotoPc
  <2>2. \A x \in OpenCalls : pc'[x] = "opening" => CallClient[x] # CallClient[k]
    BY <1>4, <2>1, Publishes DEF ExclusionInv, Exclusive
  <2> QED BY <1>4, <2>1, <2>2, Publishes, ConnTypes DEF ConnectionInv
<1>5. CASE CloseCall(k)
  <2>1. k \in CloseCalls /\ k \notin OpenCalls /\ con[CallClient[k]] # None /\ UNCHANGED con
    BY <1>5 DEF CloseCall
  <2>2. /\ conn'[k] = con[CallClient[k]]
        /\ \A j \in Calls : j # k => conn'[j] = conn[j]
    BY <1>5, Capture DEF CloseCall
  <2>3. /\ pc'[k] = "closeLock"
        /\ \A j \in Calls : j # k => pc'[j] = pc[j]
        /\ \A x \in OpenCalls : pc'[x] = pc[x]
    BY <1>5, <2>1, GotoPc, OpensStay DEF CloseCall
  <2>4. /\ \A x \in OpenCalls : dead[x] => dead'[x]
        /\ dead'[con[CallClient[k]]]
    BY <1>5, <2>1, AbortPendingDead DEF CloseCall
  <2> QED BY <2>1, <2>2, <2>3, <2>4, ConnTypes DEF ConnectionInv
<1>6. CASE CloseRefused(k)
  <2>1. k \in CloseCalls /\ k \notin OpenCalls /\ UNCHANGED <<con, conn>>
    BY <1>6 DEF CloseRefused
  <2>2. /\ pc'[k] = "done"
        /\ \A j \in Calls : j # k => pc'[j] = pc[j]
        /\ \A x \in OpenCalls : pc'[x] = pc[x]
    BY <1>6, <2>1, GotoPc, OpensStay DEF CloseRefused
  <2>3. \A x \in OpenCalls : dead[x] => dead'[x]
    BY <1>6, AbortPendingDead DEF CloseRefused
  <2> QED BY <2>1, <2>2, <2>3, ConnTypes DEF ConnectionInv
<1>7. CASE CloseDone(k) \/ CloseDiscard(k) \/ CloseDispose(k)
  <2>1. PICK label \in {"done", "disposing"} : Goto(k, label)
    BY <1>7, Discards
  <2>2. /\ pc'[k] = label
        /\ \A j \in Calls : j # k => pc'[j] = pc[j]
        /\ \A x \in OpenCalls : pc'[x] = pc[x]
    BY <1>7, <2>1, GotoPc, OpensStay, Discards
  <2> QED BY <1>7, <2>1, <2>2, Discards, ConnTypes DEF ConnectionInv
<1>8. CASE OperationCall(k)
  <2>1. /\ k \in Operations /\ k \notin OpenCalls /\ k \notin CloseCalls
        /\ con[CallClient[k]] # None
        /\ UNCHANGED <<con, dead>>
    BY <1>8 DEF OperationCall
  <2>2. /\ conn'[k] = con[CallClient[k]]
        /\ \A j \in Calls : j # k => conn'[j] = conn[j]
    BY <1>8, Capture DEF OperationCall
  <2>3. /\ pc'[k] = "operationLock"
        /\ \A j \in Calls : j # k => pc'[j] = pc[j]
        /\ \A x \in OpenCalls : pc'[x] = pc[x]
    BY <1>8, <2>1, GotoPc, OpensStay DEF OperationCall
  <2> QED BY <2>1, <2>2, <2>3, ConnTypes DEF ConnectionInv
<1> QED BY <1>1, <1>2, <1>3, <1>4, <1>5, <1>6, <1>7, <1>8, CallSteps

\* A step of a call keeps open and close exclusive on the instance lock.
LEMMA ExclusionStep ==
    ASSUME ConcurrentClose = FALSE, CallTypeOK, ExclusionInv, NEW k \in Calls, CallStep(k)
    PROVE  ExclusionInv'
<1>1. CASE OpenStep(k)
  <2>1. k \notin CloseCalls
    BY <1>1, Kinds
    DEF OpenStep, OpenCall, OpenLock, OpenRefused, OpenLockAborted, OpenDone, OpenFailed,
        RollbackDone, OpenLabels
  <2> QED
    BY <1>1, <2>1, MoveExclusion
    DEF Exclusive, Shared, OpenStep, OpenCall, OpenLock, OpenRefused, OpenLockAborted,
        OpenDone, OpenFailed, RollbackDone
<1>2. CASE CloseStep(k)
  BY <1>2, MoveExclusion
  DEF Exclusive, Shared, CloseStep, CloseCall, CloseRefused, CloseLock, CloseLockLate, CloseIo,
      CloseAborted, CloseStart, CloseStartAborted, CloseDone, CloseFailed, CloseRetried,
      CloseDiscard, CloseDispose, CloseOutrun, DisposeDone
<1>3. CASE OperationStep(k) \/ StreamDispose(k)
  <2>1. k \notin CloseCalls
    BY <1>3, Kinds
    DEF OperationStep, OperationCall, OperationRefused, OperationLock, OperationStart,
        OperationLockAborted, OperationDone, StreamDispose, OperationLabels
  <2> QED
    BY <1>3, <2>1, MoveExclusion
    DEF Exclusive, Shared, OperationStep, OperationCall, OperationRefused, OperationLock,
        OperationStart, OperationLockAborted, OperationDone, StreamDispose
<1> QED BY <1>1, <1>2, <1>3 DEF CallStep

\* A step of a call keeps what the stages of a close promise.
LEMMA CloseInvStep ==
    ASSUME CallTypeOK, ConnectionInv, ExclusionInv, CloseInv, NEW k \in Calls, CallStep(k)
    PROVE  CloseInv'
<1>1. CASE OpenMoves(k)
  <2>1. k \notin CloseCalls
    BY <1>1, Kinds
    DEF OpenMoves, OpenCall, OpenLock, OpenRefused, OpenLockAborted, OpenFailed,
        RollbackDone, OpenLabels
  <2> QED
    BY <1>1, <2>1, MoveClose
    DEF OpenMoves, OpenCall, OpenLock, OpenRefused, OpenLockAborted, OpenFailed, RollbackDone
<1>2. CASE CloseMoves(k)
  <2>1. k \in CloseCalls
    BY <1>2, Kinds
    DEF CloseMoves, CloseLock, CloseLockLate, CloseIo, CloseAborted, CloseStart,
        CloseStartAborted, CloseFailed, CloseRetried, CloseOutrun, DisposeDone, CloseLabels
  <2>2. Aborted(k) => aborted[k]
    BY <2>1 DEF Aborted
  <2> QED
    BY <1>2, <2>1, <2>2, MoveClose
    DEF CloseInv, CloseMoves, CloseLock, CloseLockLate, CloseIo, CloseAborted, CloseStart,
        CloseStartAborted, CloseFailed, CloseRetried, CloseOutrun, DisposeDone
<1>3. CASE OperationMoves(k) \/ OperationCall(k)
  <2>1. k \in Operations /\ k \notin CloseCalls
    BY <1>3, Kinds
    DEF OperationMoves, OperationCall, OperationRefused, OperationLock, OperationStart,
        OperationLockAborted, OperationDone, StreamDispose, OperationLabels
  <2>2. \A j \in CloseCalls : conn'[j] = conn[j]
    BY <1>3, <2>1, Capture
    DEF OperationMoves, OperationCall, OperationRefused, OperationLock, OperationStart,
        OperationLockAborted, OperationDone, StreamDispose
  <2> QED
    BY <1>3, <2>1, <2>2, MoveClose
    DEF OperationMoves, OperationCall, OperationRefused, OperationLock, OperationStart,
        OperationLockAborted, OperationDone, StreamDispose
<1>4. CASE OpenDone(k)
  <2>1. \A j \in Calls : j # k => pc'[j] = pc[j]
    BY <1>4, Publishes, GotoPc
  <2>2. \A j \in CloseCalls : CallClient[j] = CallClient[k] =>
           pc[j] \notin {"closeIo", "closeGranted", "closing", "retrying"}
    BY <1>4, Publishes DEF ExclusionInv, Exclusive
  <2>3. \A j \in CloseCalls : conn[j] # k
    BY <1>4, Publishes DEF ConnectionInv
  <2>4. pc[k] = "opening" => con[CallClient[k]] = None
    BY <1>4, Publishes DEF ConnectionInv
  <2> QED BY <1>4, <2>1, <2>2, <2>3, <2>4, Publishes, ConnTypes DEF CloseInv, CallTypeOK
<1>5. CASE CloseCall(k)
  <2>1. \A j \in CloseCalls : j # k => conn'[j] = conn[j]
    BY <1>5, Capture DEF CloseCall
  <2> QED BY <1>5, <2>1, MoveClose DEF CloseCall
<1>6. CASE CloseRefused(k)
  BY <1>6, MoveClose DEF CloseRefused
<1>7. CASE CloseDone(k) \/ CloseDiscard(k) \/ CloseDispose(k)
  <2>1. PICK label \in {"done", "disposing"} : Goto(k, label)
    BY <1>7, Discards
  <2>2. pc'[k] = label /\ \A j \in Calls : j # k => pc'[j] = pc[j]
    BY <1>7, <2>1, GotoPc
  <2>3. \A j \in CloseCalls : CallClient[j] = CallClient[k] /\ j # k => pc[j] \in {"ready", "done"}
    BY <1>7, Discards DEF ExclusionInv
  <2> QED BY <1>7, <2>1, <2>2, <2>3, Discards, ConnTypes DEF CloseInv
<1> QED BY <1>1, <1>2, <1>3, <1>4, <1>5, <1>6, <1>7, CallSteps

\* A connection that a close gave up waiting for stays one.
LEMMA ForcedStays ==
    ASSUME CallTypeOK, ConnectionInv,
           \A j \in CloseCalls : aborted[j] => aborted'[j],
           \A j \in CloseCalls : pc[j] # "ready" => conn'[j] = conn[j],
           NEW x \in OpenCalls, Forced(x)
    PROVE  Forced(x)'
<1>1. PICK j \in CloseCalls : conn[j] = x /\ aborted[j] BY DEF Forced
<1>2. pc[j] # "ready" BY <1>1, ConnTypes DEF ConnectionInv
<1> QED BY <1>1, <1>2 DEF Forced

\* The calls that know a connection of a client are calls of that client.
LEMMA SameClient ==
    ASSUME ConnectionInv, NEW j \in CloseCalls, NEW k \in Operations,
           conn[j] = conn[k], conn[k] # None
    PROVE  CallClient[j] = CallClient[k] /\ dead[conn[k]]
BY DEF ConnectionInv

\* The labels of a close that is at the plugins or past them.
AtPlugins == {"closeGranted", "closing", "retrying", "failedLate"}
InOperation == {"operationGranted", "running", "streaming"}

\* A step of a call keeps what running operations rely on.
LEMMA OperationInvStep ==
    ASSUME CallTypeOK, ConnectionInv, ExclusionInv, CloseInv, OperationInv,
           NEW k \in Calls, CallStep(k)
    PROVE  OperationInv'
<1> USE DEF AtPlugins, InOperation
<1>t. \A i \in Operations : pc[i] \in InOperation => conn[i] \in OpenCalls
  BY DEF CallTypeOK
<1>1. CASE OpenMoves(k)
  <2>1. k \in OpenCalls /\ UNCHANGED <<con, conn, dead, aborted>>
    BY <1>1, Kinds
    DEF OpenMoves, OpenCall, OpenLock, OpenRefused, OpenLockAborted, OpenFailed,
        RollbackDone, OpenLabels
  <2>2. \A j \in CloseCalls \cup Operations : pc'[j] = pc[j]
    BY <1>1, <2>1, GotoPc
    DEF OpenMoves, OpenCall, OpenLock, OpenRefused, OpenLockAborted, OpenFailed, RollbackDone
  <2> QED BY <2>1, <2>2 DEF OperationInv, Forced
<1>2. CASE CloseMoves(k)
  <2>1. k \in CloseCalls /\ UNCHANGED <<con, conn, dead, aborted>>
    BY <1>2, Kinds
    DEF CloseMoves, CloseLock, CloseLockLate, CloseIo, CloseAborted, CloseStart,
        CloseStartAborted, CloseFailed, CloseRetried, CloseOutrun, DisposeDone, CloseLabels
  <2>2. /\ \A j \in Calls : j # k => pc'[j] = pc[j]
        /\ pc'[k] \in AtPlugins =>
              \/ pc[k] \in AtPlugins
              \/ pc[k] = "closeIo" /\ IoFree(conn[k])
    BY <1>2, GotoPc
    DEF CloseMoves, CloseLock, CloseLockLate, CloseIo, CloseAborted, CloseStart,
        CloseStartAborted, CloseFailed, CloseRetried, CloseOutrun, DisposeDone
  <2>3. ASSUME NEW i \in Operations, pc[i] \in InOperation, conn[i] = conn[k],
               pc[k] = "closeIo", IoFree(conn[k])
        PROVE  FALSE
    <3>1. CallClient[k] = CallClient[i] BY <1>t, <2>1, <2>3, SameClient
    <3>2. pc[i] \notin Shared BY <2>1, <2>3, <3>1 DEF ExclusionInv, Exclusive
    <3>3. pc[i] # "streaming" BY <2>3 DEF IoFree
    <3> QED BY <2>3, <3>2, <3>3 DEF Shared
  <2>4. \A i \in Operations : pc'[i] = pc[i] BY <2>1, <2>2
  <2> QED BY <2>1, <2>2, <2>3, <2>4 DEF OperationInv, Forced
<1>3. CASE OperationMoves(k)
  <2>1. k \in Operations /\ UNCHANGED <<con, conn, dead, aborted>>
    BY <1>3, Kinds
    DEF OperationMoves, OperationRefused, OperationLock, OperationStart,
        OperationLockAborted, OperationDone, StreamDispose, OperationLabels
  <2>2. /\ \A j \in Calls : j # k => pc'[j] = pc[j]
        /\ pc'[k] \in InOperation =>
              \/ pc[k] \in InOperation
              \/ pc[k] = "operationLock" /\ ~Aborted(k)
    BY <1>3, GotoPc
    DEF OperationMoves, OperationRefused, OperationLock, OperationStart,
        OperationLockAborted, OperationDone, StreamDispose
  <2>3. pc[k] = "operationLock" /\ ~Aborted(k) =>
           conn[k] \in OpenCalls /\ ~dead[conn[k]]
    BY <2>1 DEF Aborted, CallTypeOK
  <2>4. pc[k] = "operationLock" /\ ~Aborted(k) => \A j \in CloseCalls : conn[j] # conn[k]
    BY <2>1, <2>3, SameClient, ConnTypes
  <2> QED BY <2>1, <2>2, <2>3, <2>4, ConnTypes DEF OperationInv, Forced
<1>4. CASE OpenDone(k)
  <2>1. \A j \in CloseCalls \cup Operations : pc'[j] = pc[j]
    BY <1>4, Publishes, GotoPc
  <2>2. pc[k] = "opening" /\ con[CallClient[k]] = None
    BY <1>4, Publishes DEF ConnectionInv
  <2> QED BY <1>t, <1>4, <2>1, <2>2, Publishes, ConnTypes DEF OperationInv, Forced
<1>5. CASE CloseCall(k)
  <2>1. k \in CloseCalls /\ k \notin Operations /\ pc[k] = "ready" /\ UNCHANGED <<con, aborted>>
    BY <1>5 DEF CloseCall
  <2>2. \A j \in Calls : j # k => conn'[j] = conn[j]
    BY <1>5, Capture DEF CloseCall
  <2>3. pc'[k] = "closeLock" /\ \A j \in Calls : j # k => pc'[j] = pc[j]
    BY <1>5, GotoPc DEF CloseCall
  <2>4. \A x \in OpenCalls : dead[x] => dead'[x]
    BY <1>5, AbortPendingDead DEF CloseCall
  <2>5. \A x \in OpenCalls : Forced(x) => Forced(x)'
    BY <2>1, <2>2, ForcedStays
  <2>6. \A i \in Operations : /\ pc'[i] = pc[i] /\ conn'[i] = conn[i]
                              /\ conn[i] \in OpenCalls \cup {None}
    BY <2>1, <2>2, <2>3, ConnTypes
  <2> QED BY <1>t, <2>1, <2>2, <2>3, <2>4, <2>5, <2>6 DEF OperationInv
<1>6. CASE CloseRefused(k)
  <2>1. k \in CloseCalls /\ UNCHANGED <<con, conn, aborted>>
    BY <1>6 DEF CloseRefused
  <2>2. pc'[k] = "done" /\ \A j \in Calls : j # k => pc'[j] = pc[j]
    BY <1>6, GotoPc DEF CloseRefused
  <2>3. \A x \in OpenCalls : dead[x] => dead'[x]
    BY <1>6, AbortPendingDead DEF CloseRefused
  <2>4. \A i \in Operations : pc'[i] = pc[i] /\ conn[i] \in OpenCalls \cup {None}
    BY <2>1, <2>2, ConnTypes
  <2> QED BY <1>t, <2>1, <2>2, <2>3, <2>4 DEF OperationInv, Forced
<1>7. CASE CloseDone(k) \/ CloseDiscard(k) \/ CloseDispose(k)
  <2>1. PICK label \in {"done", "disposing"} : Goto(k, label)
    BY <1>7, Discards
  <2>2. pc'[k] = label /\ \A j \in Calls : j # k => pc'[j] = pc[j]
    BY <1>7, <2>1, GotoPc
  <2>3. \A i \in Operations : pc'[i] = pc[i] /\ conn'[i] = conn[i]
    BY <1>7, <2>2, Discards
  <2>4. dead[conn[k]] /\ UNCHANGED <<conn, dead, aborted>>
    BY <1>7, Discards DEF ConnectionInv
  <2>5. pc[k] = "failedEarly" => Forced(conn[k])
    BY <1>7, Discards DEF CloseInv, Forced
  <2>6. \A i \in Operations :
           con[CallClient[i]] = conn[i] /\ CallClient[i] = CallClient[k] => conn[i] = conn[k]
    BY <1>7, Discards
  <2>7. ASSUME NEW i \in Operations, pc[i] \in InOperation, ~Forced(conn[i])
        PROVE  CallClient[i] # CallClient[k]
    <3>1. /\ con[CallClient[i]] = conn[i]
          /\ conn[k] = conn[i] => pc[k] \notin AtPlugins
      BY <1>7, <2>7, Discards DEF OperationInv
    <3> QED BY <1>7, <2>5, <2>6, <2>7, <3>1, Discards
  <2>8. \A i \in Operations : conn[i] # None /\ ~dead[conn[i]] => CallClient[i] # CallClient[k]
    BY <2>4, <2>6 DEF OperationInv
  <2>9. \A i \in Operations : con'[CallClient[i]] = con[CallClient[i]] \/ CallClient[i] = CallClient[k]
    BY <1>7, Discards, ConnTypes
  <2> QED BY <2>1, <2>2, <2>3, <2>4, <2>7, <2>8, <2>9 DEF OperationInv, Forced
<1>8. CASE OperationCall(k)
  <2>1. /\ k \in Operations /\ k \notin OpenCalls /\ k \notin CloseCalls
        /\ pc[k] = "ready"
        /\ UNCHANGED <<con, dead, aborted>>
    BY <1>8 DEF OperationCall
  <2>2. /\ conn'[k] = con[CallClient[k]]
        /\ \A j \in Calls : j # k => conn'[j] = conn[j]
    BY <1>8, Capture DEF OperationCall
  <2>3. pc'[k] = "operationLock" /\ \A j \in Calls : j # k => pc'[j] = pc[j]
    BY <1>8, GotoPc DEF OperationCall
  <2>4. \A j \in CloseCalls : pc'[j] = pc[j] /\ conn'[j] = conn[j]
    BY <2>1, <2>2, <2>3
  <2>5. \A x : Forced(x)' <=> Forced(x) BY <2>1, <2>4 DEF Forced
  <2> QED BY <2>1, <2>2, <2>3, <2>4, <2>5 DEF OperationInv
<1> QED BY <1>1, <1>2, <1>3, <1>4, <1>5, <1>6, <1>7, <1>8, CallSteps

----------------------------------------------------------------------------
(* The tasks *)

\* Two running calls never have the same token to release, and the token of an
\* open that is still opening plugins belongs to nobody else.
LEMMA OwnToken ==
    ASSUME CallTypeOK, ConnectionInv, ExclusionInv,
           NEW j \in Calls, NEW k \in Calls, j # k,
           pc[j] \in Closers, pc[k] \in Closers \cup {"opening"}
    PROVE  Target(j) # Target(k)
<1>1. (j \in OpenCalls \/ j \in CloseCalls) /\ (k \in OpenCalls \/ k \in CloseCalls)
  BY Kinds DEF Closers, OpenLabels, CloseLabels
<1>2. /\ j \in CloseCalls => conn[j] # None /\ pc[conn[j]] = "done" /\ CallClient[conn[j]] = CallClient[j]
      /\ k \in CloseCalls => conn[k] # None /\ pc[conn[k]] = "done" /\ CallClient[conn[k]] = CallClient[k]
  BY DEF CallTypeOK, ConnectionInv, Closers
<1>3. CASE j \in CloseCalls /\ k \in CloseCalls
  BY <1>2, <1>3 DEF Target, ExclusionInv, Closers
<1>4. CASE j \in OpenCalls /\ k \in OpenCalls BY <1>4 DEF Target
<1>5. CASE j \in OpenCalls /\ k \in CloseCalls BY <1>2, <1>5 DEF Target, Closers
<1>6. CASE j \in CloseCalls /\ k \in OpenCalls BY <1>2, <1>6 DEF Target, Closers
<1> QED BY <1>1, <1>3, <1>4, <1>5, <1>6

\* A step of a task that changes its plugin only while no other task is inside.
LEMMA TaskInvStep ==
    ASSUME TypeOK, TaskInv, NEW k \in Calls, NEW s \in Slots, NEW label \in TaskLabels,
           Step(k, s, label), UNCHANGED pc,
           NEW p, p = SlotPlugin[s],
           task[k][s] # "none",
           pc[k] = "opening" => label \in {"wait", "busy", "ok", "failed"},
           holder[p] \in {None, <<k, s>>} \/ UNCHANGED <<isOpen, holder, owners>>,
           \A q \in Plugins : q # p =>
              isOpen'[q] = isOpen[q] /\ holder'[q] = holder[q] /\ owners'[q] = owners[q],
           label \in {"busy", "retryBusy"} => holder'[p] = <<k, s>>,
           pc[k] = "opening" /\ label = "busy" => p \in HasOpen \ Unmanaged /\ ~isOpen'[p],
           (pc[k] \in Closers /\ label = "busy") \/ label = "retryBusy" =>
              p \in Managed /\ owners'[p] = {}
    PROVE  TaskInv'
<1> SUFFICES ASSUME NEW j \in Calls, NEW r \in Slots
             PROVE /\ task'[j][r] # "none" => SlotClient[r] = CallClient[j]
                   /\ pc'[j] = "opening" /\ SlotClient[r] = CallClient[j]
                         => task'[j][r] \in {"wait", "busy", "ok", "failed"}
                   /\ task'[j][r] \in {"busy", "retryBusy"} => holder'[SlotPlugin[r]] = <<j, r>>
                   /\ pc'[j] = "opening" /\ task'[j][r] = "busy" =>
                         SlotPlugin[r] \in HasOpen \ Unmanaged /\ ~isOpen'[SlotPlugin[r]]
                   /\ (pc'[j] \in Closers /\ task'[j][r] = "busy") \/ task'[j][r] = "retryBusy" =>
                         SlotPlugin[r] \in Managed /\ owners'[SlotPlugin[r]] = {}
  BY DEF TaskInv
<1>1. CASE j = k /\ r = s
  <2>1. task'[j][r] = label BY <1>1, StepTasks DEF TypeOK
  <2>2. SlotClient[r] = CallClient[j] BY <1>1 DEF TaskInv
  <2> QED BY <1>1, <2>1, <2>2
<1>2. CASE <<j, r>> # <<k, s>>
  <2>1. task'[j][r] = task[j][r] BY <1>2, StepTasks DEF TypeOK
  <2>2. task[j][r] \in {"busy", "retryBusy"} =>
           /\ isOpen'[SlotPlugin[r]] = isOpen[SlotPlugin[r]]
           /\ holder'[SlotPlugin[r]] = holder[SlotPlugin[r]]
           /\ owners'[SlotPlugin[r]] = owners[SlotPlugin[r]]
    <3>1. task[j][r] \in {"busy", "retryBusy"} => holder[SlotPlugin[r]] = <<j, r>>
      BY DEF TaskInv
    <3>2. SlotPlugin[r] \in Plugins /\ <<j, r>> # None OBVIOUS
    <3> QED BY <1>2, <3>1, <3>2
  <2> QED BY <2>1, <2>2 DEF TaskInv
<1> QED BY <1>1, <1>2

\* A step of a task that counts and releases nothing.
LEMMA UseSame ==
    ASSUME TypeOK, UseInv, NEW k \in Calls, NEW s \in Slots, NEW label \in TaskLabels,
           Step(k, s, label), UNCHANGED <<con, pc, conn, owners>>,
           label \notin {"ok", "wait"}, task[k][s] # "ok"
    PROVE  UseInv'
<1>1. /\ task'[k][s] = label
      /\ \A j \in Calls, r \in Slots : <<j, r>> # <<k, s>> => task'[j][r] = task[j][r]
  BY StepTasks DEF TypeOK
<1>2. \A j \in Calls, r \in Slots : /\ task'[j][r] = "ok" <=> task[j][r] = "ok"
                                    /\ task'[j][r] = "wait" => task[j][r] = "wait"
  BY <1>1
<1> QED BY <1>2 DEF UseInv, Token, Target

\* A step of an open that counts a use.
LEMMA UseAdded ==
    ASSUME TypeOK, UseInv, NEW k \in Calls, NEW s \in Slots,
           Step(k, s, "ok"), UNCHANGED <<con, pc, conn>>,
           pc[k] = "opening", k \in OpenCalls, NEW p, p = SlotPlugin[s],
           \A q \in Plugins : q # p => owners'[q] = owners[q],
           p \in Managed => owners'[p] = owners[p] \cup {Token(k, s)},
           p \notin Managed => owners'[p] = owners[p]
    PROVE  UseInv'
<1>1. /\ task'[k][s] = "ok"
      /\ \A j \in Calls, r \in Slots : <<j, r>> # <<k, s>> => task'[j][r] = task[j][r]
  BY StepTasks DEF TypeOK, TaskLabels
<1>2. Token(k, s) = <<k, s>> BY DEF Token, Target
<1>3. \A t : \A q \in Plugins : t # <<k, s>> => (t \in owners'[q] <=> t \in owners[q])
  BY <1>2
<1>4. \A t : \A q \in Plugins : t \in owners[q] => t \in owners'[q]
  BY <1>2
<1>5. p \in Managed => <<k, s>> \in owners'[p] BY <1>2
<1>6. \A j \in Calls, r \in Slots : task'[j][r] = "wait" => task[j][r] = "wait"
  BY <1>1
<1>7. \A x \in OpenCalls, r \in Slots : pc[x] \in {"ready", "openLock"} => <<x, r>> # <<k, s>>
  OBVIOUS
<1>8. \A x \in OpenCalls, r \in Slots :
         pc'[x] \in {"ready", "openLock"} => <<x, r>> \notin owners'[SlotPlugin[r]]
  BY <1>3, <1>7 DEF UseInv
<1>9. \A x \in OpenCalls, r \in Slots :
         pc'[x] = "opening" /\ SlotPlugin[r] \in Managed =>
             (<<x, r>> \in owners'[SlotPlugin[r]] <=> task'[x][r] = "ok")
  <2> SUFFICES ASSUME NEW x \in OpenCalls, NEW r \in Slots, pc[x] = "opening", SlotPlugin[r] \in Managed
               PROVE  <<x, r>> \in owners'[SlotPlugin[r]] <=> task'[x][r] = "ok"
    OBVIOUS
  <2>1. CASE <<x, r>> = <<k, s>> BY <1>1, <1>5, <2>1
  <2>2. CASE <<x, r>> # <<k, s>>
    <3>1. task'[x][r] = task[x][r] BY <1>1, <2>2
    <3>2. <<x, r>> \in owners'[SlotPlugin[r]] <=> <<x, r>> \in owners[SlotPlugin[r]]
      BY <1>3, <2>2
    <3> QED BY <3>1, <3>2 DEF UseInv
  <2> QED BY <2>1, <2>2
<1>10. \A j \in Calls, r \in Slots :
          pc'[j] \in Closers /\ task'[j][r] = "wait" /\ SlotPlugin[r] \in Managed =>
             Token(j, r)' \in owners'[SlotPlugin[r]]
  BY <1>4, <1>6 DEF UseInv, Token, Target
<1>11. \A c \in Clients, r \in Slots :
          con'[c] # None /\ SlotClient[r] = c /\ SlotPlugin[r] \in Managed =>
             \/ <<con'[c], r>> \in owners'[SlotPlugin[r]]
             \/ \E j \in CloseCalls :
                   conn'[j] = con'[c] /\ pc'[j] \in {"closing", "retrying", "failedLate"}
  BY <1>4 DEF UseInv
<1> QED BY <1>8, <1>9, <1>10, <1>11 DEF UseInv

\* A step of a closing task that releases the use it is for.
LEMMA UseRemoved ==
    ASSUME TypeOK, ConnectionInv, ExclusionInv, CloseInv, UseInv,
           NEW k \in Calls, NEW s \in Slots, NEW label \in TaskLabels,
           Step(k, s, label), UNCHANGED <<con, pc, conn>>,
           pc[k] \in Closers, label \notin {"wait", "ok"}, NEW p, p = SlotPlugin[s],
           task[k][s] = "wait",
           \A q \in Plugins : q # p => owners'[q] = owners[q],
           owners'[p] = owners[p] \ {Token(k, s)}
    PROVE  UseInv'
<1>1. /\ task'[k][s] = label
      /\ \A j \in Calls, r \in Slots : <<j, r>> # <<k, s>> => task'[j][r] = task[j][r]
  BY StepTasks DEF TypeOK
<1>2. CallTypeOK BY DEF TypeOK
<1>3. \A t : \A q \in Plugins : t # Token(k, s) => (t \in owners'[q] <=> t \in owners[q])
  OBVIOUS
<1>4. \A t : \A q \in Plugins : t \in owners'[q] => t \in owners[q]
  OBVIOUS
<1>5. \A x \in OpenCalls, r \in Slots :
         pc'[x] \in {"ready", "openLock"} => <<x, r>> \notin owners'[SlotPlugin[r]]
  BY <1>4 DEF UseInv
<1>6. \A x \in OpenCalls, r \in Slots :
         pc'[x] = "opening" /\ SlotPlugin[r] \in Managed =>
             (<<x, r>> \in owners'[SlotPlugin[r]] <=> task'[x][r] = "ok")
  <2> SUFFICES ASSUME NEW x \in OpenCalls, NEW r \in Slots, pc[x] = "opening", SlotPlugin[r] \in Managed
               PROVE  <<x, r>> \in owners'[SlotPlugin[r]] <=> task'[x][r] = "ok"
    OBVIOUS
  <2>1. x # k BY DEF Closers
  <2>2. Target(k) # Target(x) BY <1>2, <2>1, OwnToken
  <2>3. <<x, r>> # Token(k, s) BY <2>2 DEF Token, Target
  <2>4. <<x, r>> \in owners'[SlotPlugin[r]] <=> <<x, r>> \in owners[SlotPlugin[r]]
    BY <1>3, <2>3
  <2>5. task'[x][r] = task[x][r] BY <1>1, <2>1
  <2> QED BY <2>4, <2>5 DEF UseInv
<1>7. \A j \in Calls, r \in Slots :
          pc'[j] \in Closers /\ task'[j][r] = "wait" /\ SlotPlugin[r] \in Managed =>
             Token(j, r)' \in owners'[SlotPlugin[r]]
  <2> SUFFICES ASSUME NEW j \in Calls, NEW r \in Slots, pc[j] \in Closers,
                      task'[j][r] = "wait", SlotPlugin[r] \in Managed
               PROVE  Token(j, r) \in owners'[SlotPlugin[r]]
    BY DEF Token, Target
  <2>1. <<j, r>> # <<k, s>> /\ task[j][r] = "wait" BY <1>1
  <2>2. Token(j, r) # Token(k, s)
    <3>1. CASE j = k BY <2>1, <3>1 DEF Token
    <3>2. CASE j # k BY <1>2, <3>2, OwnToken DEF Token
    <3> QED BY <3>1, <3>2
  <2>3. Token(j, r) \in owners[SlotPlugin[r]] BY <2>1 DEF UseInv
  <2> QED BY <1>3, <2>2, <2>3
<1>8. \A c \in Clients, r \in Slots :
          con'[c] # None /\ SlotClient[r] = c /\ SlotPlugin[r] \in Managed =>
             \/ <<con'[c], r>> \in owners'[SlotPlugin[r]]
             \/ \E j \in CloseCalls :
                   conn'[j] = con'[c] /\ pc'[j] \in {"closing", "retrying", "failedLate"}
  <2> SUFFICES ASSUME NEW c \in Clients, NEW r \in Slots, con[c] # None,
                      SlotClient[r] = c, SlotPlugin[r] \in Managed,
                      ~ \E j \in CloseCalls :
                          conn[j] = con[c] /\ pc[j] \in {"closing", "retrying", "failedLate"}
               PROVE  <<con[c], r>> \in owners'[SlotPlugin[r]]
    OBVIOUS
  <2>1. <<con[c], r>> \in owners[SlotPlugin[r]] BY DEF UseInv
  <2>2. con[c] \in OpenCalls /\ pc[con[c]] = "done" /\ CallClient[con[c]] = c
    BY <1>2, ConnTypes DEF ConnectionInv
  <2>3. Target(k) # con[c]
    <3>1. CASE k \in OpenCalls BY <2>2, <3>1 DEF Target, Closers
    <3>2. CASE k \in CloseCalls
      <4>1. pc[k] = "disposing" => con[CallClient[k]] # conn[k] BY <3>2 DEF CloseInv
      <4>2. conn[k] # None => CallClient[conn[k]] = CallClient[k] BY <3>2 DEF ConnectionInv
      <4>3. pc[k] \in {"closing", "disposing"}
        BY <1>2, <3>2 DEF CallTypeOK, Closers, CloseLabels
      <4> QED BY <2>2, <3>2, <4>1, <4>2, <4>3 DEF Target
    <3> QED BY <1>2, <3>1, <3>2, Kinds DEF Closers, OpenLabels, CloseLabels
  <2>4. <<con[c], r>> # Token(k, s) BY <2>3 DEF Token
  <2> QED BY <1>3, <2>1, <2>4
<1> QED BY <1>5, <1>6, <1>7, <1>8 DEF UseInv

\* A step of a task that closes only plugins that are counted.
LEMMA UncountedStep ==
    ASSUME TypeOK, UncountedInv, NEW k \in Calls, NEW s \in Slots, NEW label \in TaskLabels,
           Step(k, s, label), UNCHANGED <<con, pc>>,
           \A q \in Plugins \ Managed : isOpen[q] => isOpen'[q],
           pc[k] = "opening" /\ label = "ok" => isOpen'[SlotPlugin[s]] \/ SlotPlugin[s] \in Managed \cup ExternallyClosed
    PROVE  UncountedInv'
<1>1. /\ task'[k][s] = label
      /\ \A j \in Calls, r \in Slots : <<j, r>> # <<k, s>> => task'[j][r] = task[j][r]
  BY StepTasks DEF TypeOK
<1> QED BY <1>1 DEF UncountedInv

\* The parts of the invariant that plugins and tasks can disturb, and those
\* that only the calls can.
PluginInv == LifecycleInv /\ TaskInv /\ UseInv /\ UncountedInv
CallInv == ConnectionInv /\ ExclusionInv /\ CloseInv /\ OperationInv

\* What a task can rely on when it runs.
LEMMA TaskFacts ==
    ASSUME TypeOK, CallInv, PluginInv, NEW k \in Calls, NEW s \in Slots
    PROVE  /\ SlotPlugin[s] \in Plugins
           /\ <<k, s>> # None
           /\ pc[k] = "opening" => k \in OpenCalls /\ Token(k, s) = <<k, s>>
           /\ pc[k] = "opening" /\ task[k][s] # "ok" =>
                 Token(k, s) \notin owners[SlotPlugin[s]]
           /\ pc[k] \in Closers /\ task[k][s] = "wait" /\ SlotPlugin[s] \in Managed =>
                 Token(k, s) \in owners[SlotPlugin[s]]
           /\ AfterFailure(k) \in {"failed", "retryWait", "settled"}
<1>1. SlotPlugin[s] \in Plugins /\ <<k, s>> # None
  OBVIOUS
<1>2. pc[k] = "opening" => k \in OpenCalls /\ Token(k, s) = <<k, s>>
  BY Kinds DEF TypeOK, OpenLabels, Token, Target
<1>3. pc[k] = "opening" /\ task[k][s] # "ok" => Token(k, s) \notin owners[SlotPlugin[s]]
  <2>1. CASE SlotPlugin[s] \in Managed BY <1>2, <2>1 DEF PluginInv, UseInv
  <2>2. CASE SlotPlugin[s] \notin Managed BY <1>1, <2>2 DEF PluginInv, LifecycleInv, LifecycleAt
  <2> QED BY <2>1, <2>2
<1>4. pc[k] \in Closers /\ task[k][s] = "wait" /\ SlotPlugin[s] \in Managed =>
         Token(k, s) \in owners[SlotPlugin[s]]
  BY DEF PluginInv, UseInv
<1>5. AfterFailure(k) \in {"failed", "retryWait", "settled"}
  BY DEF AfterFailure
<1> QED BY <1>1, <1>2, <1>3, <1>4, <1>5

\* A step of a call keeps the invariant of each plugin.
LEMMA PluginInvStep ==
    ASSUME TypeOK, CallInv, PluginInv, NEW k \in Calls, NEW s \in Slots,
           PluginStep(k, s) \/ PluginGivesUp(k, s)
    PROVE  PluginInv'
<1> USE DEF TypeOK
<1>f. /\ SlotPlugin[s] \in Plugins
      /\ <<k, s>> # None
      /\ pc[k] = "opening" => k \in OpenCalls /\ Token(k, s) = <<k, s>>
      /\ pc[k] = "opening" /\ task[k][s] # "ok" => Token(k, s) \notin owners[SlotPlugin[s]]
      /\ pc[k] \in Closers /\ task[k][s] = "wait" /\ SlotPlugin[s] \in Managed =>
            Token(k, s) \in owners[SlotPlugin[s]]
      /\ AfterFailure(k) \in {"failed", "retryWait", "settled"}
  BY TaskFacts
<1>i. LifecycleInv /\ TaskInv /\ UseInv /\ UncountedInv BY DEF PluginInv
<1>c. ConnectionInv /\ ExclusionInv /\ CloseInv BY DEF CallInv
<1>l. {"ok", "busy", "failed", "settled", "retryBusy", "retryWait"} \subseteq TaskLabels
  BY DEF TaskLabels
<1>b. task[k][s] \in {"busy", "retryBusy"} => holder[SlotPlugin[s]] = <<k, s>>
  BY <1>i DEF TaskInv
<1>e. (pc[k] \in Closers /\ task[k][s] = "busy") \/ task[k][s] = "retryBusy" =>
         SlotPlugin[s] \in Managed /\ owners[SlotPlugin[s]] = {}
  BY <1>i DEF TaskInv
<1>o. "opening" \notin Closers \cup Retriers BY DEF Closers, Retriers
<1>1. CASE PluginOpenAtOnce(k, s)
  <2>1. /\ pc[k] = "opening" /\ task[k][s] = "wait" /\ holder[SlotPlugin[s]] = None
        /\ OpenAtOnce(SlotPlugin[s], Token(k, s))
        /\ Step(k, s, "ok")
        /\ UNCHANGED <<con, pc, conn>>
    BY <1>1 DEF PluginOpenAtOnce, OpenAtOnce
  <2>2. /\ LifecycleInv'
        /\ UNCHANGED <<isOpen, holder>>
        /\ SlotPlugin[s] \in HasOpen => isOpen[SlotPlugin[s]]
        /\ \A q \in Plugins : q # SlotPlugin[s] => owners'[q] = owners[q]
        /\ SlotPlugin[s] \in Managed => owners'[SlotPlugin[s]] = owners[SlotPlugin[s]] \cup {Token(k, s)}
        /\ SlotPlugin[s] \notin Managed => owners'[SlotPlugin[s]] = owners[SlotPlugin[s]]
    BY <1>f, <1>i, <2>1, OpenAtOnceLifecycle
  <2>3. TaskInv' BY <1>f, <1>i, <1>l, <2>1, <2>2, TaskInvStep
  <2>4. UseInv' BY <1>f, <1>i, <2>1, <2>2, UseAdded
  <2>5. isOpen[SlotPlugin[s]] \/ SlotPlugin[s] \in ExternallyClosed
    BY <1>f, <1>i, <2>2 DEF LifecycleInv, LifecycleAt
  <2>6. UncountedInv' BY <1>i, <1>l, <2>1, <2>2, <2>5, UncountedStep
  <2> QED BY <2>2, <2>3, <2>4, <2>6 DEF PluginInv
<1>2. CASE PluginOpenStarts(k, s)
  <2>1. /\ pc[k] = "opening" /\ task[k][s] = "wait" /\ holder[SlotPlugin[s]] = None
        /\ RealOpenStarts(SlotPlugin[s], <<k, s>>)
        /\ Step(k, s, "busy")
        /\ UNCHANGED <<con, pc, conn>>
    BY <1>2 DEF PluginOpenStarts, RealOpenStarts
  <2>2. /\ LifecycleInv'
        /\ SlotPlugin[s] \in HasOpen \ Unmanaged /\ ~isOpen[SlotPlugin[s]]
        /\ holder'[SlotPlugin[s]] = <<k, s>>
        /\ \A q \in Plugins : q # SlotPlugin[s] => holder'[q] = holder[q]
        /\ UNCHANGED <<isOpen, owners>>
    BY <1>f, <1>i, <2>1, RealOpenStartsLifecycle
  <2>3. TaskInv' BY <1>f, <1>i, <1>l, <1>o, <2>1, <2>2, TaskInvStep
  <2>4. UseInv' BY <1>i, <1>l, <2>1, <2>2, UseSame
  <2>5. UncountedInv' BY <1>i, <1>l, <2>1, <2>2, UncountedStep
  <2> QED BY <2>2, <2>3, <2>4, <2>5 DEF PluginInv
<1>3. CASE PluginOpenSucceeds(k, s)
  <2>1. /\ pc[k] = "opening" /\ task[k][s] = "busy"
        /\ RealOpenSucceeds(SlotPlugin[s], <<k, s>>, Token(k, s))
        /\ Step(k, s, "ok")
        /\ UNCHANGED <<con, pc, conn>>
    BY <1>3 DEF PluginOpenSucceeds
  <2>2. SlotPlugin[s] \in HasOpen \ Unmanaged
    BY <1>i, <2>1 DEF TaskInv
  <2>3. /\ LifecycleInv'
        /\ isOpen'[SlotPlugin[s]] /\ holder'[SlotPlugin[s]] = None
        /\ \A q \in Plugins : q # SlotPlugin[s] =>
              isOpen'[q] = isOpen[q] /\ holder'[q] = holder[q] /\ owners'[q] = owners[q]
        /\ SlotPlugin[s] \in Managed => owners'[SlotPlugin[s]] = owners[SlotPlugin[s]] \cup {Token(k, s)}
        /\ SlotPlugin[s] \notin Managed => owners'[SlotPlugin[s]] = owners[SlotPlugin[s]]
    BY <1>f, <1>i, <2>1, <2>2, RealOpenSucceedsLifecycle
  <2>4. TaskInv' BY <1>b, <1>f, <1>i, <1>l, <2>1, <2>3, TaskInvStep
  <2>5. UseInv' BY <1>f, <1>i, <2>1, <2>3, UseAdded
  <2>6. \A q \in Plugins \ Managed : isOpen[q] => isOpen'[q] BY <2>3
  <2>7. UncountedInv' BY <1>i, <1>l, <2>1, <2>3, <2>6, UncountedStep
  <2> QED BY <2>3, <2>4, <2>5, <2>7 DEF PluginInv
<1>4. CASE PluginOpenFails(k, s)
  <2>1. /\ pc[k] = "opening" /\ task[k][s] = "busy"
        /\ RealOpenFails(SlotPlugin[s], <<k, s>>)
        /\ Step(k, s, "failed")
        /\ UNCHANGED <<con, pc, conn>>
    BY <1>4 DEF PluginOpenFails
  <2>2. ~isOpen[SlotPlugin[s]] BY <1>i, <2>1 DEF TaskInv
  <2>3. /\ LifecycleInv'
        /\ holder'[SlotPlugin[s]] = None
        /\ \A q \in Plugins : q # SlotPlugin[s] => holder'[q] = holder[q]
        /\ UNCHANGED <<isOpen, owners>>
    BY <1>f, <1>i, <2>1, <2>2, RealOpenFailsLifecycle
  <2>4. TaskInv' BY <1>b, <1>f, <1>i, <1>l, <2>1, <2>3, TaskInvStep
  <2>5. UseInv' BY <1>i, <1>l, <2>1, <2>3, UseSame
  <2>6. UncountedInv' BY <1>i, <1>l, <2>1, <2>3, UncountedStep
  <2> QED BY <2>3, <2>4, <2>5, <2>6 DEF PluginInv
<1>5. CASE PluginCloseAtOnce(k, s)
  <2>1. /\ pc[k] \in Closers /\ task[k][s] = "wait" /\ holder[SlotPlugin[s]] = None
        /\ CloseAtOnce(SlotPlugin[s], Token(k, s))
        /\ Step(k, s, "settled")
        /\ UNCHANGED <<con, pc, conn>>
    BY <1>5 DEF PluginCloseAtOnce, CloseAtOnce
  <2>2. /\ LifecycleInv'
        /\ UNCHANGED <<isOpen, holder>>
        /\ owners'[SlotPlugin[s]] = owners[SlotPlugin[s]] \ {Token(k, s)}
        /\ \A q \in Plugins : q # SlotPlugin[s] => owners'[q] = owners[q]
    BY <1>f, <1>i, <2>1, CloseAtOnceLifecycle
  <2>3. TaskInv' BY <1>f, <1>i, <1>l, <1>o, <2>1, <2>2, TaskInvStep
  <2>4. UseInv' BY <1>c, <1>f, <1>i, <1>l, <2>1, <2>2, UseRemoved
  <2>5. UncountedInv' BY <1>i, <1>l, <2>1, <2>2, UncountedStep
  <2> QED BY <2>2, <2>3, <2>4, <2>5 DEF PluginInv
<1>6. CASE PluginCloseStarts(k, s)
  <2>1. /\ pc[k] \in Closers /\ task[k][s] = "wait" /\ holder[SlotPlugin[s]] = None
        /\ RealCloseStarts(SlotPlugin[s], <<k, s>>, Token(k, s))
        /\ Step(k, s, "busy")
        /\ UNCHANGED <<con, pc, conn>>
    BY <1>6 DEF PluginCloseStarts, RealCloseStarts
  <2>2. /\ LifecycleInv'
        /\ UNCHANGED isOpen
        /\ SlotPlugin[s] \in Managed
        /\ owners'[SlotPlugin[s]] = {} /\ owners[SlotPlugin[s]] \ {Token(k, s)} = {}
        /\ holder'[SlotPlugin[s]] = <<k, s>>
        /\ \A q \in Plugins : q # SlotPlugin[s] => owners'[q] = owners[q] /\ holder'[q] = holder[q]
    BY <1>f, <1>i, <2>1, RealCloseStartsLifecycle
  <2>3. TaskInv' BY <1>f, <1>i, <1>l, <1>o, <2>1, <2>2, TaskInvStep
  <2>4. UseInv' BY <1>c, <1>f, <1>i, <1>l, <2>1, <2>2, UseRemoved
  <2>5. UncountedInv' BY <1>i, <1>l, <2>1, <2>2, UncountedStep
  <2> QED BY <2>2, <2>3, <2>4, <2>5 DEF PluginInv
<1>7. CASE \/ PluginCloseSucceeds(k, s) \/ PluginCloseFails(k, s)
           \/ PluginRetrySucceeds(k, s) \/ PluginRetryFails(k, s)
  <2>1. /\ (pc[k] \in Closers /\ task[k][s] = "busy") \/ task[k][s] = "retryBusy"
        /\ pc[k] \in Closers \cup Retriers
        /\ RealCloseSucceeds(SlotPlugin[s], <<k, s>>) \/ RealCloseFails(SlotPlugin[s], <<k, s>>)
        /\ UNCHANGED <<con, pc, conn>>
    BY <1>7 DEF PluginCloseSucceeds, PluginCloseFails, PluginRetrySucceeds, PluginRetryFails
  <2>2. PICK label \in {"settled", "failed", "retryWait"} : Step(k, s, label)
    BY <1>7, <1>f DEF PluginCloseSucceeds, PluginCloseFails, PluginRetrySucceeds, PluginRetryFails
  <2>3. /\ LifecycleInv'
        /\ UNCHANGED owners
        /\ holder'[SlotPlugin[s]] = None
        /\ \A q \in Plugins : q # SlotPlugin[s] => isOpen'[q] = isOpen[q] /\ holder'[q] = holder[q]
    BY <1>e, <1>f, <1>i, <2>1, RealCloseEndsLifecycle
  <2>4. TaskInv' BY <1>b, <1>f, <1>i, <1>l, <1>o, <2>1, <2>2, <2>3, TaskInvStep
  <2>5. UseInv' BY <1>i, <1>l, <2>1, <2>2, <2>3, UseSame
  <2>6. \A q \in Plugins \ Managed : isOpen[q] => isOpen'[q] BY <1>e, <2>1, <2>3
  <2>7. UncountedInv' BY <1>i, <1>l, <2>1, <2>2, <2>6, UncountedStep
  <2> QED BY <2>3, <2>4, <2>5, <2>7 DEF PluginInv
<1>8. CASE PluginRetryAtOnce(k, s)
  <2>1. /\ pc[k] \in Retriers /\ task[k][s] = "retryWait"
        /\ RetryAtOnce(SlotPlugin[s])
        /\ Step(k, s, "settled")
        /\ UNCHANGED <<con, pc, conn>>
    BY <1>8 DEF PluginRetryAtOnce
  <2>2. LifecycleInv' /\ UNCHANGED <<isOpen, holder, owners>>
    BY <1>f, <1>i, <2>1, RetryAtOnceLifecycle
  <2>3. TaskInv' BY <1>f, <1>i, <1>l, <1>o, <2>1, <2>2, TaskInvStep
  <2>4. UseInv' BY <1>i, <1>l, <2>1, <2>2, UseSame
  <2>5. UncountedInv' BY <1>i, <1>l, <2>1, <2>2, UncountedStep
  <2> QED BY <2>2, <2>3, <2>4, <2>5 DEF PluginInv
<1>9. CASE PluginRetryStarts(k, s)
  <2>1. /\ pc[k] \in Retriers /\ task[k][s] = "retryWait" /\ holder[SlotPlugin[s]] = None
        /\ RetryStarts(SlotPlugin[s], <<k, s>>)
        /\ Step(k, s, "retryBusy")
        /\ UNCHANGED <<con, pc, conn>>
    BY <1>9 DEF PluginRetryStarts, RetryStarts
  <2>2. /\ LifecycleInv'
        /\ UNCHANGED <<isOpen, owners>>
        /\ SlotPlugin[s] \in Managed
        /\ owners[SlotPlugin[s]] = {}
        /\ holder'[SlotPlugin[s]] = <<k, s>>
        /\ \A q \in Plugins : q # SlotPlugin[s] => holder'[q] = holder[q]
    BY <1>f, <1>i, <2>1, RetryStartsLifecycle
  <2>3. TaskInv' BY <1>f, <1>i, <1>l, <1>o, <2>1, <2>2, TaskInvStep
  <2>4. UseInv' BY <1>i, <1>l, <2>1, <2>2, UseSame
  <2>5. UncountedInv' BY <1>i, <1>l, <2>1, <2>2, UncountedStep
  <2> QED BY <2>2, <2>3, <2>4, <2>5 DEF PluginInv
<1>10. CASE PluginGivesUp(k, s)
  <2>1. /\ task[k][s] \in {"wait", "retryWait"}
        /\ UNCHANGED <<isOpen, holder, owners, references, closeFailed, con, pc, conn>>
        /\ pc[k] \in {"opening"} \cup Closers \cup Retriers
    BY <1>10
    DEF PluginGivesUp, PluginOpenAborted, PluginCloseAborted, PluginRetryAborted, lifecycleVars
  <2>2. PICK label \in {"settled", "failed", "retryWait"} :
           Step(k, s, label) /\ (pc[k] = "opening" => label = "failed")
    BY <1>10, <1>f, <1>o DEF PluginGivesUp, PluginOpenAborted, PluginCloseAborted, PluginRetryAborted
  <2>3. LifecycleInv' BY <1>i, <2>1 DEF LifecycleInv, LifecycleAt
  <2>4. TaskInv' BY <1>f, <1>i, <1>l, <2>1, <2>2, TaskInvStep
  <2>5. UseInv' BY <1>i, <1>l, <2>1, <2>2, UseSame
  <2>6. UncountedInv' BY <1>i, <1>l, <2>1, <2>2, UncountedStep
  <2> QED BY <2>3, <2>4, <2>5, <2>6 DEF PluginInv
<1> QED
  BY <1>1, <1>2, <1>3, <1>4, <1>5, <1>6, <1>7, <1>8, <1>9, <1>10 DEF PluginStep

\* What a call does with its tasks: nothing, and then it is not at the plugins
\* next; or all of them are set anew.
Restarts(k, label) ==
    \/ UNCHANGED task /\ label \notin {"opening"} \cup Closers
    \/ \E From \in SUBSET TaskLabels, to \in {"wait", "failed", "retryWait"},
          others \in {"wait", "failed", "settled"} :
             /\ task' = Restart(k, From, to, others)
             /\ label = "opening" => to = "wait" /\ others = "wait"

\* A step of a call moves it and either leaves its tasks or begins them again.
LEMMA CallRestarts ==
    ASSUME NEW k \in Calls, CallStep(k)
    PROVE  /\ UNCHANGED lifecycleVars
           /\ \E label : Goto(k, label) /\ Restarts(k, label)
<1>l. {"none", "ok", "failed"} \subseteq TaskLabels BY DEF TaskLabels
<1>o. {"openLock", "rollback", "opening", "done", "closeLock", "closeIo", "closeGranted",
       "failedEarly", "failedLate", "retrying", "operationLock", "operationGranted",
       "running", "streaming"} \cap Closers = {"rollback"}
  BY DEF Closers
<1>1. CASE OpenStep(k)
  <2>1. CASE OpenLock(k) BY <1>l, <1>o, <2>1 DEF OpenLock, Restarts
  <2>2. CASE OpenFailed(k) BY <1>l, <1>o, <2>2 DEF OpenFailed, Restarts
  <2>3. CASE OpenCall(k) BY <1>o, <2>3 DEF OpenCall, Restarts
  <2>4. CASE OpenRefused(k) \/ OpenLockAborted(k) \/ OpenDone(k) \/ RollbackDone(k)
    BY <1>o, <2>4 DEF OpenRefused, OpenLockAborted, OpenDone, RollbackDone, Restarts
  <2> QED BY <1>1, <2>1, <2>2, <2>3, <2>4 DEF OpenStep
<1>2. CASE CloseStep(k)
  <2>1. CASE CloseStart(k) BY <1>l, <1>o, <2>1 DEF CloseStart, Restarts
  <2>2. CASE CloseStartAborted(k) BY <1>l, <1>o, <2>2 DEF CloseStartAborted, Restarts
  <2>3. CASE CloseFailed(k) BY <1>l, <1>o, <2>3 DEF CloseFailed, Restarts
  <2>4. CASE CloseDispose(k) BY <1>l, <1>o, <2>4 DEF CloseDispose, Restarts
  <2>5. CASE CloseCall(k) \/ CloseLock(k) \/ CloseIo(k) \/ CloseRetried(k)
    BY <1>o, <2>5 DEF CloseCall, CloseLock, CloseIo, CloseRetried, Restarts
  <2>6. CASE \/ CloseRefused(k) \/ CloseLockLate(k) \/ CloseAborted(k)
             \/ CloseDone(k) \/ CloseDiscard(k) \/ CloseOutrun(k) \/ DisposeDone(k)
    BY <1>o, <2>6 DEF CloseRefused, CloseLockLate, CloseAborted, CloseDone,
       CloseDiscard, CloseOutrun, DisposeDone, Restarts
  <2> QED BY <1>2, <2>1, <2>2, <2>3, <2>4, <2>5, <2>6 DEF CloseStep
<1>3. CASE OperationStep(k) \/ StreamDispose(k)
  BY <1>o, <1>3 DEF OperationStep, OperationCall, OperationRefused, OperationLock,
     OperationStart, OperationLockAborted, OperationDone, StreamDispose, Restarts
<1> QED BY <1>1, <1>2, <1>3 DEF CallStep

\* Where a call begins its tasks, none of them is busy, and no other call's task changes.
LEMMA RestartEffect ==
    ASSUME TypeOK, TaskInv, NEW k \in Calls, NEW label, Restarts(k, label)
    PROVE  /\ \A j \in Calls \ {k} : \A s \in Slots : task'[j][s] = task[j][s]
           /\ \A s \in Slots : SlotClient[s] # CallClient[k] => task'[k][s] = task[k][s]
           /\ label \in {"opening"} \cup Closers =>
                 \A s \in Slots : task'[k][s] \notin {"busy", "retryBusy", "ok"}
           /\ label = "opening" =>
                 \A s \in Slots : SlotClient[s] = CallClient[k] => task'[k][s] = "wait"
           /\ \A s \in Slots : task'[k][s] \in {"busy", "retryBusy"} => task'[k][s] = task[k][s]
<1>1. CASE UNCHANGED task /\ label \notin {"opening"} \cup Closers
  BY <1>1
<1>2. ASSUME NEW From \in SUBSET TaskLabels, NEW to \in {"wait", "failed", "retryWait"},
             NEW others \in {"wait", "failed", "settled"},
             task' = Restart(k, From, to, others),
             label = "opening" => to = "wait" /\ others = "wait"
      PROVE  /\ \A j \in Calls \ {k} : \A s \in Slots : task'[j][s] = task[j][s]
             /\ \A s \in Slots : SlotClient[s] # CallClient[k] => task'[k][s] = task[k][s]
             /\ label \in {"opening"} \cup Closers =>
                   \A s \in Slots : task'[k][s] \notin {"busy", "retryBusy", "ok"}
             /\ label = "opening" =>
                   \A s \in Slots : SlotClient[s] = CallClient[k] => task'[k][s] = "wait"
             /\ \A s \in Slots : task'[k][s] \in {"busy", "retryBusy"} => task'[k][s] = task[k][s]
  <2>1. to \in TaskLabels /\ others \in TaskLabels BY DEF TaskLabels
  <2>2. task \in [Calls -> [Slots -> TaskLabels]] BY DEF TypeOK, CallTypeOK
  <2>3. /\ \A j \in Calls \ {k} : task'[j] = task[j]
        /\ \A s \in Slots : task'[k][s] =
              IF SlotClient[s] # CallClient[k] THEN task[k][s]
              ELSE IF task[k][s] \in From THEN to ELSE others
    <3>1. /\ \A j \in Calls \ {k} : Restart(k, From, to, others)[j] = task[j]
          /\ \A s \in Slots : Restart(k, From, to, others)[k][s] =
                IF SlotClient[s] # CallClient[k] THEN task[k][s]
                ELSE IF task[k][s] \in From THEN to ELSE others
      BY <2>1, <2>2 DEF Restart
    <3> QED BY <1>2, <3>1
  <2>4. \A s \in Slots : SlotClient[s] # CallClient[k] => task'[k][s] = task[k][s] /\ task[k][s] = "none"
    BY <2>3 DEF TaskInv
  <2>5. \A s \in Slots : SlotClient[s] = CallClient[k] => task'[k][s] \in {to, others}
    BY <2>3
  <2>6. {to, others} \subseteq {"wait", "failed", "retryWait", "settled"} OBVIOUS
  <2>7. \A s \in Slots : task'[k][s] \notin {"busy", "retryBusy", "ok"}
    BY <2>4, <2>5, <2>6
  <2> QED BY <1>2, <2>3, <2>4, <2>5, <2>7
<1> QED BY <1>1, <1>2 DEF Restarts

\* A step of a call keeps what each task promises.
LEMMA CallTaskInv ==
    ASSUME TypeOK, TaskInv, NEW k \in Calls, CallStep(k)
    PROVE  TaskInv'
<1>1. PICK label : Goto(k, label) /\ Restarts(k, label) BY CallRestarts
<1>2. /\ pc'[k] = label /\ \A j \in Calls : j # k => pc'[j] = pc[j]
      /\ UNCHANGED <<isOpen, holder, owners>>
  BY <1>1, GotoPc, CallRestarts DEF TypeOK, lifecycleVars
<1>3. /\ \A j \in Calls \ {k} : \A s \in Slots : task'[j][s] = task[j][s]
      /\ \A s \in Slots : SlotClient[s] # CallClient[k] => task'[k][s] = task[k][s]
      /\ label \in {"opening"} \cup Closers =>
            \A s \in Slots : task'[k][s] \notin {"busy", "retryBusy", "ok"}
      /\ label = "opening" =>
            \A s \in Slots : SlotClient[s] = CallClient[k] => task'[k][s] = "wait"
      /\ \A s \in Slots : task'[k][s] \in {"busy", "retryBusy"} => task'[k][s] = task[k][s]
  BY <1>1, RestartEffect
<1> SUFFICES ASSUME NEW j \in Calls, NEW r \in Slots
             PROVE /\ task'[j][r] # "none" => SlotClient[r] = CallClient[j]
                   /\ pc'[j] = "opening" /\ SlotClient[r] = CallClient[j]
                         => task'[j][r] \in {"wait", "busy", "ok", "failed"}
                   /\ task'[j][r] \in {"busy", "retryBusy"} => holder'[SlotPlugin[r]] = <<j, r>>
                   /\ pc'[j] = "opening" /\ task'[j][r] = "busy" =>
                         SlotPlugin[r] \in HasOpen \ Unmanaged /\ ~isOpen'[SlotPlugin[r]]
                   /\ (pc'[j] \in Closers /\ task'[j][r] = "busy") \/ task'[j][r] = "retryBusy" =>
                         SlotPlugin[r] \in Managed /\ owners'[SlotPlugin[r]] = {}
  BY DEF TaskInv
<1>4. CASE j # k
  <2>1. pc'[j] = pc[j] /\ task'[j][r] = task[j][r] BY <1>2, <1>3, <1>4
  <2> QED BY <1>2, <2>1 DEF TaskInv
<1>5. CASE j = k
  <2>1. task[k][r] # "none" => SlotClient[r] = CallClient[k] BY DEF TaskInv
  <2>2. task[k][r] \in {"busy", "retryBusy"} => holder[SlotPlugin[r]] = <<k, r>> BY DEF TaskInv
  <2>3. task[k][r] = "retryBusy" => SlotPlugin[r] \in Managed /\ owners[SlotPlugin[r]] = {}
    BY DEF TaskInv
  <2> QED BY <1>2, <1>3, <1>5, <2>1, <2>2, <2>3
<1> QED BY <1>4, <1>5

\* Where a call comes from when it enters a label that the invariant mentions.
LEMMA CallOrigins ==
    ASSUME CallTypeOK, CloseInv, NEW k \in Calls, CallStep(k)
    PROVE  /\ pc'[k] # "ready"
           /\ pc'[k] = "openLock" => pc[k] = "ready"
           /\ pc'[k] = "opening" => pc[k] = "openLock"
           /\ pc'[k] = "rollback" => OpenFailed(k)
           /\ pc'[k] = "closing" => CloseStart(k) \/ CloseStartAborted(k)
           /\ pc'[k] = "disposing" => CloseDispose(k)
           /\ pc[k] \in {"closing", "retrying", "failedLate"} =>
                 \/ pc'[k] \in {"closing", "retrying", "failedLate"}
                 \/ con'[CallClient[k]] = None
                 \/ con[CallClient[k]] # conn[k]
           /\ pc[k] # "ready" => conn'[k] = conn[k]
<1>1. \A label : Goto(k, label) => pc'[k] = label BY GotoPc
<1>2. con' = [con EXCEPT ![CallClient[k]] = None] => con'[CallClient[k]] = None
  BY ConnTypes DEF CallTypeOK
<1>3. CASE OpenStep(k)
  BY <1>1, <1>3
  DEF OpenStep, OpenCall, OpenLock, OpenRefused, OpenLockAborted, OpenDone, OpenFailed,
      RollbackDone
<1>4. CASE CloseStep(k)
  <2>1. CASE CloseCall(k) \/ CloseRefused(k) BY <1>1, <2>1 DEF CloseCall, CloseRefused
  <2>2. CASE CloseLock(k) \/ CloseLockLate(k) \/ CloseIo(k) \/ CloseAborted(k)
    BY <1>1, <2>2 DEF CloseLock, CloseLockLate, CloseIo, CloseAborted
  <2>3. CASE CloseStart(k) \/ CloseStartAborted(k) \/ CloseFailed(k) \/ CloseRetried(k)
    BY <1>1, <2>3 DEF CloseStart, CloseStartAborted, CloseFailed, CloseRetried
  <2>4. CASE CloseDone(k) \/ CloseDiscard(k) \/ CloseDispose(k)
    BY <1>1, <1>2, <2>4 DEF CloseDone, CloseDiscard, CloseDispose
  <2>5. CASE CloseOutrun(k) \/ DisposeDone(k)
    BY <1>1, <2>5 DEF CloseOutrun, DisposeDone
  <2> QED BY <1>4, <2>1, <2>2, <2>3, <2>4, <2>5 DEF CloseStep
<1>5. CASE OperationStep(k) \/ StreamDispose(k)
  BY <1>1, <1>5
  DEF OperationStep, OperationCall, OperationRefused, OperationLock, OperationStart,
      OperationLockAborted, OperationDone, StreamDispose
<1> QED BY <1>3, <1>4, <1>5 DEF CallStep

\* A step of one call does not change what another has captured.
LEMMA ConnStays ==
    ASSUME CallTypeOK, NEW k \in Calls, CallStep(k)
    PROVE  \A j \in Calls : j # k => conn'[j] = conn[j]
<1>1. CASE CloseCall(k) BY <1>1, Capture DEF CloseCall
<1>2. CASE OperationCall(k) BY <1>2, Capture DEF OperationCall
<1>3. CASE OpenDone(k) \/ CloseDone(k) \/ CloseDiscard(k) \/ CloseDispose(k) \/ CloseRefused(k)
  BY <1>3 DEF OpenDone, CloseDone, CloseDiscard, CloseDispose, CloseRefused
<1>4. CASE OpenMoves(k) \/ CloseMoves(k) \/ OperationMoves(k)
  BY <1>4
  DEF OpenMoves, OpenCall, OpenLock, OpenRefused, OpenLockAborted, OpenFailed, RollbackDone,
      CloseMoves, CloseLock, CloseLockLate, CloseIo, CloseAborted, CloseStart,
      CloseStartAborted, CloseFailed, CloseRetried, CloseOutrun, DisposeDone,
      OperationMoves, OperationRefused, OperationLock, OperationStart,
      OperationLockAborted, OperationDone, StreamDispose
<1> QED BY <1>1, <1>2, <1>3, <1>4, CallSteps

\* A client gets a connection only from an open that is done.
LEMMA ConStays ==
    ASSUME CallTypeOK, CloseInv, NEW k \in Calls, CallStep(k), NEW c \in Clients
    PROVE  con'[c] \in {con[c], None} \/ (OpenDone(k) /\ c = CallClient[k] /\ con'[c] = k)
<1>1. CASE OpenDone(k) BY <1>1, Publishes
<1>2. CASE CloseDone(k) \/ CloseDiscard(k) \/ CloseDispose(k) BY <1>2, Discards
<1>3. CASE CloseCall(k) \/ CloseRefused(k) \/ OperationCall(k)
  BY <1>3 DEF CloseCall, CloseRefused, OperationCall
<1>4. CASE OpenMoves(k) \/ CloseMoves(k) \/ OperationMoves(k)
  BY <1>4
  DEF OpenMoves, OpenCall, OpenLock, OpenRefused, OpenLockAborted, OpenFailed, RollbackDone,
      CloseMoves, CloseLock, CloseLockLate, CloseIo, CloseAborted, CloseStart,
      CloseStartAborted, CloseFailed, CloseRetried, CloseOutrun, DisposeDone,
      OperationMoves, OperationRefused, OperationLock, OperationStart,
      OperationLockAborted, OperationDone, StreamDispose
<1> QED BY <1>1, <1>2, <1>3, <1>4, CallSteps

\* A close that begins with the plugins finds all uses of its connection counted.
LEMMA UsesToClose ==
    ASSUME CallTypeOK, ConnectionInv, ExclusionInv, UseInv,
           NEW k \in CloseCalls, conn[k] # None, con[CallClient[k]] = conn[k],
           pc[k] \in {"closeGranted", "failedEarly"},
           NEW s \in Slots, SlotClient[s] = CallClient[k], SlotPlugin[s] \in Managed
    PROVE  <<conn[k], s>> \in owners[SlotPlugin[s]]
<1>1. SUFFICES ASSUME NEW j \in CloseCalls, conn[j] = conn[k],
                      pc[j] \in {"closing", "retrying", "failedLate"}
               PROVE  FALSE
  BY ConnTypes DEF UseInv
<1>2. CallClient[j] = CallClient[k] BY <1>1 DEF ConnectionInv
<1>3. j = k BY <1>1, <1>2 DEF ExclusionInv
<1> QED BY <1>1, <1>3

\* The slots of a client whose open is at its end are open.
LEMMA AllOpened ==
    ASSUME TypeOK, TaskInv, NEW k \in Calls, OpenDone(k),
           NEW s \in Slots, SlotClient[s] = CallClient[k]
    PROVE  task[k][s] = "ok"
<1>1. pc[k] = "opening" /\ task[k][s] \notin {"wait", "busy", "failed"}
  BY DEF OpenDone, Settled, SlotsOf
<1> QED BY <1>1 DEF TaskInv

\* A step of a call keeps the ownership of uses.
LEMMA CallUseInv ==
    ASSUME TypeOK, ConnectionInv, ExclusionInv, CloseInv, TaskInv, UseInv,
           NEW k \in Calls, CallStep(k)
    PROVE  UseInv'
<1> USE DEF TypeOK
<1>1. PICK label : Goto(k, label) /\ Restarts(k, label) BY CallRestarts
<1>2. /\ pc'[k] = label /\ \A j \in Calls : j # k => pc'[j] = pc[j]
      /\ UNCHANGED <<isOpen, holder, owners>>
      /\ \A j \in Calls : j # k => conn'[j] = conn[j]
  BY <1>1, GotoPc, ConnStays, CallRestarts DEF lifecycleVars
<1>3. /\ \A j \in Calls \ {k} : \A s \in Slots : task'[j][s] = task[j][s]
      /\ \A s \in Slots : SlotClient[s] # CallClient[k] => task'[k][s] = task[k][s]
      /\ label \in {"opening"} \cup Closers =>
            \A s \in Slots : task'[k][s] \notin {"busy", "retryBusy", "ok"}
  BY <1>1, RestartEffect
<1>4. /\ pc'[k] # "ready"
      /\ pc'[k] = "openLock" => pc[k] = "ready"
      /\ pc'[k] = "opening" => pc[k] = "openLock"
      /\ pc'[k] = "rollback" => OpenFailed(k)
      /\ pc'[k] = "closing" => CloseStart(k) \/ CloseStartAborted(k)
      /\ pc'[k] = "disposing" => CloseDispose(k)
      /\ pc[k] \in {"closing", "retrying", "failedLate"} =>
            \/ pc'[k] \in {"closing", "retrying", "failedLate"}
            \/ con'[CallClient[k]] = None
            \/ con[CallClient[k]] # conn[k]
      /\ pc[k] # "ready" => conn'[k] = conn[k]
  BY CallOrigins
<1>5. \A x \in OpenCalls, s \in Slots :
         pc'[x] \in {"ready", "openLock"} => <<x, s>> \notin owners'[SlotPlugin[s]]
  BY <1>2, <1>4 DEF UseInv
<1>6. \A x \in OpenCalls, s \in Slots :
         pc'[x] = "opening" /\ SlotPlugin[s] \in Managed =>
             (<<x, s>> \in owners'[SlotPlugin[s]] <=> task'[x][s] = "ok")
  <2> SUFFICES ASSUME NEW x \in OpenCalls, NEW s \in Slots, pc'[x] = "opening",
                      SlotPlugin[s] \in Managed
               PROVE  <<x, s>> \in owners'[SlotPlugin[s]] <=> task'[x][s] = "ok"
    OBVIOUS
  <2>1. CASE x = k
    <3>1. <<x, s>> \notin owners[SlotPlugin[s]] BY <1>4, <2>1 DEF UseInv
    <3>2. task'[x][s] # "ok" BY <1>2, <1>3, <2>1
    <3> QED BY <1>2, <3>1, <3>2
  <2>2. CASE x # k
    <3>1. pc[x] = "opening" /\ task'[x][s] = task[x][s] BY <1>2, <1>3, <2>2
    <3> QED BY <1>2, <3>1 DEF UseInv
  <2> QED BY <2>1, <2>2
<1>7. \A j \in Calls, s \in Slots :
          pc'[j] \in Closers /\ task'[j][s] = "wait" /\ SlotPlugin[s] \in Managed =>
             Token(j, s)' \in owners'[SlotPlugin[s]]
  <2> SUFFICES ASSUME NEW j \in Calls, NEW s \in Slots, pc'[j] \in Closers,
                      task'[j][s] = "wait", SlotPlugin[s] \in Managed
               PROVE  Token(j, s)' \in owners'[SlotPlugin[s]]
    OBVIOUS
  <2>1. CASE j # k
    <3>1. /\ pc[j] \in Closers /\ task[j][s] = "wait" /\ conn'[j] = conn[j]
      BY <1>2, <1>3, <2>1
    <3>2. Token(j, s)' = Token(j, s) BY <3>1 DEF Token, Target
    <3>3. Token(j, s) \in owners[SlotPlugin[s]] BY <3>1 DEF UseInv
    <3> QED BY <1>2, <3>2, <3>3
  <2>2. CASE j = k
    <3>1. task'[k][s] = "wait" => SlotClient[s] = CallClient[k]
      <4>1. TaskInv' BY CallTaskInv
      <4>2. task'[k][s] # "none" => SlotClient[s] = CallClient[k] BY <4>1 DEF TaskInv
      <4> QED BY <4>2
    <3>2. CASE pc'[k] = "rollback"
      <4>1. OpenFailed(k) BY <1>4, <3>2
      <4>2. k \in OpenCalls /\ pc[k] = "opening" BY <4>1, Kinds DEF OpenFailed, OpenLabels
      <4>3. task[k][s] = "ok"
        <5>1. task'[k][s] = IF task[k][s] \in {"ok"} THEN "wait" ELSE "settled"
          BY <2>2, <3>1, <4>1 DEF Restart, OpenFailed, CallTypeOK
        <5> QED BY <2>2, <5>1
      <4>4. Token(k, s)' = <<k, s>> BY <4>2 DEF Token, Target
      <4> QED BY <1>2, <2>2, <4>2, <4>3, <4>4 DEF UseInv
    <3>3. CASE pc'[k] \in {"closing", "disposing"}
      <4>1. CloseStart(k) \/ CloseDispose(k)
        <5>1. ~CloseStartAborted(k)
          <6>1. SUFFICES ASSUME CloseStartAborted(k) PROVE FALSE OBVIOUS
          <6>2. task'[k][s] = "failed"
            BY <2>2, <3>1, <6>1 DEF Restart, CloseStartAborted, CallTypeOK
          <6> QED BY <2>2, <6>2
        <5> QED BY <1>4, <3>3, <5>1
      <4>2. k \in CloseCalls /\ conn[k] # None /\ pc[k] \in {"closeGranted", "failedEarly"}
        BY <4>1, Kinds DEF CloseStart, CloseDispose, CloseLabels, CallTypeOK
      <4>3. con[CallClient[k]] = conn[k]
        BY <4>1, <4>2 DEF CloseStart, CloseDispose, CloseInv
      <4>4. <<conn[k], s>> \in owners[SlotPlugin[s]]
        BY <2>2, <3>1, <4>2, <4>3, UsesToClose
      <4>5. Token(k, s)' = <<conn[k], s>>
        BY <1>4, <4>2 DEF Token, Target
      <4> QED BY <1>2, <2>2, <4>4, <4>5
    <3> QED BY <2>2, <3>2, <3>3 DEF Closers
  <2> QED BY <2>1, <2>2
<1>8. \A c \in Clients, s \in Slots :
          con'[c] # None /\ SlotClient[s] = c /\ SlotPlugin[s] \in Managed =>
             \/ <<con'[c], s>> \in owners'[SlotPlugin[s]]
             \/ \E j \in CloseCalls :
                   conn'[j] = con'[c] /\ pc'[j] \in {"closing", "retrying", "failedLate"}
  <2> SUFFICES ASSUME NEW c \in Clients, NEW s \in Slots, con'[c] # None,
                      SlotClient[s] = c, SlotPlugin[s] \in Managed
               PROVE  \/ <<con'[c], s>> \in owners'[SlotPlugin[s]]
                      \/ \E j \in CloseCalls :
                            conn'[j] = con'[c] /\ pc'[j] \in {"closing", "retrying", "failedLate"}
    OBVIOUS
  <2>1. CASE OpenDone(k) /\ c = CallClient[k] /\ con'[c] = k
    <3>1. task[k][s] = "ok" BY <2>1, AllOpened
    <3>2. k \in OpenCalls /\ pc[k] = "opening" BY <2>1, Publishes
    <3> QED BY <1>2, <2>1, <3>1, <3>2 DEF UseInv
  <2>2. CASE con'[c] = con[c]
    <3>1. CASE <<con[c], s>> \in owners[SlotPlugin[s]] BY <1>2, <2>2, <3>1
    <3>2. ASSUME NEW j \in CloseCalls, conn[j] = con[c],
                 pc[j] \in {"closing", "retrying", "failedLate"}
          PROVE  conn'[j] = con'[c] /\ pc'[j] \in {"closing", "retrying", "failedLate"}
      <4>1. CASE j # k BY <1>2, <2>2, <3>2, <4>1
      <4>2. CASE j = k
        <5>1. CallClient[k] = c
          BY <2>2, <3>2, <4>2 DEF ConnectionInv
        <5> QED BY <1>4, <2>2, <3>2, <4>2, <5>1
      <4> QED BY <4>1, <4>2
    <3> QED BY <2>2, <3>1, <3>2 DEF UseInv
  <2> QED BY <2>1, <2>2, ConStays
<1> QED BY <1>5, <1>6, <1>7, <1>8 DEF UseInv

\* A step of a call keeps the invariant of uses that are not counted.
LEMMA CallUncountedInv ==
    ASSUME TypeOK, CloseInv, TaskInv, UncountedInv, NEW k \in Calls, CallStep(k)
    PROVE  UncountedInv'
<1> USE DEF TypeOK
<1>1. PICK label : Goto(k, label) /\ Restarts(k, label) BY CallRestarts
<1>2. /\ pc'[k] = label /\ \A j \in Calls : j # k => pc'[j] = pc[j]
      /\ UNCHANGED isOpen
  BY <1>1, GotoPc, CallRestarts DEF lifecycleVars
<1>3. /\ \A j \in Calls \ {k} : \A s \in Slots : task'[j][s] = task[j][s]
      /\ label = "opening" => \A s \in Slots : task'[k][s] # "ok"
  BY <1>1, RestartEffect
<1> SUFFICES ASSUME NEW s \in Slots, SlotPlugin[s] \notin Managed \cup ExternallyClosed
             PROVE  /\ con'[SlotClient[s]] # None => isOpen'[SlotPlugin[s]]
                    /\ \A x \in OpenCalls :
                          pc'[x] = "opening" /\ task'[x][s] = "ok" => isOpen'[SlotPlugin[s]]
  BY DEF UncountedInv
<1>4. con'[SlotClient[s]] # None => isOpen'[SlotPlugin[s]]
  <2>1. CASE OpenDone(k) /\ SlotClient[s] = CallClient[k]
    <3>1. task[k][s] = "ok" BY <2>1, AllOpened
    <3>2. k \in OpenCalls /\ pc[k] = "opening" BY <2>1, Publishes
    <3> QED BY <1>2, <3>1, <3>2 DEF UncountedInv
  <2>2. CASE con'[SlotClient[s]] \in {con[SlotClient[s]], None}
    BY <1>2, <2>2 DEF UncountedInv
  <2> QED BY <2>1, <2>2, ConStays
<1>5. \A x \in OpenCalls :
         pc'[x] = "opening" /\ task'[x][s] = "ok" => isOpen'[SlotPlugin[s]]
  BY <1>2, <1>3 DEF UncountedInv
<1> QED BY <1>4, <1>5

\* A call that ends without a close of its client's connection leaves it alive.
LEMMA CallNoDead ==
    ASSUME CallTypeOK, ConnectionInv, CloseInv, NoDeadConnection,
           NEW k \in Calls, CallStep(k)
    PROVE  NoDeadConnection'
<1>1. \A j \in Calls : j # k => pc'[j] = pc[j] /\ conn'[j] = conn[j]
  <2>1. PICK label : Goto(k, label) BY CallRestarts
  <2> QED BY <2>1, GotoPc, ConnStays
<1>2. pc'[k] # "ready" /\ (pc[k] # "ready" => conn'[k] = conn[k])
  BY CallOrigins
<1> SUFFICES ASSUME NEW c \in Clients, con'[c] # None, dead'[con'[c]]
             PROVE  \E j \in CloseCalls : conn'[j] = con'[c] /\ pc'[j] \notin {"ready", "done"}
  BY DEF NoDeadConnection
<1>3. CASE OpenDone(k)
  <2>1. ~dead[k] /\ dead' = dead /\ k \notin CloseCalls BY <1>3, Publishes
  <2>2. con'[c] = con[c] BY <1>3, <2>1, ConStays
  <2> QED BY <1>1, <2>1, <2>2 DEF NoDeadConnection
<1>4. CASE CloseCall(k) /\ c = CallClient[k]
  <2>1. /\ k \in CloseCalls /\ con' = con
        /\ conn'[k] = con[CallClient[k]] /\ pc'[k] = "closeLock"
    BY <1>4, Capture, GotoPc DEF CloseCall
  <2> QED BY <1>4, <2>1
<1>5. CASE (CloseCall(k) /\ c # CallClient[k]) \/ CloseRefused(k)
  <2>1. con' = con /\ AbortPending(k) /\ k \in CloseCalls /\ pc[k] = "ready"
    BY <1>5 DEF CloseCall, CloseRefused
  <2>2. con[c] \in OpenCalls /\ pc[con[c]] = "done" /\ CallClient[con[c]] = c
    BY <2>1, ConnTypes DEF ConnectionInv
  <2>3. con[c] # con[CallClient[k]]
    <3>1. CASE CloseRefused(k) BY <2>2, <3>1 DEF CloseRefused
    <3>2. CASE CloseCall(k) /\ c # CallClient[k]
      BY <2>2, <3>2, ConnTypes DEF ConnectionInv, CloseCall
    <3> QED BY <1>5, <3>1, <3>2
  <2>4. con[c] \notin Pending(CallClient[k]) BY <2>2 DEF Pending
  <2>5. dead[con[c]] BY <2>1, <2>2, <2>3, <2>4 DEF AbortPending
  <2>6. PICK j \in CloseCalls : conn[j] = con[c] /\ pc[j] \notin {"ready", "done"}
    BY <2>1, <2>2, <2>5 DEF NoDeadConnection
  <2>7. j # k BY <2>1, <2>6
  <2> QED BY <1>1, <2>1, <2>6, <2>7
<1>6. CASE CloseDone(k) \/ CloseDiscard(k) \/ CloseDispose(k)
  <2>1. /\ con'[CallClient[k]] = None /\ dead' = dead
        /\ con[CallClient[k]] = conn[k] /\ k \in CloseCalls
        /\ \A d \in Clients : d # CallClient[k] => con'[d] = con[d]
    BY <1>6, Discards
  <2>2. c # CallClient[k] /\ con'[c] = con[c] BY <2>1
  <2>3. PICK j \in CloseCalls : conn[j] = con[c] /\ pc[j] \notin {"ready", "done"}
    BY <2>1, <2>2 DEF NoDeadConnection
  <2>4. CallClient[j] = c BY <2>2, <2>3 DEF ConnectionInv
  <2> QED BY <1>1, <2>2, <2>3, <2>4
<1>7. CASE OpenMoves(k) \/ OperationMoves(k) \/ OperationCall(k)
  <2>1. k \notin CloseCalls /\ con' = con /\ dead' = dead
    BY <1>7, Kinds
    DEF OpenMoves, OpenCall, OpenLock, OpenRefused, OpenLockAborted, OpenFailed, RollbackDone,
        OpenLabels, OperationMoves, OperationRefused, OperationLock, OperationStart,
        OperationLockAborted, OperationDone, StreamDispose, OperationCall, OperationLabels
  <2> QED BY <1>1, <2>1 DEF NoDeadConnection
<1>8. CASE CloseMoves(k)
  <2>1. /\ k \in CloseCalls /\ con' = con /\ dead' = dead
        /\ pc[k] # "ready"
        /\ pc'[k] # "done" \/ con[CallClient[k]] # conn[k]
    <3>1. k \in CloseCalls /\ con' = con /\ dead' = dead
      BY <1>8, Kinds
      DEF CloseMoves, CloseLock, CloseLockLate, CloseIo, CloseAborted, CloseStart,
          CloseStartAborted, CloseFailed, CloseRetried, CloseOutrun, DisposeDone, CloseLabels
    <3>2. \A label : Goto(k, label) => pc'[k] = label BY GotoPc
    <3>3. CASE CloseOutrun(k) BY <3>1, <3>3 DEF CloseOutrun
    <3>4. CASE DisposeDone(k) BY <3>1, <3>4 DEF DisposeDone, CloseInv
    <3> QED
      BY <1>8, <3>1, <3>2, <3>3, <3>4
      DEF CloseMoves, CloseLock, CloseLockLate, CloseIo, CloseAborted, CloseStart,
          CloseStartAborted, CloseFailed, CloseRetried
  <2>2. PICK j \in CloseCalls : conn[j] = con[c] /\ pc[j] \notin {"ready", "done"}
    BY <2>1 DEF NoDeadConnection
  <2>3. CallClient[j] = c BY <2>1, <2>2 DEF ConnectionInv
  <2> QED BY <1>1, <1>2, <2>1, <2>2, <2>3
<1> QED BY <1>3, <1>4, <1>5, <1>6, <1>7, <1>8, CallSteps

----------------------------------------------------------------------------
(* The invariant *)

\* The invariant holds when no client has been opened.
LEMMA InvInit == Init => IInv /\ NoDeadConnection
<1> SUFFICES ASSUME Init PROVE IInv /\ NoDeadConnection
  OBVIOUS
<1>1. TypeOK BY TypeInit
<1>2. LifecycleInv
  <2>1. \A p \in Plugins : owners[p] = {} /\ references[p] = 0
    BY DEF Init, LifecycleInit
  <2>2. IsFiniteSet({}) /\ Cardinality({}) = 0 BY FS_EmptySet
  <2> QED BY <2>1, <2>2 DEF Init, LifecycleInit, LifecycleInv, LifecycleAt, Managed
<1>3. CallInv
  BY DEF Init, CallInv, ConnectionInv, ExclusionInv, CloseInv, OperationInv, Exclusive, Shared
<1>4. TaskInv /\ UncountedInv
  BY DEF Init, TaskInv, UncountedInv, Closers
<1>5. UseInv
  BY DEF Init, LifecycleInit, UseInv, Closers
<1>6. NoDeadConnection BY DEF Init, NoDeadConnection
<1> QED BY <1>1, <1>2, <1>3, <1>4, <1>5, <1>6 DEF IInv, CallInv

\* Every step of every actor keeps the invariant.
LEMMA InvStep ==
    ASSUME ConcurrentClose = FALSE, IInv, NoDeadConnection, [Next]_vars
    PROVE  IInv' /\ NoDeadConnection'
<1>0. TypeOK' BY TypeStep DEF IInv
<1>1. TypeOK /\ CallTypeOK /\ CallInv /\ PluginInv
  BY DEF IInv, TypeOK, CallInv, PluginInv
<1>2. SUFFICES CallInv' /\ PluginInv' /\ NoDeadConnection'
  BY <1>0 DEF IInv, CallInv, PluginInv
<1>3. ASSUME NEW k \in Calls, CallStep(k)
      PROVE  CallInv' /\ PluginInv' /\ NoDeadConnection'
  <2>1. CallInv'
    BY <1>1, <1>3, ConnectionStep, ExclusionStep, CloseInvStep, OperationInvStep DEF CallInv
  <2>2. LifecycleInv'
    BY <1>1, <1>3, CallRestarts DEF PluginInv, LifecycleInv, LifecycleAt, lifecycleVars
  <2>3. TaskInv' /\ UseInv' /\ UncountedInv'
    BY <1>1, <1>3, CallTaskInv, CallUseInv, CallUncountedInv DEF CallInv, PluginInv
  <2>4. NoDeadConnection' BY <1>1, <1>3, CallNoDead DEF CallInv
  <2> QED BY <2>1, <2>2, <2>3, <2>4 DEF PluginInv
<1>4. ASSUME NEW k \in Calls, NEW s \in Slots, PluginStep(k, s) \/ PluginGivesUp(k, s)
      PROVE  CallInv' /\ PluginInv' /\ NoDeadConnection'
  <2>1. PluginInv' BY <1>1, <1>4, PluginInvStep
  <2>2. UNCHANGED <<con, pc, conn, aborted, dead>>
    BY <1>4
    DEF PluginStep, PluginOpenAtOnce, PluginOpenStarts, PluginOpenSucceeds,
        PluginOpenFails, PluginCloseAtOnce, PluginCloseStarts, PluginCloseSucceeds,
        PluginCloseFails, PluginRetryAtOnce, PluginRetryStarts, PluginRetrySucceeds,
        PluginRetryFails, PluginGivesUp, PluginOpenAborted, PluginCloseAborted,
        PluginRetryAborted
  <2> QED
    BY <1>1, <2>1, <2>2
    DEF CallInv, ConnectionInv, ExclusionInv, CloseInv, OperationInv, Forced, NoDeadConnection
<1>5. ASSUME NEW k \in Calls, Abort(k) PROVE CallInv' /\ PluginInv' /\ NoDeadConnection'
  <2>1. /\ UNCHANGED <<lifecycleVars, con, pc, conn, dead, task>>
        /\ \A j \in Calls : aborted[j] => aborted'[j]
    BY <1>1, <1>5 DEF Abort, CallTypeOK
  <2>2. ConnectionInv' /\ ExclusionInv' /\ NoDeadConnection'
    BY <1>1, <2>1 DEF CallInv, ConnectionInv, ExclusionInv, NoDeadConnection
  <2>3. CloseInv' BY <1>1, <2>1 DEF CallInv, CloseInv
  <2>4. OperationInv'
    <3>1. \A x : Forced(x) => Forced(x)' BY <2>1 DEF Forced
    <3> QED BY <1>1, <2>1, <3>1 DEF CallInv, OperationInv
  <2>5. LifecycleInv' BY <1>1, <2>1 DEF PluginInv, LifecycleInv, LifecycleAt, lifecycleVars
  <2>6. TaskInv' /\ UncountedInv'
    BY <1>1, <2>1 DEF PluginInv, TaskInv, UncountedInv, lifecycleVars
  <2>7. UseInv' BY <1>1, <2>1 DEF PluginInv, UseInv, Token, Target, lifecycleVars
  <2> QED BY <2>2, <2>3, <2>4, <2>5, <2>6, <2>7 DEF CallInv, PluginInv
<1>6. ASSUME NEW p \in Plugins, CloseFromOutside(p)
      PROVE  CallInv' /\ PluginInv' /\ NoDeadConnection'
  <2>1. p \in ExternallyClosed /\ ClosedFromOutside(p) /\ UNCHANGED callVars
    BY <1>6 DEF CloseFromOutside
  <2>2. /\ LifecycleInv'
        /\ UNCHANGED <<owners, holder>>
        /\ ~isOpen'[p]
        /\ \A q \in Plugins : q # p => isOpen'[q] = isOpen[q]
    BY <1>1, <2>1, ClosedFromOutsideLifecycle DEF TypeOK, PluginInv
  <2>3. TaskInv' BY <1>1, <2>1, <2>2 DEF PluginInv, TaskInv, callVars
  <2>4. UseInv' BY <1>1, <2>1, <2>2 DEF PluginInv, UseInv, Token, Target, callVars
  <2>5. UncountedInv' BY <1>1, <2>1, <2>2 DEF PluginInv, UncountedInv, callVars
  <2>6. CallInv' /\ NoDeadConnection'
    BY <1>1, <2>1
    DEF CallInv, ConnectionInv, ExclusionInv, CloseInv, OperationInv, Forced, callVars,
        NoDeadConnection
  <2> QED BY <2>2, <2>3, <2>4, <2>5, <2>6 DEF PluginInv
<1>7. CASE UNCHANGED vars
  <2>1. CallInv' /\ NoDeadConnection'
    BY <1>1, <1>7
    DEF vars, callVars, CallInv, ConnectionInv, ExclusionInv, CloseInv, OperationInv, Forced,
        NoDeadConnection
  <2>2. LifecycleInv'
    BY <1>1, <1>7 DEF vars, lifecycleVars, PluginInv, LifecycleInv, LifecycleAt
  <2>3. TaskInv' /\ UseInv' /\ UncountedInv'
    BY <1>1, <1>7
    DEF vars, callVars, lifecycleVars, PluginInv, TaskInv, UseInv, UncountedInv, Token, Target
  <2> QED BY <2>1, <2>2, <2>3 DEF PluginInv
<1> QED
  BY <1>3, <1>4, <1>5, <1>6, <1>7 DEF Next, Terminated, CallStep

\* The inductive invariant holds of clients that do not close twice at a time.
THEOREM Invariance ==
    ASSUME ConcurrentClose = FALSE
    PROVE  Spec => [](IInv /\ NoDeadConnection)
<1>1. Init => IInv /\ NoDeadConnection BY InvInit
<1>2. IInv /\ NoDeadConnection /\ [Next]_vars => (IInv /\ NoDeadConnection)'
  BY InvStep
<1> QED BY <1>1, <1>2, PTL DEF Spec

\* The number that PluginLifecycle keeps is the number of uses that were opened
\* and not closed, for any clients that share plugins and any interleaving of
\* their failing, aborted and rolled back opens and closes.
THEOREM CountIsExact ==
    ASSUME ConcurrentClose = FALSE
    PROVE  Spec => []ReferencesMatchOwners
<1>1. IInv => ReferencesMatchOwners
  BY DEF IInv, LifecycleInv, LifecycleAt, ReferencesMatchOwners
<1> QED BY <1>1, Invariance, PTL

\* A plugin that nobody uses is closed or marked as one whose close failed, and
\* no client closes a plugin that the application had opened itself.
THEOREM NothingStaysOpen ==
    ASSUME ConcurrentClose = FALSE
    PROVE  Spec => []UnusedPluginsAreClosed
<1>1. IInv => UnusedPluginsAreClosed
  BY DEF IInv, LifecycleInv, LifecycleAt, UnusedPluginsAreClosed
<1> QED BY <1>1, Invariance, PTL

\* The plugins of a live connection, and those under an operation or a stream
\* that no aborted close has overtaken, are open.
THEOREM UsedPluginsStayOpen ==
    ASSUME ConcurrentClose = FALSE
    PROVE  Spec => []PluginsOpenWhileUsed
<1>1. IInv => PluginsOpenWhileUsed
  <2> SUFFICES ASSUME IInv, NEW s \in Slots, SlotPlugin[s] \notin ExternallyClosed,
                      \/ con[SlotClient[s]] # None /\ ~dead[con[SlotClient[s]]]
                      \/ \E k \in Operations :
                            /\ CallClient[k] = SlotClient[s]
                            /\ pc[k] \in {"running", "streaming"}
                            /\ ~Forced(conn[k])
               PROVE  isOpen[SlotPlugin[s]]
    BY DEF PluginsOpenWhileUsed
  <2>1. /\ CallTypeOK /\ LifecycleInv /\ ConnectionInv /\ UseInv
        /\ UncountedInv /\ OperationInv
    BY DEF IInv, TypeOK
  <2>2. /\ con[SlotClient[s]] # None
        /\ \A j \in CloseCalls : conn[j] = con[SlotClient[s]] =>
              pc[j] \notin {"closing", "retrying", "failedLate"}
    <3>1. CASE con[SlotClient[s]] # None /\ ~dead[con[SlotClient[s]]]
      BY <2>1, <3>1 DEF ConnectionInv
    <3>2. ASSUME NEW k \in Operations, CallClient[k] = SlotClient[s],
                 pc[k] \in {"running", "streaming"}, ~Forced(conn[k])
          PROVE  /\ con[SlotClient[s]] # None
                 /\ \A j \in CloseCalls : conn[j] = con[SlotClient[s]] =>
                       pc[j] \notin {"closing", "retrying", "failedLate"}
      <4>1. conn[k] # None BY <2>1, <3>2 DEF CallTypeOK
      <4> QED BY <2>1, <3>2, <4>1 DEF OperationInv
    <3> QED BY <3>1, <3>2
  <2>3. CASE SlotPlugin[s] \in Managed
    <3>1. owners[SlotPlugin[s]] # {} BY <2>1, <2>2, <2>3 DEF UseInv
    <3> QED BY <2>1, <2>3, <3>1 DEF LifecycleInv, LifecycleAt
  <2>4. CASE SlotPlugin[s] \notin Managed
    BY <2>1, <2>2, <2>4 DEF UncountedInv
  <2> QED BY <2>3, <2>4
<1> QED BY <1>1, Invariance, PTL

\* A client whose connection was aborted has a close on its way that discards it.
THEOREM DeadConnectionsAreDiscarded ==
    ASSUME ConcurrentClose = FALSE
    PROVE  Spec => []NoDeadConnection
BY Invariance, PTL

----------------------------------------------------------------------------
(* Who releases a use *)

\* A plugin's own open or close runs for a task that waits for it.
HolderInv ==
    \A p \in Plugins : holder[p] # None =>
        LET k == holder[p][1]
            s == holder[p][2]
        IN  /\ SlotPlugin[s] = p
            /\ \/ task[k][s] = "busy" /\ pc[k] \in {"opening"} \cup Closers
               \/ task[k][s] = "retryBusy" /\ pc[k] \in Retriers

\* A close gave up the use <<x, s>> without having reached the lifecycle.
GivenUp(x, s) ==
    <<x, s>> \in abandoned /\ (Forced(x) \/ SlotPlugin[s] \in ExternallyClosed)

\* A close has been at the plugin of a slot.
Passed(k, s) ==
    \/ pc[k] = "closing" /\ task[k][s] # "wait"
    \/ pc[k] \in {"retrying", "failedLate"}

\* Somebody is responsible for the use <<x, s>>.
Released(x, s) ==
    \/ con[CallClient[x]] = x
    \/ pc[x] = "opening"
    \/ pc[x] = "rollback" /\ task[x][s] = "wait"
    \/ \E k \in CloseCalls : conn[k] = x /\ pc[k] = "disposing" /\ task[k][s] = "wait"
    \/ GivenUp(x, s)

\* A use is counted at the plugin of its slot, somebody is responsible for it,
\* and what is still counted where a close has been was given up by it.
ReleaseAt(p, x, s) ==
    /\ p = SlotPlugin[s] /\ SlotClient[s] = CallClient[x]
    /\ Released(x, s)
    /\ \A k \in CloseCalls : conn[k] = x /\ Passed(k, s) => GivenUp(x, s)

ReleaseInv ==
    \A p \in Plugins, x \in OpenCalls, s \in Slots :
        <<x, s>> \in owners[p] => ReleaseAt(p, x, s)

\* A call moves on only when none of its tasks is at a plugin.
LEMMA TasksHaveSettled ==
    ASSUME NEW k \in Calls, CallStep(k), NEW s \in Slots, SlotClient[s] = CallClient[k]
    PROVE  /\ pc[k] \in {"opening"} \cup Closers => task[k][s] \notin {"wait", "busy"}
           /\ pc[k] \in Retriers => task[k][s] # "retryBusy"
<1> USE DEF Closers, Retriers, Settled, SlotsOf
<1>1. CASE OpenStep(k)
  BY <1>1 DEF OpenStep, OpenCall, OpenLock, OpenRefused, OpenLockAborted, OpenDone, OpenFailed,
     RollbackDone
<1>2. CASE CloseStep(k)
  BY <1>2
  DEF CloseStep, CloseCall, CloseRefused, CloseLock, CloseLockLate, CloseIo, CloseAborted,
      CloseStart, CloseStartAborted, CloseDone, CloseFailed, CloseRetried, CloseDiscard,
      CloseDispose, CloseOutrun, DisposeDone
<1>3. CASE OperationStep(k) \/ StreamDispose(k)
  BY <1>3
  DEF OperationStep, OperationCall, OperationRefused, OperationLock, OperationStart,
      OperationLockAborted, OperationDone, StreamDispose
<1> QED BY <1>1, <1>2, <1>3 DEF CallStep

\* No call leaves a plugin's own open or close behind.
LEMMA CallHolder ==
    ASSUME TypeOK, TaskInv, HolderInv, NEW k \in Calls, CallStep(k)
    PROVE  HolderInv'
<1>1. PICK label : Goto(k, label) /\ Restarts(k, label) BY CallRestarts
<1>2. \A j \in Calls : j # k => pc'[j] = pc[j] BY <1>1, GotoPc DEF TypeOK
<1>3. \A j \in Calls \ {k} : \A s \in Slots : task'[j][s] = task[j][s]
  BY <1>1, RestartEffect
<1>4. UNCHANGED holder BY CallRestarts DEF lifecycleVars
<1> SUFFICES ASSUME NEW p \in Plugins, holder[p] # None,
                    NEW j \in Calls, NEW s \in Slots, holder[p] = <<j, s>>
             PROVE  /\ SlotPlugin[s] = p
                    /\ \/ task'[j][s] = "busy" /\ pc'[j] \in {"opening"} \cup Closers
                       \/ task'[j][s] = "retryBusy" /\ pc'[j] \in Retriers
  <2>1. holder \in [Plugins -> (Calls \X Slots) \cup {None}] BY DEF TypeOK, LifecycleTypeOK
  <2> QED BY <1>4, <2>1 DEF HolderInv
<1>5. /\ SlotPlugin[s] = p
      /\ \/ task[j][s] = "busy" /\ pc[j] \in {"opening"} \cup Closers
         \/ task[j][s] = "retryBusy" /\ pc[j] \in Retriers
  <2>1. holder[p][1] = j /\ holder[p][2] = s OBVIOUS
  <2> QED BY <2>1 DEF HolderInv
<1>6. j # k
  <2>1. SlotClient[s] = CallClient[j] BY <1>5 DEF TaskInv
  <2> QED BY <1>5, <2>1, TasksHaveSettled
<1> QED BY <1>2, <1>3, <1>5, <1>6

\* A use that was given up stays given up.
LEMMA GivenUpStays ==
    ASSUME CallTypeOK, ConnectionInv,
           \A j \in CloseCalls : aborted[j] => aborted'[j],
           \A j \in CloseCalls : pc[j] # "ready" => conn'[j] = conn[j],
           abandoned \subseteq abandoned',
           NEW x \in OpenCalls, NEW s \in Slots, GivenUp(x, s)
    PROVE  GivenUp(x, s)'
BY ForcedStays DEF GivenUp

\* What a close does to the uses of its connection when it moves on.
LEMMA CallPasses ==
    ASSUME TypeOK, ConnectionInv, CloseInv, NEW k \in CloseCalls, CallStep(k),
           NEW x \in OpenCalls, NEW s \in Slots, SlotClient[s] = CallClient[x],
           conn'[k] = x, Passed(k, s)'
    PROVE  conn[k] = x /\ (Passed(k, s) \/ GivenUp(x, s)')
<1> USE DEF TypeOK
<1>0. k \in Calls /\ k \notin OpenCalls /\ k \notin Operations OBVIOUS
<1>1. pc'[k] \in {"closing", "retrying", "failedLate"} BY DEF Passed
<1>2. \/ CloseStart(k) \/ CloseStartAborted(k) \/ CloseFailed(k) \/ CloseRetried(k)
  <2>1. \A label : Goto(k, label) => pc'[k] = label BY <1>0, GotoPc
  <2>2. CloseStep(k)
    BY <1>0, Kinds DEF CallStep, OpenStep, OperationStep, OpenCall, OpenLock, OpenRefused,
       OpenLockAborted, OpenDone, OpenFailed, RollbackDone, OperationCall, OperationRefused,
       OperationLock, OperationStart, OperationLockAborted, OperationDone, StreamDispose,
       OpenLabels, OperationLabels
  <2> QED
    BY <1>1, <2>1, <2>2
    DEF CloseStep, CloseCall, CloseRefused, CloseLock, CloseLockLate, CloseIo, CloseAborted,
        CloseDone, CloseDiscard, CloseDispose, CloseOutrun, DisposeDone
<1>3. conn[k] = x /\ UNCHANGED <<conn, aborted>>
  BY <1>2 DEF CloseStart, CloseStartAborted, CloseFailed, CloseRetried
<1>4. CallClient[k] = CallClient[x]
  BY <1>0, <1>3 DEF ConnectionInv
<1>5. CASE CloseStart(k)
  <2>1. /\ pc'[k] = "closing"
        /\ task' = Restart(k, {"none"}, "wait", "wait")
    BY <1>0, <1>5, GotoPc DEF CloseStart
  <2>2. task'[k][s] = "wait"
    BY <1>0, <1>4, <2>1, RestartTasks DEF CallTypeOK, TaskLabels
  <2> QED BY <2>1, <2>2 DEF Passed
<1>6. CASE CloseStartAborted(k)
  <2>1. <<x, s>> \in abandoned'
    BY <1>0, <1>3, <1>4, <1>6 DEF CloseStartAborted, Token, Target, SlotsOf
  <2>2. aborted'[k] /\ conn'[k] = x BY <1>0, <1>3, <1>6 DEF CloseStartAborted, Aborted
  <2>3. Forced(x)' BY <2>2 DEF Forced
  <2> QED BY <1>3, <2>1, <2>3 DEF GivenUp
<1>7. CASE CloseFailed(k)
  BY <1>3, <1>4, <1>7 DEF CloseFailed, Settled, SlotsOf, Passed
<1>8. CASE CloseRetried(k) BY <1>3, <1>8 DEF CloseRetried, Passed
<1> QED BY <1>2, <1>5, <1>6, <1>7, <1>8

\* A call that moves on passes the responsibility for its uses on.
LEMMA CallRelease ==
    ASSUME TypeOK, ConnectionInv, CloseInv, LifecycleInv, TaskInv, UseInv, ReleaseInv,
           NEW k \in Calls, CallStep(k)
    PROVE  ReleaseInv'
<1> USE DEF TypeOK
<1>1. PICK label : Goto(k, label) /\ Restarts(k, label) BY CallRestarts
<1>2. pc'[k] = label /\ \A j \in Calls : j # k => pc'[j] = pc[j] BY <1>1, GotoPc
<1>3. \A j \in Calls \ {k} : \A s \in Slots : task'[j][s] = task[j][s]
  BY <1>1, RestartEffect
<1>4. \A j \in Calls : j # k => conn'[j] = conn[j] BY ConnStays
<1>5. /\ pc[k] # "ready" => conn'[k] = conn[k]
      /\ pc'[k] = "disposing" => CloseDispose(k)
  BY CallOrigins
<1>6. abandoned \subseteq abandoned' /\ UNCHANGED aborted
  BY DEF CallStep, OpenStep, CloseStep, OperationStep, OpenCall, OpenLock, OpenRefused,
     OpenLockAborted, OpenDone, OpenFailed, RollbackDone, CloseCall, CloseRefused, CloseLock,
     CloseLockLate, CloseIo, CloseAborted, CloseStart, CloseStartAborted, CloseDone, CloseFailed,
     CloseRetried, CloseDiscard, CloseDispose, CloseOutrun, DisposeDone, OperationCall,
     OperationRefused, OperationLock, OperationStart, OperationLockAborted, OperationDone,
     StreamDispose
<1> SUFFICES ASSUME NEW p \in Plugins, NEW x \in OpenCalls, NEW s \in Slots,
                    <<x, s>> \in owners[p]
             PROVE  ReleaseAt(p, x, s)'
  BY CallRestarts DEF ReleaseInv, lifecycleVars
<1>7. /\ p = SlotPlugin[s] /\ SlotClient[s] = CallClient[x]
      /\ Released(x, s)
      /\ \A j \in CloseCalls : conn[j] = x /\ Passed(j, s) => GivenUp(x, s)
  BY DEF ReleaseInv, ReleaseAt
<1>8. GivenUp(x, s) => GivenUp(x, s)'
  BY <1>4, <1>5, <1>6, GivenUpStays
<1>9. \A j \in CloseCalls : conn'[j] = x /\ Passed(j, s)' => GivenUp(x, s)'
  <2> SUFFICES ASSUME NEW j \in CloseCalls, conn'[j] = x, Passed(j, s)'
               PROVE  GivenUp(x, s)'
    OBVIOUS
  <2>1. CASE j = k BY <1>7, <1>8, <2>1, CallPasses
  <2>2. CASE j # k
    <3>1. conn[j] = x /\ Passed(j, s) BY <1>2, <1>3, <1>4, <2>2 DEF Passed
    <3> QED BY <1>7, <1>8, <3>1
  <2> QED BY <2>1, <2>2
<1>10. Released(x, s)'
  <2> SUFFICES ASSUME ~GivenUp(x, s) PROVE Released(x, s)'
    BY <1>8 DEF Released
  <2>1. CASE con[CallClient[x]] = x
    <3>1. CallClient[x] \in Clients /\ x # None OBVIOUS
    <3>2. CASE con'[CallClient[x]] = x BY <3>2 DEF Released
    <3>3. ~OpenDone(k) \/ CallClient[x] # CallClient[k]
      BY <2>1, <3>1, Publishes DEF ConnectionInv
    <3>4. CASE con'[CallClient[x]] = None
      <4>1. CloseDone(k) \/ CloseDiscard(k) \/ CloseDispose(k)
        <5>1. con' # con BY <2>1, <3>1, <3>4
        <5>2. CASE OpenDone(k)
          BY <2>1, <3>1, <3>3, <3>4, <5>2, Publishes
        <5> QED
          BY <5>1, <5>2
          DEF CallStep, OpenStep, CloseStep, OperationStep, OpenCall, OpenLock, OpenRefused,
              OpenLockAborted, OpenFailed, RollbackDone, CloseCall, CloseRefused,
              CloseLock, CloseLockLate, CloseIo, CloseAborted, CloseStart, CloseStartAborted,
              CloseFailed, CloseRetried, CloseOutrun, DisposeDone, OperationCall,
              OperationRefused, OperationLock, OperationStart, OperationLockAborted,
              OperationDone, StreamDispose
      <4>2. /\ k \in CloseCalls /\ con[CallClient[k]] = conn[k] /\ UNCHANGED conn
            /\ \A c \in Clients : c # CallClient[k] => con'[c] = con[c]
        BY <4>1, Discards
      <4>3. CallClient[k] = CallClient[x] /\ conn[k] = x
        BY <2>1, <3>1, <3>4, <4>2
      <4>4. ~Passed(k, s) BY <1>7, <4>2, <4>3
      <4>5. CloseDispose(k)
        BY <1>7, <4>1, <4>3, <4>4 DEF CloseDone, CloseDiscard, Passed, Settled, SlotsOf
      <4>6. pc'[k] = "disposing" /\ task' = Restart(k, {"none"}, "wait", "wait")
        BY <4>5, GotoPc DEF CloseDispose
      <4>7. task'[k][s] = "wait"
        BY <1>7, <4>3, <4>6, RestartTasks DEF CallTypeOK, TaskLabels
      <4> QED BY <4>2, <4>3, <4>6, <4>7 DEF Released
    <3> QED BY <2>1, <3>1, <3>2, <3>3, <3>4, ConStays
  <2>2. CASE pc[x] = "opening" /\ x # k BY <1>2, <2>2 DEF Released
  <2>3. CASE pc[x] = "opening" /\ x = k
    <3>1. OpenDone(k) \/ OpenFailed(k)
      BY <2>3 DEF CallStep, OpenStep, CloseStep, OperationStep, OpenCall, OpenLock, OpenRefused,
              OpenLockAborted, RollbackDone, CloseCall, CloseRefused,
              CloseLock, CloseLockLate, CloseIo, CloseAborted, CloseStart, CloseStartAborted,
              CloseDone, CloseDiscard, CloseDispose,
              CloseFailed, CloseRetried, CloseOutrun, DisposeDone, OperationCall,
              OperationRefused, OperationLock, OperationStart, OperationLockAborted,
              OperationDone, StreamDispose
    <3>2. CASE OpenDone(k) BY <2>3, <3>2, Publishes DEF Released
    <3>3. CASE OpenFailed(k)
      <4>1. pc'[k] = "rollback" /\ task' = Restart(k, {"ok"}, "wait", "settled")
        BY <3>3, GotoPc DEF OpenFailed
      <4>2. p \in Managed BY DEF LifecycleInv, LifecycleAt
      <4>3. task[k][s] = "ok" BY <1>7, <2>3, <4>2 DEF UseInv
      <4>4. task'[k][s] = "wait"
        BY <1>7, <2>3, <4>1, <4>3, RestartTasks DEF CallTypeOK, TaskLabels
      <4> QED BY <2>3, <4>1, <4>4 DEF Released
    <3> QED BY <3>1, <3>2, <3>3
  <2>4. CASE pc[x] = "rollback" /\ task[x][s] = "wait"
    <3>1. x # k BY <1>7, <2>4, TasksHaveSettled DEF Closers
    <3> QED BY <1>2, <1>3, <2>4, <3>1 DEF Released
  <2>5. ASSUME NEW j \in CloseCalls, conn[j] = x, pc[j] = "disposing", task[j][s] = "wait"
        PROVE  Released(x, s)'
    <3>1. CallClient[j] = CallClient[x] BY <2>5 DEF ConnectionInv
    <3>2. j # k BY <1>7, <2>5, <3>1, TasksHaveSettled DEF Closers
    <3> QED BY <1>2, <1>3, <1>4, <2>5, <3>2 DEF Released
  <2> QED BY <1>7, <2>1, <2>2, <2>3, <2>4, <2>5 DEF Released
<1> QED BY <1>7, <1>9, <1>10 DEF ReleaseAt

\* What a step of a plugin task does to the holder of the wrapper lock.
LEMMA TaskHolder ==
    ASSUME TypeOK, TaskInv, HolderInv, NEW k \in Calls, NEW s \in Slots,
           PluginStep(k, s) \/ PluginGivesUp(k, s)
    PROVE  HolderInv'
<1> DEFINE p == SlotPlugin[s]
<1>t. /\ holder \in [Plugins -> (Calls \X Slots) \cup {None}] /\ p \in Plugins
      /\ <<k, s>> # None /\ CallTypeOK
      /\ {"ok", "busy", "failed", "settled", "retryBusy", "retryWait"} \subseteq TaskLabels
  BY DEF TypeOK, LifecycleTypeOK, TaskLabels
<1>a. AfterFailure(k) \in TaskLabels BY DEF AfterFailure, TaskLabels
<1>1. UNCHANGED pc
  BY DEF PluginStep, PluginOpenAtOnce, PluginOpenStarts, PluginOpenSucceeds,
     PluginOpenFails, PluginCloseAtOnce, PluginCloseStarts, PluginCloseSucceeds,
     PluginCloseFails, PluginRetryAtOnce, PluginRetryStarts, PluginRetrySucceeds,
     PluginRetryFails, PluginGivesUp, PluginOpenAborted, PluginCloseAborted, PluginRetryAborted
<1>2. \A j \in Calls, r \in Slots : <<j, r>> # <<k, s>> => task'[j][r] = task[j][r]
  <2>1. \E label \in TaskLabels : Step(k, s, label)
    BY <1>t, <1>a DEF PluginStep, PluginOpenAtOnce, PluginOpenStarts, PluginOpenSucceeds,
       PluginOpenFails, PluginCloseAtOnce, PluginCloseStarts, PluginCloseSucceeds,
       PluginCloseFails, PluginRetryAtOnce, PluginRetryStarts, PluginRetrySucceeds,
       PluginRetryFails, PluginGivesUp, PluginOpenAborted, PluginCloseAborted,
       PluginRetryAborted
  <2> QED BY <1>t, <2>1, StepTasks
<1>3. /\ \A q \in Plugins : q # p => holder'[q] = holder[q]
      /\ \/ holder'[p] = None
         \/ holder'[p] = holder[p] /\ task[k][s] \notin {"busy", "retryBusy"}
         \/ /\ holder'[p] = <<k, s>>
            /\ \/ task'[k][s] = "busy" /\ pc[k] \in {"opening"} \cup Closers
               \/ task'[k][s] = "retryBusy" /\ pc[k] \in Retriers
  <2>1. CASE PluginOpenStarts(k, s)
    <3>1. task'[k][s] = "busy" BY <1>t, <2>1, StepTasks DEF PluginOpenStarts
    <3> QED BY <1>t, <2>1, <3>1 DEF PluginOpenStarts, RealOpenStarts
  <2>2. CASE PluginCloseStarts(k, s)
    <3>1. task'[k][s] = "busy" BY <1>t, <2>2, StepTasks DEF PluginCloseStarts
    <3> QED BY <1>t, <2>2, <3>1 DEF PluginCloseStarts, RealCloseStarts
  <2>3. CASE PluginRetryStarts(k, s)
    <3>1. task'[k][s] = "retryBusy" BY <1>t, <2>3, StepTasks DEF PluginRetryStarts
    <3> QED BY <1>t, <2>3, <3>1 DEF PluginRetryStarts, RetryStarts
  <2>4. CASE \/ PluginOpenSucceeds(k, s) \/ PluginOpenFails(k, s) \/ PluginCloseSucceeds(k, s)
             \/ PluginCloseFails(k, s) \/ PluginRetrySucceeds(k, s) \/ PluginRetryFails(k, s)
    BY <1>t, <2>4
    DEF PluginOpenSucceeds, PluginOpenFails, PluginCloseSucceeds, PluginCloseFails,
        PluginRetrySucceeds, PluginRetryFails, RealOpenSucceeds, RealOpenFails,
        RealCloseSucceeds, RealCloseFails
  <2>5. CASE \/ PluginOpenAtOnce(k, s) \/ PluginCloseAtOnce(k, s) \/ PluginRetryAtOnce(k, s)
             \/ PluginGivesUp(k, s)
    BY <1>t, <2>5
    DEF PluginOpenAtOnce, PluginCloseAtOnce, PluginRetryAtOnce, PluginGivesUp,
        PluginOpenAborted, PluginCloseAborted, PluginRetryAborted, OpenAtOnce, CloseAtOnce,
        RetryAtOnce, lifecycleVars
  <2> QED BY <2>1, <2>2, <2>3, <2>4, <2>5 DEF PluginStep
<1> HIDE DEF p
<1> SUFFICES ASSUME NEW q \in Plugins, holder'[q] # None
             PROVE  /\ SlotPlugin[holder'[q][2]] = q
                    /\ \/ /\ task'[holder'[q][1]][holder'[q][2]] = "busy"
                          /\ pc'[holder'[q][1]] \in {"opening"} \cup Closers
                       \/ /\ task'[holder'[q][1]][holder'[q][2]] = "retryBusy"
                          /\ pc'[holder'[q][1]] \in Retriers
  BY DEF HolderInv
<1>4. CASE q = p /\ holder'[p] = <<k, s>> /\ holder'[p] # holder[p]
  <2>1. holder'[q][1] = k /\ holder'[q][2] = s BY <1>4
  <2> QED BY <1>1, <1>3, <1>4, <2>1 DEF p
<1>5. ASSUME holder'[q] = holder[q],
             q = p => \/ task[k][s] \notin {"busy", "retryBusy"}
                      \/ /\ holder'[p] = <<k, s>>
                         /\ \/ task'[k][s] = "busy" /\ pc[k] \in {"opening"} \cup Closers
                            \/ task'[k][s] = "retryBusy" /\ pc[k] \in Retriers
      PROVE  /\ SlotPlugin[holder'[q][2]] = q
             /\ \/ /\ task'[holder'[q][1]][holder'[q][2]] = "busy"
                   /\ pc'[holder'[q][1]] \in {"opening"} \cup Closers
                \/ /\ task'[holder'[q][1]][holder'[q][2]] = "retryBusy"
                   /\ pc'[holder'[q][1]] \in Retriers
  <2>1. PICK j \in Calls, r \in Slots : holder[q] = <<j, r>> BY <1>t, <1>5
  <2>2. holder[q][1] = j /\ holder[q][2] = r /\ holder'[q][1] = j /\ holder'[q][2] = r
    BY <1>5, <2>1
  <2>3. /\ SlotPlugin[r] = q
        /\ \/ task[j][r] = "busy" /\ pc[j] \in {"opening"} \cup Closers
           \/ task[j][r] = "retryBusy" /\ pc[j] \in Retriers
    BY <1>5, <2>2 DEF HolderInv
  <2>4. CASE <<j, r>> # <<k, s>> BY <1>1, <1>2, <2>2, <2>3, <2>4
  <2>5. CASE j = k /\ r = s BY <1>1, <1>5, <2>1, <2>2, <2>3, <2>5 DEF p
  <2> QED BY <2>4, <2>5
<1> QED BY <1>3, <1>4, <1>5

\* A plugin that is in use and that only clients close is not inside its own
\* open or close.
LEMMA UsedAndFree ==
    ASSUME TypeOK, LifecycleInv, TaskInv, HolderInv,
           NEW p \in Plugins \ ExternallyClosed, owners[p] # {}
    PROVE  holder[p] = None
<1> SUFFICES ASSUME holder[p] # None PROVE FALSE
  OBVIOUS
<1>1. PICK j \in Calls, r \in Slots : holder[p] = <<j, r>>
  BY DEF TypeOK, LifecycleTypeOK
<1>2. holder[p][1] = j /\ holder[p][2] = r BY <1>1
<1>3. /\ SlotPlugin[r] = p
      /\ \/ task[j][r] = "busy" /\ pc[j] \in {"opening"} \cup Closers
         \/ task[j][r] = "retryBusy" /\ pc[j] \in Retriers
  BY <1>2 DEF HolderInv
<1>4. p \in Managed /\ isOpen[p] BY DEF LifecycleInv, LifecycleAt
<1> QED BY <1>3, <1>4 DEF TaskInv

\* What a step of a plugin task does to the uses that are counted.
LEMMA TaskUses ==
    ASSUME TypeOK, NEW k \in Calls, NEW s \in Slots,
           PluginStep(k, s) \/ PluginGivesUp(k, s)
    PROVE  /\ UNCHANGED <<con, pc, conn, aborted, dead>>
           /\ abandoned \subseteq abandoned'
           /\ \A j \in Calls, r \in Slots : <<j, r>> # <<k, s>> => task'[j][r] = task[j][r]
           /\ \A t : \A q \in Plugins : t \in owners'[q] /\ t \notin owners[q] =>
                 pc[k] = "opening" /\ q = SlotPlugin[s] /\ t = Token(k, s)
           /\ pc[k] \in Closers /\ task[k][s] = "wait" =>
                 \/ Token(k, s) \notin owners'[SlotPlugin[s]]
                 \/ /\ Token(k, s) \in abandoned'
                    /\ holder[SlotPlugin[s]] # None
                    /\ UNCHANGED owners
                    /\ pc[k] = "closing" => Aborted(k)
           /\ task[k][s] # "none"
<1> DEFINE p == SlotPlugin[s]
<1>t. /\ LifecycleTypeOK /\ CallTypeOK /\ p \in Plugins
      /\ {"ok", "busy", "failed", "settled", "retryBusy", "retryWait"} \subseteq TaskLabels
      /\ AfterFailure(k) \in TaskLabels
  BY DEF TypeOK, TaskLabels, AfterFailure
<1>1. \E label \in TaskLabels : Step(k, s, label)
  BY <1>t DEF PluginStep, PluginOpenAtOnce, PluginOpenStarts, PluginOpenSucceeds,
     PluginOpenFails, PluginCloseAtOnce, PluginCloseStarts, PluginCloseSucceeds,
     PluginCloseFails, PluginRetryAtOnce, PluginRetryStarts, PluginRetrySucceeds,
     PluginRetryFails, PluginGivesUp, PluginOpenAborted, PluginCloseAborted,
     PluginRetryAborted
<1>2. \A j \in Calls, r \in Slots : <<j, r>> # <<k, s>> => task'[j][r] = task[j][r]
  BY <1>t, <1>1, StepTasks
<1>3. /\ UNCHANGED <<con, pc, conn, aborted, dead>>
      /\ abandoned \subseteq abandoned'
      /\ task[k][s] # "none"
  BY DEF PluginStep, PluginOpenAtOnce, PluginOpenStarts, PluginOpenSucceeds,
     PluginOpenFails, PluginCloseAtOnce, PluginCloseStarts, PluginCloseSucceeds,
     PluginCloseFails, PluginRetryAtOnce, PluginRetryStarts, PluginRetrySucceeds,
     PluginRetryFails, PluginGivesUp, PluginOpenAborted, PluginCloseAborted, PluginRetryAborted
<1>4. CASE PluginOpenAtOnce(k, s) \/ PluginOpenSucceeds(k, s)
  <2>1. pc[k] = "opening"
    BY <1>4 DEF PluginOpenAtOnce, PluginOpenSucceeds
  <2>2. Count(p, Token(k, s)) \/ UNCHANGED owners
    BY <1>4 DEF PluginOpenAtOnce, PluginOpenSucceeds, OpenAtOnce, RealOpenSucceeds
  <2>3. \A t : \A q \in Plugins : t \in owners'[q] /\ t \notin owners[q] =>
           q = p /\ t = Token(k, s)
    BY <1>t, <2>2 DEF Count, LifecycleTypeOK
  <2> QED BY <1>2, <1>3, <2>1, <2>3 DEF Closers
<1>5. CASE PluginCloseAtOnce(k, s) \/ PluginCloseStarts(k, s)
  <2>1. owners' = [owners EXCEPT ![p] = @ \ {Token(k, s)}]
    BY <1>5 DEF PluginCloseAtOnce, PluginCloseStarts, CloseAtOnce, RealCloseStarts
  <2>2. /\ owners'[p] = owners[p] \ {Token(k, s)}
        /\ \A q \in Plugins : q # p => owners'[q] = owners[q]
    BY <1>t, <2>1 DEF LifecycleTypeOK
  <2> QED BY <1>2, <1>3, <2>2
<1>6. CASE PluginCloseAborted(k, s)
  <2>1. UNCHANGED owners BY <1>6 DEF PluginCloseAborted, lifecycleVars
  <2> QED BY <1>2, <1>3, <1>6, <2>1 DEF PluginCloseAborted
<1>7. CASE \/ PluginOpenStarts(k, s) \/ PluginOpenFails(k, s) \/ PluginCloseSucceeds(k, s)
           \/ PluginCloseFails(k, s) \/ PluginRetryAtOnce(k, s) \/ PluginRetryStarts(k, s)
           \/ PluginRetrySucceeds(k, s) \/ PluginRetryFails(k, s)
           \/ PluginOpenAborted(k, s) \/ PluginRetryAborted(k, s)
  <2>1. UNCHANGED owners
    BY <1>7
    DEF PluginOpenStarts, PluginOpenFails, PluginCloseSucceeds, PluginCloseFails,
        PluginRetryAtOnce, PluginRetryStarts, PluginRetrySucceeds, PluginRetryFails,
        PluginOpenAborted, PluginRetryAborted, RealOpenStarts, RealOpenFails,
        RealCloseSucceeds, RealCloseFails, RetryAtOnce, RetryStarts, lifecycleVars
  <2>2. ~(pc[k] \in Closers /\ task[k][s] = "wait")
    BY <1>7
    DEF PluginOpenStarts, PluginOpenFails, PluginCloseSucceeds, PluginCloseFails,
        PluginRetryAtOnce, PluginRetryStarts, PluginRetrySucceeds, PluginRetryFails,
        PluginOpenAborted, PluginRetryAborted, Closers
  <2> QED BY <1>2, <1>3, <2>1, <2>2
<1> QED BY <1>4, <1>5, <1>6, <1>7 DEF PluginStep, PluginGivesUp

\* A task that is done with a plugin has released its use, or given it up.
LEMMA TaskRelease ==
    ASSUME TypeOK, ConnectionInv, LifecycleInv, TaskInv, HolderInv, ReleaseInv,
           NEW k \in Calls, NEW s \in Slots, PluginStep(k, s) \/ PluginGivesUp(k, s)
    PROVE  ReleaseInv'
<1> USE DEF TypeOK
<1>1. /\ UNCHANGED <<con, pc, conn, aborted, dead>>
      /\ abandoned \subseteq abandoned'
      /\ \A j \in Calls, r \in Slots : <<j, r>> # <<k, s>> => task'[j][r] = task[j][r]
      /\ task[k][s] # "none"
  BY TaskUses
<1>2. \A x \in OpenCalls, r \in Slots : GivenUp(x, r) => GivenUp(x, r)'
  BY <1>1, GivenUpStays
<1> SUFFICES ASSUME NEW q \in Plugins, NEW x \in OpenCalls, NEW r \in Slots,
                    <<x, r>> \in owners'[q]
             PROVE  ReleaseAt(q, x, r)'
  BY DEF ReleaseInv
<1>3. CASE <<x, r>> \notin owners[q]
  <2>1. pc[k] = "opening" /\ q = SlotPlugin[s] /\ <<x, r>> = Token(k, s)
    BY <1>3, TaskUses
  <2>2. k = x /\ r = s BY <2>1, Kinds DEF OpenLabels, Token, Target
  <2>3. SlotClient[r] = CallClient[x] BY <1>1, <2>2 DEF TaskInv
  <2>4. \A j \in CloseCalls : conn[j] # x BY <2>1, <2>2 DEF ConnectionInv
  <2> QED BY <1>1, <2>1, <2>2, <2>3, <2>4 DEF ReleaseAt, Released
<1>4. CASE <<x, r>> \in owners[q]
  <2>1. /\ q = SlotPlugin[r] /\ SlotClient[r] = CallClient[x]
        /\ Released(x, r)
        /\ \A j \in CloseCalls : conn[j] = x /\ Passed(j, r) => GivenUp(x, r)
    BY <1>4 DEF ReleaseInv, ReleaseAt
  <2>2. ASSUME pc[k] \in Closers, task[k][s] = "wait", Target(k) = x, r = s
        PROVE  GivenUp(x, r)'
    <3>1. Token(k, s) = <<x, r>> BY <2>2 DEF Token
    <3>2. /\ <<x, r>> \in abandoned'
          /\ holder[q] # None
          /\ owners[q] # {}
          /\ pc[k] = "closing" => Aborted(k)
      BY <1>4, <2>1, <2>2, <3>1, TaskUses
    <3>3. CASE pc[k] = "closing"
      <4>1. k \in CloseCalls BY <3>3, Kinds DEF CloseLabels
      <4>2. conn[k] = x /\ aborted[k] BY <2>2, <3>2, <3>3, <4>1 DEF Target, Aborted
      <4>3. Forced(x)' BY <1>1, <4>1, <4>2 DEF Forced
      <4> QED BY <3>2, <4>3 DEF GivenUp
    <3>4. q \in ExternallyClosed \/ pc[k] = "closing"
      BY <3>2, UsedAndFree
    <3> QED BY <2>1, <3>2, <3>3, <3>4 DEF GivenUp
  <2>3. SUFFICES ASSUME ~GivenUp(x, r)' PROVE ReleaseAt(q, x, r)'
    BY <2>1 DEF ReleaseAt, Released
  <2>4. ~GivenUp(x, r) BY <1>2, <2>3
  <2>5. ASSUME NEW j \in CloseCalls, conn'[j] = x, Passed(j, r)' PROVE FALSE
    <3>1. conn[j] = x /\ ~Passed(j, r) BY <1>1, <2>1, <2>4, <2>5
    <3>2. <<j, r>> = <<k, s>> /\ pc[j] = "closing" /\ task[j][r] = "wait"
      BY <1>1, <2>5, <3>1 DEF Passed
    <3> QED BY <2>2, <2>3, <3>1, <3>2 DEF Target, Closers
  <2>6. Released(x, r)'
    <3>1. CASE con[CallClient[x]] = x \/ pc[x] = "opening"
      BY <1>1, <3>1 DEF Released
    <3>2. CASE pc[x] = "rollback" /\ task[x][r] = "wait"
      <4>1. <<x, r>> # <<k, s>> BY <2>2, <2>3, <3>2 DEF Target, Closers
      <4> QED BY <1>1, <3>2, <4>1 DEF Released
    <3>3. ASSUME NEW j \in CloseCalls, conn[j] = x, pc[j] = "disposing", task[j][r] = "wait"
          PROVE  Released(x, r)'
      <4>1. <<j, r>> # <<k, s>> BY <2>2, <2>3, <3>3 DEF Target, Closers
      <4> QED BY <1>1, <3>3, <4>1 DEF Released
    <3> QED BY <2>1, <2>4, <3>1, <3>2, <3>3 DEF Released
  <2> QED BY <2>1, <2>5, <2>6 DEF ReleaseAt
<1> QED BY <1>3, <1>4

\* Every step keeps somebody responsible for every use.
LEMMA ReleaseStep ==
    ASSUME IInv, HolderInv, ReleaseInv, [Next]_vars
    PROVE  HolderInv' /\ ReleaseInv'
<1>1. /\ TypeOK /\ CallTypeOK /\ LifecycleInv /\ ConnectionInv /\ CloseInv /\ TaskInv /\ UseInv
  BY DEF IInv, TypeOK
<1>2. ASSUME NEW k \in Calls, CallStep(k) PROVE HolderInv' /\ ReleaseInv'
  BY <1>1, <1>2, CallHolder, CallRelease
<1>3. ASSUME NEW k \in Calls, NEW s \in Slots, PluginStep(k, s) \/ PluginGivesUp(k, s)
      PROVE  HolderInv' /\ ReleaseInv'
  BY <1>1, <1>3, TaskHolder, TaskRelease
<1>4. ASSUME UNCHANGED <<holder, owners, con, pc, conn, task, abandoned>>,
             \A j \in CloseCalls : aborted[j] => aborted'[j]
      PROVE  HolderInv' /\ ReleaseInv'
  <2>1. HolderInv' BY <1>4 DEF HolderInv
  <2>2. \A x \in OpenCalls, s \in Slots : GivenUp(x, s) => GivenUp(x, s)'
    BY <1>1, <1>4, GivenUpStays
  <2>3. \A k \in CloseCalls, s \in Slots : Passed(k, s)' <=> Passed(k, s)
    BY <1>4 DEF Passed
  <2>4. \A x \in OpenCalls, s \in Slots : Released(x, s) => Released(x, s)'
    BY <1>4, <2>2 DEF Released
  <2>5. ReleaseInv' BY <1>4, <2>2, <2>3, <2>4 DEF ReleaseInv, ReleaseAt
  <2> QED BY <2>1, <2>5
<1>5. ASSUME NEW k \in Calls, Abort(k) PROVE HolderInv' /\ ReleaseInv'
  <2>1. \A j \in CloseCalls : aborted[j] => aborted'[j]
    BY <1>1, <1>5 DEF Abort, CallTypeOK
  <2> QED BY <1>4, <1>5, <2>1 DEF Abort, lifecycleVars
<1>6. ASSUME NEW p \in Plugins, CloseFromOutside(p) PROVE HolderInv' /\ ReleaseInv'
  BY <1>4, <1>6 DEF CloseFromOutside, ClosedFromOutside, callVars
<1>7. CASE UNCHANGED vars BY <1>4, <1>7 DEF vars, lifecycleVars, callVars
<1> QED
  BY <1>2, <1>3, <1>5, <1>6, <1>7 DEF Next, Terminated, CallStep

\* Every counted use of a plugin has somebody who will release it, or was given
\* up by a close whose signal fired: none is forgotten between a failing open
\* and its rollback, between the close, its retries and the disposal, or when
\* another client holds the lock of the plugin.
THEOREM NoUseIsForgotten ==
    ASSUME ConcurrentClose = FALSE
    PROVE  Spec => []EveryUseHasAReleaser
<1>1. Init => HolderInv /\ ReleaseInv
  BY DEF Init, LifecycleInit, HolderInv, ReleaseInv
<1>2. IInv /\ (HolderInv /\ ReleaseInv) /\ [Next]_vars => (HolderInv /\ ReleaseInv)'
  BY ReleaseStep
<1>3. IInv /\ ReleaseInv => EveryUseHasAReleaser
  <2> SUFFICES ASSUME IInv, ReleaseInv, NEW p \in Plugins, NEW t \in owners[p]
               PROVE  LET x == t[1]
                          s == t[2]
                      IN  \/ con[CallClient[x]] = x
                          \/ pc[x] = "opening"
                          \/ pc[x] = "rollback" /\ task[x][s] = "wait"
                          \/ \E k \in CloseCalls :
                                conn[k] = x /\ pc[k] = "disposing" /\ task[k][s] = "wait"
                          \/ t \in abandoned /\ (Forced(x) \/ p \in ExternallyClosed)
    BY DEF EveryUseHasAReleaser
  <2>1. PICK x \in OpenCalls, s \in Slots : t = <<x, s>>
    BY DEF IInv, TypeOK, LifecycleTypeOK, Tokens
  <2>2. t[1] = x /\ t[2] = s BY <2>1
  <2>3. p = SlotPlugin[s] /\ Released(x, s) BY <2>1 DEF ReleaseInv, ReleaseAt
  <2> QED BY <2>1, <2>2, <2>3 DEF Released, GivenUp
<1> QED BY <1>1, <1>2, <1>3, Invariance, PTL DEF Spec
=============================================================================
