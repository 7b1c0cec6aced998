----------------------- MODULE UniKvsOperations_proofs -----------------------
(***************************************************************************)
(* Theorems about UniKvsOperations, for any leaves, keys, values and calls.*)
(* The types and the progress of calls are proved for every client, the    *)
(* rest for clients whose streams are disposed before they are collected.  *)
(*                                                                         *)
(* They are its inductive invariant, what follows from it, and that the    *)
(* client implements KVStore.                                              *)
(*                                                                         *)
(* The inductive invariant IInv relates what each leaf holds under the     *)
(* keys of a call to what it held when the call locked them.  No variable  *)
(* records the latter leaf by leaf: the invariant says that some such      *)
(* state `old` of the leaves explains both the history variable `before`   *)
(* and what the leaves hold now.                                           *)
(*                                                                         *)
(* In the refinement a key that is locked for writing shows what it had    *)
(* when it was locked, until its call ends: every step of a call but its   *)
(* first and its last one is a stuttering step of the map.  IInv says what *)
(* the leaves hold when a call ends; each kind of call is then shown to    *)
(* make the step that its answer promises.                                 *)
(***************************************************************************)
EXTENDS UniKvsOperations, TLAPS

\* The call k makes a step of its own.
CallMoves(k) ==
    \/ \E r \in Requests : Submit(k, r)
    \/ CallStep(k) \/ Dispose(k) \/ Collect(k) \/ Abort(k)
    \/ \E l \in Leaves : LeafStep(k, l)

\* Nothing of what belongs to call j changes.
Untouched(j) ==
    /\ request'[j] = request[j] /\ pc'[j] = pc[j] /\ locked'[j] = locked[j]
    /\ task'[j] = task[j] /\ buffer'[j] = buffer[j] /\ aborted'[j] = aborted[j]
    /\ result'[j] = result[j] /\ before'[j] = before[j]

\* A step is one of a call, or nothing changes.
LEMMA NextCases ==
    ASSUME [Next]_vars
    PROVE  (\E k \in Calls : CallMoves(k)) \/ UNCHANGED vars
BY DEF Next, CallMoves, Terminated

----------------------------------------------------------------------------
(* Type correctness *)

\* The leaves are not empty, and a request has the fields of one.
LEMMA RequestTypes ==
    ASSUME TypeOK, NEW k \in Calls, pc[k] # "ready"
    PROVE  /\ request[k] \in Requests
           /\ Kind(k) \in Kinds /\ Key(k) \in Keys /\ To(k) \in Keys
           /\ request[k].value \in Values
           /\ Wanted(k) \subseteq Keys
BY OperationAssumption
DEF OperationAssumption, TypeOK, Kind, Key, To, Wanted

\* The value that a read has found is in the buffer of the leaf it was found at.
LEMMA DataType ==
    ASSUME TypeOK, NEW k \in Calls
    PROVE  Data(k) \in Contents
<1>1. CASE Settled(k, {"hit"})
  BY <1>1 DEF Data, Contents
<1>2. CASE ~Settled(k, {"hit"})
  <2>1. \E l \in Leaves : task[k][l] = "hit" BY <1>2 DEF Settled
  <2>2. (CHOOSE l \in Leaves : task[k][l] = "hit") \in Leaves BY <2>1
  <2>3. Data(k) = buffer[k][CHOOSE l \in Leaves : task[k][l] = "hit"]
    BY <1>2 DEF Data
  <2> QED BY <2>2, <2>3 DEF TypeOK, Contents
<1> QED BY <1>1, <1>2

\* The labels that the steps use are labels.
LEMMA LabelTypes ==
    /\ {"ready", "lock", "io", "notify", "repairing", "streaming", "disposing", "done"} \subseteq Labels
    /\ {"start", "found", "read", "written", "committed", "notFound", "missing", "hit",
        "fill", "filled", "failed", "error"} \subseteq TaskLabels
    /\ {"none", "pending", "ok", "notFound", "unknown", "failed"} \subseteq Results
    /\ None \in Contents
BY DEF Labels, TaskLabels, Unsettled, Results, Contents

\* The type invariant holds before any call was made.
LEMMA TypeInit == Init => TypeOK
<1> SUFFICES ASSUME Init PROVE TypeOK OBVIOUS
<1>1. \A k \in Calls : pc[k] = "ready" <=> request[k] = None BY DEF Init
<1>2. \A k \in Calls :
          result[k] \in {"notFound", "unknown"} => Kind(k) \in Scans \cup Transfers
  BY DEF Init
<1>3. before \in [Calls -> [Keys -> SUBSET Contents]] BY LabelTypes DEF Init
<1> QED BY <1>1, <1>2, <1>3, LabelTypes DEF Init, TypeOK, Contents

\* A call of a storage keeps the types if what it writes is a state of a leaf.
LEMMA StorageCallTypes ==
    ASSUME TypeOK, NEW k \in Calls, NEW l \in Leaves,
           NEW new \in [Keys -> Contents], NEW label \in TaskLabels,
           NEW Torn, Torn \subseteq [Keys -> Contents],
           StorageCall(k, l, new, label, Torn)
    PROVE  TypeOK'
<1>1. store' \in [Leaves -> [Keys -> Contents]]
  BY DEF StorageCall, TypeOK
<1>2. task' \in [Calls -> [Leaves -> TaskLabels]]
  <2>1. PICK outcome \in TaskLabels : Step(k, l, outcome)
    BY LabelTypes DEF StorageCall
  <2> QED BY <2>1 DEF Step, TypeOK
<1> QED
  BY <1>1, <1>2 DEF StorageCall, TypeOK, Kind

\* A call that moves on after it was made keeps the types.
LEMMA GotoTypes ==
    ASSUME TypeOK, NEW k \in Calls, pc[k] # "ready",
           NEW label \in Labels \ {"ready"}, Goto(k, label),
           locked' \in [Calls -> SUBSET Keys],
           task' \in [Calls -> [Leaves -> TaskLabels]],
           before' \in [Calls -> [Keys -> SUBSET Contents]],
           NEW answer \in Results, result' = [result EXCEPT ![k] = answer],
           answer \in {"notFound", "unknown"} => Kind(k) \in Scans \cup Transfers,
           UNCHANGED <<store, request, buffer, aborted>>
    PROVE  TypeOK'
<1>1. \A j \in Calls : pc'[j] = "ready" <=> request'[j] = None
  BY DEF TypeOK, Goto
<1>2. \A j \in Calls :
          result'[j] \in {"notFound", "unknown"} => Kind(j)' \in Scans \cup Transfers
  BY DEF TypeOK, Kind
<1>3. pc' \in [Calls -> Labels] /\ result' \in [Calls -> Results] BY DEF TypeOK, Goto
<1> QED BY <1>1, <1>2, <1>3 DEF TypeOK

\* A call that ends keeps the types.
LEMMA FinishTypes ==
    ASSUME TypeOK, NEW k \in Calls, pc[k] # "ready",
           NEW answer \in {"ok", "notFound", "unknown", "failed"},
           answer \in {"notFound", "unknown"} => Kind(k) \in Scans \cup Transfers,
           Finish(k, answer), UNCHANGED <<store, request, task, buffer, aborted, before>>
    PROVE  TypeOK'
<1>1. locked' \in [Calls -> SUBSET Keys] BY DEF Finish, TypeOK
<1>2. "done" \in Labels \ {"ready"} /\ answer \in Results BY LabelTypes
<1> QED BY <1>1, <1>2, GotoTypes DEF Finish, TypeOK

\* A call that goes on with its locks and its answer keeps the types.
LEMMA OnwardTypes ==
    ASSUME TypeOK, NEW k \in Calls, pc[k] # "ready",
           NEW label \in Labels \ {"ready"}, Goto(k, label),
           task' \in [Calls -> [Leaves -> TaskLabels]],
           locked' \in [Calls -> SUBSET Keys],
           UNCHANGED <<store, request, buffer, aborted, result, before>>
    PROVE  TypeOK'
<1>1. \A j \in Calls : pc'[j] = "ready" <=> request'[j] = None
  BY DEF TypeOK, Goto
<1>2. pc' \in [Calls -> Labels] BY DEF TypeOK, Goto
<1> QED BY <1>1, <1>2 DEF TypeOK, Kind

\* A step of a leaf task that leaves the storages alone keeps the types.
LEMMA StepTypes ==
    ASSUME TypeOK, NEW k \in Calls, NEW l \in Leaves, NEW label \in TaskLabels,
           Step(k, l, label), buffer' \in [Calls -> [Leaves -> Contents]],
           UNCHANGED <<store, request, pc, locked, aborted, result, before>>
    PROVE  TypeOK'
<1>1. task' \in [Calls -> [Leaves -> TaskLabels]] BY DEF TypeOK, Step
<1> QED BY <1>1 DEF TypeOK, Kind

\* What a leaf holds after a write or a clear is what a leaf may hold.
LEMMA WriteTypes ==
    ASSUME TypeOK, NEW l \in Leaves, NEW x \in Keys, NEW v \in Contents
    PROVE  /\ store[l] \in [Keys -> Contents]
           /\ Writes(l, x, v) \in [Keys -> Contents]
           /\ store[l][x] \in Contents
BY DEF TypeOK, Writes

----------------------------------------------------------------------------
(* Where the tasks of a call are *)

\* What has become of a leaf in a call of some kind.
LabelsOf(kind) ==
    CASE kind \in {"set", "clear"} -> {"start", "committed", "failed"}
      [] kind = "delete" -> {"start", "notFound", "error", "found", "committed", "failed"}
      [] kind = "copy" -> {"start", "notFound", "error", "found", "read", "committed", "failed"}
      [] kind = "move" -> {"start", "notFound", "error", "found", "read", "written",
                           "committed", "failed"}
      [] OTHER -> {"start", "missing", "error", "found", "hit", "fill", "filled", "failed"}

\* The tasks of a call that has no locks yet have not begun; a read goes through
\* the leaves in order, up to the first hit, and fills leaves only after that.
TasksAt(k) ==
    /\ pc[k] \in {"ready", "lock"} => \A l \in Leaves : task[k][l] = "start"
    /\ pc[k] # "ready" => \A l \in Leaves : task[k][l] \in LabelsOf(Kind(k))
    /\ pc[k] = "notify" => Kind(k) \notin Scans /\ Settled(k, Unsettled)
    /\ pc[k] = "repairing" => Kind(k) = "getRepair"
    /\ pc[k] \in {"streaming", "disposing"} => Kind(k) \in {"stream", "streamRepair"}
    /\ pc[k] \in {"repairing", "streaming", "disposing"} => ~Settled(k, {"hit"})
    /\ \A l \in Leaves :
          /\ task[k][l] = "fill" => pc[k] \in {"repairing", "streaming", "disposing"}
          /\ pc[k] # "ready" /\ Kind(k) \in Scans /\ task[k][l] \in {"fill", "filled", "failed"} =>
                Kind(k) \in {"getRepair", "streamRepair"} /\ pc[k] # "io"
          /\ pc[k] # "ready" /\ Kind(k) = "has" => task[k][l] # "hit"
          /\ pc[k] # "ready" /\ Kind(k) \in Scans /\ task[k][l] # "start" =>
                \A j \in Leaves : j < l => task[k][j] \notin {"start", "found", "hit"}

TasksInv == \A k \in Calls : TasksAt(k)

\* A call is answered when it is done; a stream is answered when it is opened.
AnswerAt(k) ==
    /\ pc[k] = "ready" => result[k] = "none"
    /\ pc[k] \in {"lock", "io", "notify", "repairing"} => result[k] = "pending"
    /\ pc[k] = "streaming" => result[k] = "ok"
    /\ pc[k] = "disposing" => result[k] \in {"pending", "ok"}
    /\ pc[k] = "done" => result[k] \in {"ok", "notFound", "unknown", "failed"}

AnswersInv == \A k \in Calls : AnswerAt(k)

ProgressInv == TypeOK /\ TasksInv /\ AnswersInv

\* The steps of one call leave what belongs to the others alone.
LEMMA Frame ==
    ASSUME TypeOK, NEW k \in Calls, CallMoves(k), NEW j \in Calls, j # k
    PROVE  Untouched(j)
<1> USE DEF TypeOK, Untouched
<1>1. ASSUME NEW r \in Requests, Submit(k, r) PROVE Untouched(j)
  BY <1>1 DEF Submit, Goto
<1>2. CASE CallStep(k)
  <2>1. CASE Lock(k)
    <3>1. \E X : Acquire(k, X) BY <2>1 DEF Lock
    <3> QED BY <3>1 DEF Acquire, Goto
  <2>2. CASE ~Lock(k)
    BY <1>2, <2>2
    DEF CallStep, Withdraw, Refuse, Notify, Respond, ScanEmpty, GetHit, RepairStarts,
        RepairFails, RepairDone, StreamOpens, StreamFails, Disposed, Finish, Goto, Filling
  <2> QED BY <2>1, <2>2
<1>3. CASE Dispose(k) \/ Collect(k) \/ Abort(k)
  BY <1>3 DEF Dispose, Collect, Abort, Goto
<1>4. ASSUME NEW l \in Leaves, LeafStep(k, l) PROVE Untouched(j)
  <2>1. CASE \E new, label, Torn : StorageCall(k, l, new, label, Torn)
    <3>1. /\ \E label : Step(k, l, label)
          /\ UNCHANGED <<request, pc, locked, buffer, aborted, result, before>>
      BY <2>1 DEF StorageCall
    <3> QED BY <3>1 DEF Step
  <2>2. CASE LeafExists(k, l) \/ ScanExists(k, l) \/ ScanFails(k, l) \/ ReadLeaf(k, l) \/ ScanRead(k, l)
    <3>1. /\ \E label : Step(k, l, label)
          /\ \E v : buffer' \in {buffer, [buffer EXCEPT ![k][l] = v]}
          /\ UNCHANGED <<request, pc, locked, aborted, result, before>>
      BY <2>2 DEF LeafExists, ScanExists, ScanFails, ReadLeaf, ScanRead
    <3> QED BY <3>1 DEF Step
  <2>3. CASE ScanStops(k, l) \/ HasFound(k, l)
    BY <2>3 DEF ScanStops, HasFound, Finish, Goto
  <2>4. CASE Fill(k, l)
    <3>1. /\ \E label : Step(k, l, label)
          /\ UNCHANGED <<request, pc, locked, buffer, aborted, result, before>>
      BY <2>4 DEF Fill, StorageCall
    <3> QED BY <3>1 DEF Step
  <2> QED
    BY <1>4, <2>1, <2>2, <2>3, <2>4
    DEF LeafStep, SetLeaf, ClearLeaf, DeleteLeaf, CopyLeaf, MoveLeaf, WriteLeaf
<1> QED BY <1>1, <1>2, <1>3, <1>4 DEF CallMoves

\* What belongs to a call decides where its tasks are and how it is answered.
LEMMA UntouchedProgress ==
    ASSUME NEW j \in Calls, Untouched(j), TasksAt(j), AnswerAt(j)
    PROVE  TasksAt(j)' /\ AnswerAt(j)'
BY DEF Untouched, TasksAt, AnswerAt, Settled, Kind

\* The same for a call that writes one key.
LEMMA WriteCallTypes ==
    ASSUME TypeOK, NEW k \in Calls, NEW l \in Leaves, NEW x \in Keys, NEW v \in Contents,
           NEW label \in TaskLabels,
           StorageCall(k, l, Writes(l, x, v), label, {store[l], Writes(l, x, v)})
    PROVE  TypeOK'
<1> DEFINE new == Writes(l, x, v)
           Torn == {store[l], new}
<1>1. new \in [Keys -> Contents] /\ store[l] \in [Keys -> Contents] BY WriteTypes
<1>2. StorageCall(k, l, new, label, Torn) OBVIOUS
<1> HIDE DEF new
<1>3. Torn \subseteq [Keys -> Contents] BY <1>1
<1> HIDE DEF Torn
<1> QED BY <1>1, <1>2, <1>3, StorageCallTypes

\* A leaf is at work for a call that was made.
LEMMA LeafAtWork ==
    ASSUME TasksInv, NEW k \in Calls, NEW l \in Leaves, LeafStep(k, l)
    PROVE  pc[k] \notin {"ready", "lock", "done"} /\ (~Fill(k, l) => pc[k] = "io")
<1>1. CASE Fill(k, l) BY <1>1 DEF Fill, TasksInv, TasksAt
<1>2. CASE ~Fill(k, l)
  BY <1>2
  DEF LeafStep, SetLeaf, ClearLeaf, LeafExists, DeleteLeaf, CopyLeaf, MoveLeaf, ReadLeaf,
      WriteLeaf, ScanExists, ScanRead, ScanFails, ScanStops, HasFound, Current
<1> QED BY <1>1, <1>2

\* Every step of a leaf task keeps the types.
LEMMA LeafTypes ==
    ASSUME TypeOK, TasksInv, NEW k \in Calls, NEW l \in Leaves, LeafStep(k, l)
    PROVE  TypeOK'
<1>0. pc[k] # "ready" BY LeafAtWork
<1>1. /\ Key(k) \in Keys /\ To(k) \in Keys /\ request[k].value \in Contents
      /\ Data(k) \in Contents /\ buffer[k][l] \in Contents
      /\ store[l] \in [Keys -> Contents] /\ None \in Contents
  BY <1>0, RequestTypes, DataType, LabelTypes DEF TypeOK, Contents
<1>2. \A x \in Keys, v \in Contents :
          Writes(l, x, v) \in [Keys -> Contents] /\ store[l][x] \in Contents
  BY WriteTypes
<1>3. CASE SetLeaf(k, l)
  BY <1>1, <1>2, <1>3, LabelTypes, WriteCallTypes DEF SetLeaf
<1>4. CASE ClearLeaf(k, l)
  <2> DEFINE without(X) == [x \in Keys |-> IF x \in X THEN None ELSE store[l][x]]
  <2>1. \A X : without(X) \in [Keys -> Contents] BY <1>1
  <2>2. StorageCall(k, l, without(Keys), "committed", {without(X) : X \in SUBSET Keys})
    BY <1>4 DEF ClearLeaf
  <2> HIDE DEF without
  <2>3. {without(X) : X \in SUBSET Keys} \subseteq [Keys -> Contents] BY <2>1
  <2> QED BY <2>1, <2>2, <2>3, LabelTypes, StorageCallTypes
<1>5. CASE LeafExists(k, l)
  BY <1>5, LabelTypes, StepTypes DEF LeafExists, TypeOK
<1>6. CASE DeleteLeaf(k, l)
  BY <1>1, <1>2, <1>6, LabelTypes, WriteCallTypes DEF DeleteLeaf
<1>7. CASE CopyLeaf(k, l)
  BY <1>1, <1>2, <1>7, LabelTypes, WriteCallTypes DEF CopyLeaf, AfterWrite
<1>8. CASE MoveLeaf(k, l)
  <2> DEFINE copied == Writes(l, To(k), store[l][Key(k)])
             new == IF Key(k) = To(k) THEN store[l] ELSE [copied EXCEPT ![Key(k)] = None]
  <2>1. copied \in [Keys -> Contents] BY <1>1, <1>2
  <2>2. new \in [Keys -> Contents] BY <1>1, <2>1
  <2>3. StorageCall(k, l, new, "committed", {store[l], copied, new}) BY <1>8 DEF MoveLeaf
  <2> HIDE DEF copied, new
  <2> QED BY <1>1, <2>1, <2>2, <2>3, LabelTypes, StorageCallTypes
<1>9. CASE ReadLeaf(k, l)
  <2>1. /\ store[l][Key(k)] \in Contents
        /\ buffer' \in {buffer, [buffer EXCEPT ![k][l] = store[l][Key(k)]]}
    BY <1>1, <1>2, <1>9 DEF ReadLeaf
  <2>2. buffer' \in [Calls -> [Leaves -> Contents]]
    <3>1. CASE UNCHANGED buffer BY <3>1 DEF TypeOK
    <3>2. CASE buffer' = [buffer EXCEPT ![k][l] = store[l][Key(k)]]
      BY <2>1, <3>2 DEF TypeOK
    <3> QED BY <2>1, <3>1, <3>2
  <2> QED BY <1>9, <2>2, LabelTypes, StepTypes DEF ReadLeaf
<1>10. CASE WriteLeaf(k, l)
  BY <1>1, <1>2, <1>10, LabelTypes, WriteCallTypes DEF WriteLeaf, AfterWrite
<1>11. CASE ScanExists(k, l) \/ ScanFails(k, l)
  BY <1>11, LabelTypes, StepTypes DEF ScanExists, ScanFails, TypeOK
<1>12. CASE ScanRead(k, l)
  <2>1. buffer' \in [Calls -> [Leaves -> Contents]]
    BY <1>1, <1>2, <1>12 DEF ScanRead, TypeOK
  <2> QED BY <1>12, <2>1, LabelTypes, StepTypes DEF ScanRead
<1>13. CASE ScanStops(k, l) \/ HasFound(k, l)
  BY <1>0, <1>13, FinishTypes DEF ScanStops, HasFound
<1>14. CASE Fill(k, l)
  <2>1. CASE StorageCall(k, l, Writes(l, Key(k), Data(k)), "filled",
                         {store[l], Writes(l, Key(k), Data(k))})
    BY <1>1, <2>1, LabelTypes, WriteCallTypes
  <2>2. CASE Step(k, l, "failed") /\ UNCHANGED <<store, request, pc, locked, buffer, aborted, result, before>>
    BY <2>2, LabelTypes, StepTypes DEF TypeOK
  <2> QED BY <1>14, <2>1, <2>2 DEF Fill
<1> QED
  BY <1>3, <1>4, <1>5, <1>6, <1>7, <1>8, <1>9, <1>10, <1>11, <1>12, <1>13, <1>14 DEF LeafStep

\* The tasks after some of the missing leaves begin to be filled.
LEMMA FillingTypes ==
    ASSUME TypeOK, NEW k \in Calls, NEW F, Filling(k, F)
    PROVE  /\ task' \in [Calls -> [Leaves -> TaskLabels]]
           /\ \A l \in Leaves : task'[k][l] = IF l \in F THEN "fill" ELSE task[k][l]
BY LabelTypes DEF Filling, TypeOK

\* Every step of the call itself keeps the types.
LEMMA CallTypes ==
    ASSUME TypeOK, TasksInv, NEW k \in Calls, CallStep(k)
    PROVE  TypeOK'
<1>0. pc[k] # "ready"
  BY DEF CallStep, Lock, Withdraw, Refuse, Notify, Respond, ScanEmpty, GetHit, RepairStarts,
         RepairFails, RepairDone, StreamOpens, StreamFails, Disposed, Hit
<1>1. Wanted(k) \subseteq Keys BY <1>0, RequestTypes
<1>2. CASE Lock(k)
  <2>1. PICK X \in SUBSET Keys : Acquire(k, X) BY <1>1, <1>2 DEF Lock, Wanted
  <2>2. locked' \in [Calls -> SUBSET Keys] BY <2>1 DEF Acquire, TypeOK
  <2>3. \A x \in Keys : Held(x) \in SUBSET Contents BY DEF Held, TypeOK
  <2>4. before' \in [Calls -> [Keys -> SUBSET Contents]]
    BY <2>1, <2>3 DEF Acquire, TypeOK
  <2>5. \E label \in Labels \ {"ready"} : Goto(k, label)
    BY <2>1, LabelTypes DEF Acquire
  <2>6. result' = [result EXCEPT ![k] = result[k]] /\ result[k] \in Results
    BY <2>1 DEF Acquire, TypeOK
  <2>7. result[k] \in {"notFound", "unknown"} => Kind(k) \in Scans \cup Transfers
    BY DEF TypeOK
  <2>8. UNCHANGED <<store, request, task, buffer, aborted>> BY <2>1 DEF Acquire
  <2>9. task' \in [Calls -> [Leaves -> TaskLabels]] BY <2>8 DEF TypeOK
  <2> QED BY <1>0, <2>2, <2>4, <2>5, <2>6, <2>7, <2>8, <2>9, GotoTypes
<1>3. CASE Withdraw(k) \/ Refuse(k) \/ GetHit(k) \/ RepairFails(k) \/ RepairDone(k)
  BY <1>0, <1>3, FinishTypes DEF Withdraw, Refuse, GetHit, RepairFails, RepairDone
<1>4. CASE Notify(k) BY <1>0, <1>4, LabelTypes, OnwardTypes DEF Notify, TypeOK
<1>5. CASE Respond(k)
  <2> DEFINE answer == IF Kind(k) \in Transfers /\ aborted[k] THEN "failed" ELSE Answer(k)
  <2>1. /\ answer \in {"ok", "notFound", "unknown", "failed"}
        /\ answer \in {"notFound", "unknown"} => Kind(k) \in Scans \cup Transfers
    BY DEF Answer
  <2>2. Finish(k, answer) /\ UNCHANGED <<store, request, task, buffer, aborted, before>>
    BY <1>5 DEF Respond
  <2> HIDE DEF answer
  <2> QED BY <1>0, <2>1, <2>2, FinishTypes
<1>6. CASE ScanEmpty(k)
  <2>1. /\ Kind(k) \in Scans
        /\ Finish(k, IF Settled(k, {"error"}) THEN "notFound" ELSE "unknown")
        /\ UNCHANGED <<store, request, task, buffer, aborted, before>>
    BY <1>6 DEF ScanEmpty
  <2> QED BY <1>0, <2>1, FinishTypes
<1>7. CASE RepairStarts(k)
  <2>1. PICK F : Filling(k, F) BY <1>7 DEF RepairStarts
  <2>2. task' \in [Calls -> [Leaves -> TaskLabels]] BY <2>1, FillingTypes
  <2> QED BY <1>0, <1>7, <2>2, LabelTypes, OnwardTypes DEF RepairStarts, TypeOK
<1>8. CASE StreamFails(k)
  <2>1. /\ Filling(k, Fills(k)) /\ Goto(k, "disposing")
        /\ UNCHANGED <<store, request, locked, buffer, aborted, result, before>>
    BY <1>8 DEF StreamFails
  <2>2. task' \in [Calls -> [Leaves -> TaskLabels]] BY <2>1, FillingTypes
  <2>3. locked' \in [Calls -> SUBSET Keys] BY <2>1 DEF TypeOK
  <2>4. "disposing" \in Labels \ {"ready"} BY LabelTypes
  <2> QED BY <1>0, <2>1, <2>2, <2>3, <2>4, OnwardTypes
<1>9. CASE StreamOpens(k)
  <2>1. UNCHANGED <<store, request, locked, buffer, aborted, before>>
    BY <1>9 DEF StreamOpens
  <2>2. locked' \in [Calls -> SUBSET Keys] /\ before' \in [Calls -> [Keys -> SUBSET Contents]]
    BY <2>1 DEF TypeOK
  <2> QED
    BY <1>0, <1>9, <2>1, <2>2, LabelTypes, FillingTypes, GotoTypes DEF StreamOpens
<1>10. CASE Disposed(k)
  <2>1. Kind(k) \in Scans /\ result[k] \in Results
    BY <1>10 DEF Disposed, TasksInv, TasksAt, Scans, Shared, TypeOK
  <2>2. UNCHANGED <<store, request, task, buffer, aborted, before>> BY <1>10 DEF Disposed
  <2>3. /\ locked' \in [Calls -> SUBSET Keys]
        /\ before' \in [Calls -> [Keys -> SUBSET Contents]]
        /\ task' \in [Calls -> [Leaves -> TaskLabels]]
    BY <1>10, <2>2 DEF Disposed, Finish, TypeOK
  <2>4. PICK answer \in Results : result' = [result EXCEPT ![k] = answer]
    BY <1>10, <2>1, LabelTypes DEF Disposed, Finish
  <2>5. Goto(k, "done") /\ "done" \in Labels \ {"ready"}
    BY <1>10, LabelTypes DEF Disposed, Finish
  <2> QED BY <1>0, <2>1, <2>2, <2>3, <2>4, <2>5, GotoTypes
<1> QED
  BY <1>2, <1>3, <1>4, <1>5, <1>6, <1>7, <1>8, <1>9, <1>10 DEF CallStep

\* Every step keeps the types.
LEMMA TypeStep ==
    ASSUME TypeOK, TasksInv, [Next]_vars
    PROVE  TypeOK'
<1>1. ASSUME NEW k \in Calls, NEW r \in Requests, Submit(k, r) PROVE TypeOK'
  <2>1. r # None BY OperationAssumption DEF OperationAssumption
  <2>2. \A j \in Calls : pc'[j] = "ready" <=> request'[j] = None
    BY <1>1, <2>1 DEF Submit, Goto, TypeOK
  <2>3. \A j \in Calls :
            result'[j] \in {"notFound", "unknown"} => Kind(j)' \in Scans \cup Transfers
    BY <1>1 DEF Submit, TypeOK, Kind
  <2>4. request' \in [Calls -> Requests \cup {None}] BY <1>1 DEF Submit, TypeOK
  <2>5. pc' \in [Calls -> Labels] BY <1>1, LabelTypes DEF Submit, Goto, TypeOK
  <2>6. result' \in [Calls -> Results] BY <1>1, LabelTypes DEF Submit, TypeOK
  <2> QED BY <1>1, <2>2, <2>3, <2>4, <2>5, <2>6 DEF Submit, TypeOK
<1>2. ASSUME NEW k \in Calls, Dispose(k) \/ Collect(k) PROVE TypeOK'
  BY <1>2, LabelTypes, OnwardTypes DEF Dispose, Collect, TypeOK
<1>3. ASSUME NEW k \in Calls, Abort(k) PROVE TypeOK'
  BY <1>3 DEF Abort, TypeOK, Kind
<1>4. CASE UNCHANGED vars BY <1>4 DEF vars, TypeOK, Kind
<1> QED BY <1>1, <1>2, <1>3, <1>4, NextCases, CallTypes, LeafTypes DEF CallMoves

----------------------------------------------------------------------------
(* The tasks and the answers go through their steps *)

\* What a step of a leaf's task does to the tasks of its call.
LEMMA StepEffect ==
    ASSUME TypeOK, NEW k \in Calls, NEW l \in Leaves, NEW label, Step(k, l, label)
    PROVE  /\ task'[k][l] = label
           /\ \A j \in Leaves : j # l => task'[k][j] = task[k][j]
BY DEF TypeOK, Step

\* What happens in a step of a leaf's task: the call ends, or the task goes on
\* from one label to another.
LEMMA LeafMoves ==
    ASSUME TypeOK, TasksInv, NEW k \in Calls, NEW l \in Leaves, LeafStep(k, l)
    PROVE  /\ UNCHANGED <<request, aborted, before>>
           /\ \/ /\ ScanStops(k, l) \/ HasFound(k, l)
                 /\ \E answer \in {"ok", "failed"} : Finish(k, answer)
                 /\ UNCHANGED <<store, task, buffer>>
              \/ /\ UNCHANGED <<pc, locked, result>>
                 /\ Kind(k) \in Scans => Current(k, l) \/ Fill(k, l)
                 /\ task[k][l] = "fill" \/ pc[k] = "io"
                 /\ \E label \in LabelsOf(Kind(k)) :
                       /\ Step(k, l, label)
                       /\ label \notin {"start", "fill"}
                       /\ Kind(k) \in Scans /\ task[k][l] = "fill" => label \in {"filled", "failed"}
                       /\ Kind(k) \in Scans /\ task[k][l] # "fill" =>
                             /\ label \in {"missing", "error", "found", "hit"}
                             /\ label = "found" => task[k][l] = "start"
                             /\ label = "hit" => Kind(k) # "has" /\ task[k][l] = "found"
<1>0. TasksAt(k) /\ pc[k] \notin {"ready", "lock", "done"} BY LeafAtWork DEF TasksInv
<1>1. Kind(k) \in Kinds BY <1>0, RequestTypes
<1>2. CASE ScanStops(k, l) \/ HasFound(k, l)
  BY <1>2 DEF ScanStops, HasFound
<1>3. CASE SetLeaf(k, l) \/ ClearLeaf(k, l)
  BY <1>3 DEF SetLeaf, ClearLeaf, StorageCall, Scans, Shared, LabelsOf
<1>4. CASE LeafExists(k, l)
  BY <1>4 DEF LeafExists, Scans, Shared, Transfers, LabelsOf
<1>5. CASE DeleteLeaf(k, l)
  BY <1>5 DEF DeleteLeaf, StorageCall, Scans, Shared, LabelsOf
<1>6. CASE CopyLeaf(k, l) \/ MoveLeaf(k, l)
  BY <1>6 DEF CopyLeaf, MoveLeaf, AfterWrite, StorageCall, Scans, Shared, LabelsOf
<1>7. CASE ReadLeaf(k, l)
  BY <1>7 DEF ReadLeaf, Scans, Shared, LabelsOf
<1>8. CASE WriteLeaf(k, l)
  <2>1. Kind(k) \in {"copy", "move"} BY <1>0, <1>8 DEF WriteLeaf, TasksAt, LabelsOf
  <2> QED
    BY <1>8, <2>1 DEF WriteLeaf, AfterWrite, StorageCall, Scans, Shared, LabelsOf
<1>9. CASE ScanExists(k, l) \/ ScanRead(k, l) \/ ScanFails(k, l)
  BY <1>0, <1>9
  DEF ScanExists, ScanRead, ScanFails, Current, TasksAt, Scans, Shared, LabelsOf
<1>10. CASE Fill(k, l)
  <2>1. Kind(k) \in Scans
    BY <1>0, <1>1, <1>10 DEF Fill, TasksAt, LabelsOf, Kinds, Scans, Shared
  <2> QED
    BY <1>10, <2>1 DEF Fill, StorageCall, LabelsOf, Scans, Shared
<1> QED
  BY <1>2, <1>3, <1>4, <1>5, <1>6, <1>7, <1>8, <1>9, <1>10 DEF LeafStep

\* A step of a leaf's task keeps the order of the tasks.
LEMMA LeafTasks ==
    ASSUME TypeOK, TasksInv, NEW k \in Calls, NEW l \in Leaves, LeafStep(k, l)
    PROVE  TasksAt(k)'
<1>0. TasksAt(k) /\ pc[k] \notin {"ready", "lock", "done"} BY LeafAtWork DEF TasksInv
<1>1. Kind(k)' = Kind(k) BY LeafMoves DEF Kind
<1>2. CASE /\ \E answer \in {"ok", "failed"} : Finish(k, answer)
           /\ ScanStops(k, l) \/ HasFound(k, l)
           /\ UNCHANGED <<store, task, buffer>>
  <2>1. pc'[k] = "done" /\ pc[k] = "io"
    BY <1>2 DEF Finish, Goto, TypeOK, ScanStops, HasFound, Current
  <2> QED BY <1>0, <1>1, <1>2, <2>1 DEF TasksAt, Settled
<1>3. ASSUME UNCHANGED <<pc, locked, result>>,
             Kind(k) \in Scans => Current(k, l) \/ Fill(k, l),
             task[k][l] = "fill" \/ pc[k] = "io",
             NEW label \in LabelsOf(Kind(k)), Step(k, l, label),
             label \notin {"start", "fill"},
             Kind(k) \in Scans /\ task[k][l] = "fill" => label \in {"filled", "failed"},
             Kind(k) \in Scans /\ task[k][l] # "fill" =>
                /\ label \in {"missing", "error", "found", "hit"}
                /\ label = "found" => task[k][l] = "start"
                /\ label = "hit" => Kind(k) # "has" /\ task[k][l] = "found"
      PROVE  TasksAt(k)'
  <2>1. task'[k][l] = label /\ \A j \in Leaves : j # l => task'[k][j] = task[k][j]
    BY <1>3, StepEffect
  <2>2. /\ pc'[k] # "notify" /\ pc'[k] \notin {"ready", "lock"}
        /\ pc'[k] = pc[k]
    BY <1>0, <1>3 DEF TasksAt, Settled, Unsettled
  <2>3. \A j \in Leaves : task'[k][j] \in LabelsOf(Kind(k))' BY <1>0, <1>1, <1>3, <2>1 DEF TasksAt, LabelsOf
  <2>4. pc'[k] \in {"repairing", "streaming", "disposing"} => ~Settled(k, {"hit"})'
    <3>1. SUFFICES ASSUME pc[k] \in {"repairing", "streaming", "disposing"}
                   PROVE  \E j \in Leaves : task'[k][j] = "hit"
      BY <2>2 DEF Settled
    <3>2. PICK j \in Leaves : task[k][j] = "hit" BY <1>0, <3>1 DEF TasksAt, Settled
    <3>3. j # l BY <1>3, <3>1, <3>2
    <3> QED BY <2>1, <3>2, <3>3
  <2>5. ASSUME NEW i \in Leaves
        PROVE  /\ task'[k][i] = "fill" => pc'[k] \in {"repairing", "streaming", "disposing"}
               /\ Kind(k) \in Scans /\ task'[k][i] \in {"fill", "filled", "failed"} =>
                     Kind(k) \in {"getRepair", "streamRepair"} /\ pc'[k] # "io"
               /\ Kind(k) = "has" => task'[k][i] # "hit"
    <3>1. CASE i # l BY <1>0, <2>1, <2>2, <3>1 DEF TasksAt
    <3>2. CASE i = l BY <1>0, <1>3, <2>1, <2>2, <3>2 DEF TasksAt, Scans, Shared
    <3> QED BY <3>1, <3>2
  <2>6. ASSUME NEW i \in Leaves, Kind(k) \in Scans, task'[k][i] # "start",
               NEW j \in Leaves, j < i
        PROVE  task'[k][j] \notin {"start", "found", "hit"}
    <3>1. CASE i = l
      <4>1. j # l /\ task'[k][j] = task[k][j]
        BY <2>1, <2>6, <3>1, OperationAssumption DEF OperationAssumption, Leaves
      <4>2. CASE Current(k, l) BY <2>6, <3>1, <4>1, <4>2 DEF Current
      <4>3. CASE task[k][l] = "fill" BY <1>0, <2>6, <3>1, <4>1, <4>3 DEF TasksAt
      <4> QED BY <1>3, <2>6, <4>2, <4>3 DEF Fill
    <3>2. CASE i # l /\ j # l BY <1>0, <2>1, <2>6, <3>2 DEF TasksAt
    <3>3. CASE i # l /\ j = l
      <4>1. task[k][l] \notin {"start", "found", "hit"}
        BY <1>0, <2>1, <2>6, <3>3 DEF TasksAt
      <4> QED BY <1>3, <2>1, <2>6, <3>3, <4>1
    <3> QED BY <3>1, <3>2, <3>3
  <2>7. pc'[k] = "repairing" => Kind(k)' = "getRepair" BY <1>0, <1>1, <2>2 DEF TasksAt
  <2>8. pc'[k] \in {"streaming", "disposing"} => Kind(k)' \in {"stream", "streamRepair"}
    BY <1>0, <1>1, <2>2 DEF TasksAt
  <2> QED BY <1>1, <2>2, <2>3, <2>4, <2>5, <2>6, <2>7, <2>8 DEF TasksAt
<1> QED BY <1>2, <1>3, LeafMoves

\* A step of the call itself keeps the order of its tasks.
LEMMA CallTasks ==
    ASSUME TypeOK, TasksInv, NEW k \in Calls, CallMoves(k), \A l \in Leaves : ~LeafStep(k, l)
    PROVE  TasksAt(k)'
<1>0. TasksAt(k) BY DEF TasksInv
<1>1. ASSUME NEW r \in Requests, Submit(k, r) PROVE TasksAt(k)'
  <2>1. pc'[k] = "lock" /\ \A l \in Leaves : task'[k][l] = "start"
    BY <1>0, <1>1 DEF Submit, Goto, TypeOK, TasksAt
  <2>2. "start" \in LabelsOf(Kind(k)') BY DEF LabelsOf
  <2> QED BY <2>1, <2>2 DEF TasksAt
<1>2. CASE Abort(k) BY <1>0, <1>2 DEF Abort, TasksAt, Settled, Kind
<1>3. ASSUME UNCHANGED <<request, task>>, pc[k] # "ready",
             NEW label \in {"lock", "io", "notify", "disposing", "done"}, Goto(k, label),
             label = "lock" => pc[k] = "lock",
             label = "io" => pc[k] = "lock",
             label = "notify" => pc[k] = "io" /\ Kind(k) \notin Scans /\ Settled(k, Unsettled),
             label = "disposing" => pc[k] = "streaming",
             label = "done" => Settled(k, {"fill"})
      PROVE  TasksAt(k)'
  <2>1. pc'[k] = label BY <1>3 DEF Goto, TypeOK
  <2>2. Kind(k)' = Kind(k) BY <1>3 DEF Kind
  <2>3. /\ \A S : Settled(k, S)' <=> Settled(k, S)
        /\ task'[k] = task[k]
    BY <1>3 DEF Settled
  <2>4. \A l \in Leaves : task'[k][l] = "fill" => pc'[k] = "disposing"
    BY <1>0, <1>3, <2>1, <2>3 DEF TasksAt, Settled
  <2>5. ASSUME NEW l \in Leaves, Kind(k) \in Scans, task'[k][l] \in {"fill", "filled", "failed"}
        PROVE  Kind(k) \in {"getRepair", "streamRepair"} /\ pc'[k] # "io"
    BY <1>0, <1>3, <2>1, <2>3, <2>5 DEF TasksAt
  <2> QED BY <1>0, <1>3, <2>1, <2>2, <2>3, <2>4, <2>5 DEF TasksAt
<1>4. ASSUME UNCHANGED request, pc[k] = "io", ~Settled(k, {"hit"}),
             NEW label \in {"repairing", "streaming", "disposing"}, Goto(k, label),
             label = "repairing" => Kind(k) = "getRepair",
             label # "repairing" => Kind(k) \in {"stream", "streamRepair"},
             NEW F \in SUBSET Missing(k), Filling(k, F),
             Kind(k) = "stream" => F = {}
      PROVE  TasksAt(k)'
  <2>1. pc'[k] = label BY <1>4 DEF Goto, TypeOK
  <2>2. Kind(k)' = Kind(k) BY <1>4 DEF Kind
  <2>3. \A l \in Leaves : task'[k][l] = IF l \in F THEN "fill" ELSE task[k][l]
    BY <1>4, FillingTypes
  <2>4. \A l \in F : l \in Leaves /\ task[k][l] = "missing" BY <1>4 DEF Missing
  <2>5. Kind(k) \in Scans /\ "fill" \in LabelsOf(Kind(k)) BY <1>4 DEF Scans, Shared, LabelsOf
  <2>6. ~Settled(k, {"hit"})' BY <1>4, <2>3, <2>4 DEF Settled
  <2>7. \A l \in Leaves : task'[k][l] \in LabelsOf(Kind(k))'
    BY <1>0, <1>4, <2>2, <2>3, <2>5 DEF TasksAt
  <2>8. \A l \in Leaves : task'[k][l] \in {"fill", "filled", "failed"} =>
            Kind(k) \in {"getRepair", "streamRepair"}
    BY <1>0, <1>4, <2>3, <2>5 DEF TasksAt
  <2>9. \A l, j \in Leaves : task'[k][l] # "start" /\ j < l =>
            task'[k][j] \notin {"start", "found", "hit"}
    BY <1>0, <1>4, <2>3, <2>4, <2>5 DEF TasksAt
  <2>10. \A l \in Leaves : Kind(k) = "has" => task'[k][l] # "hit" BY <1>4
  <2> QED
    BY <1>4, <2>1, <2>2, <2>6, <2>7, <2>8, <2>9, <2>10 DEF TasksAt
<1>5. CASE CallStep(k)
  <2>1. CASE Lock(k)
    BY <1>3, <2>1 DEF Lock, Acquire
  <2>2. CASE Withdraw(k) \/ Refuse(k) \/ Respond(k) \/ ScanEmpty(k) \/ GetHit(k) \/ RepairFails(k)
             \/ RepairDone(k) \/ Disposed(k)
    <3>1. Settled(k, {"fill"})
      BY <1>0, <2>2
      DEF TasksAt, Settled, Withdraw, Refuse, Respond, ScanEmpty, GetHit, Hit, RepairFails, RepairDone,
          Disposed
    <3> QED
      BY <1>3, <2>2, <3>1
      DEF Withdraw, Refuse, Respond, ScanEmpty, GetHit, Hit, RepairFails, RepairDone, Disposed, Finish
  <2>3. CASE Notify(k) BY <1>3, <2>3 DEF Notify
  <2>4. CASE RepairStarts(k) BY <1>4, <2>4 DEF RepairStarts, Hit
  <2>5. CASE StreamOpens(k) BY <1>4, <2>5 DEF StreamOpens, Hit, Fills
  <2>6. CASE StreamFails(k) BY <1>4, <2>6 DEF StreamFails, Hit, Fills
  <2> QED BY <1>5, <2>1, <2>2, <2>3, <2>4, <2>5, <2>6 DEF CallStep
<1>6. CASE Dispose(k) \/ Collect(k) BY <1>3, <1>6 DEF Dispose, Collect
<1> QED BY <1>1, <1>2, <1>5, <1>6 DEF CallMoves

\* A step keeps the order in which a call is answered.
LEMMA AnswerStep ==
    ASSUME TypeOK, TasksInv, AnswersInv, NEW k \in Calls, CallMoves(k)
    PROVE  AnswerAt(k)'
<1> USE DEF AnswerAt, TypeOK
<1>0. AnswerAt(k) BY DEF AnswersInv
<1>1. ASSUME NEW r \in Requests, Submit(k, r) PROVE AnswerAt(k)'
  BY <1>1 DEF Submit, Goto
<1>2. CASE Abort(k) BY <1>0, <1>2 DEF Abort
<1>3. CASE Dispose(k) \/ Collect(k) BY <1>0, <1>3 DEF Dispose, Collect, Goto
<1>4. ASSUME NEW l \in Leaves, LeafStep(k, l) PROVE AnswerAt(k)'
  BY <1>0, <1>4, LeafMoves DEF Finish, Goto
<1>5. CASE CallStep(k)
  <2>1. CASE Lock(k) BY <1>0, <2>1 DEF Lock, Acquire, Goto
  <2>2. CASE Withdraw(k) \/ Refuse(k) \/ GetHit(k) \/ RepairFails(k) \/ RepairDone(k)
    BY <2>2 DEF Withdraw, Refuse, GetHit, RepairFails, RepairDone, Finish, Goto
  <2>3. CASE Respond(k)
    BY <2>3 DEF Respond, Answer, Finish, Goto
  <2>4. CASE ScanEmpty(k)
    BY <2>4 DEF ScanEmpty, Finish, Goto
  <2>5. CASE Notify(k) \/ RepairStarts(k) \/ StreamFails(k)
    BY <1>0, <2>5 DEF Notify, RepairStarts, StreamFails, Hit, Goto
  <2>6. CASE StreamOpens(k) BY <2>6 DEF StreamOpens, Goto
  <2>7. CASE Disposed(k) BY <1>0, <2>7 DEF Disposed, Finish, Goto
  <2> QED BY <1>5, <2>1, <2>2, <2>3, <2>4, <2>5, <2>6, <2>7 DEF CallStep
<1> QED BY <1>1, <1>2, <1>3, <1>4, <1>5 DEF CallMoves

\* Types, tasks and answers hold at first.
LEMMA ProgressInit == Init => ProgressInv
<1> SUFFICES ASSUME Init PROVE TasksInv /\ AnswersInv BY TypeInit DEF ProgressInv
<1>1. ASSUME NEW k \in Calls PROVE TasksAt(k)
  <2>1. pc[k] = "ready" /\ \A l \in Leaves : task[k][l] = "start" BY DEF Init
  <2> QED BY <2>1 DEF TasksAt
<1>2. ASSUME NEW k \in Calls PROVE AnswerAt(k) BY DEF Init, AnswerAt
<1> QED BY <1>1, <1>2 DEF TasksInv, AnswersInv

\* Types, tasks and answers are kept by every step.
LEMMA ProgressStep == ProgressInv /\ [Next]_vars => ProgressInv'
<1> SUFFICES ASSUME TypeOK, TasksInv, AnswersInv, [Next]_vars
             PROVE  TasksInv' /\ AnswersInv'
  BY TypeStep DEF ProgressInv
<1>1. ASSUME NEW k \in Calls, CallMoves(k) PROVE TasksInv' /\ AnswersInv'
  <2>1. TasksAt(k)' /\ AnswerAt(k)' BY <1>1, LeafTasks, CallTasks, AnswerStep
  <2>2. ASSUME NEW j \in Calls, j # k PROVE TasksAt(j)' /\ AnswerAt(j)'
    BY <1>1, <2>2, Frame, UntouchedProgress DEF TasksInv, AnswersInv
  <2> QED BY <2>1, <2>2 DEF TasksInv, AnswersInv
<1>2. CASE UNCHANGED vars
  <2>1. \A k \in Calls : Untouched(k) BY <1>2 DEF vars, Untouched
  <2> QED BY <2>1, UntouchedProgress DEF TasksInv, AnswersInv
<1> QED BY <1>1, <1>2, NextCases

\* The client's calls keep the types of their fields; a call is answered when
\* its work is done, a read goes through the leaves in the order of their
\* registration, and leaves are filled only by reads that repair.
THEOREM OperationTypes == Spec => []TypeOK
<1>1. ProgressInv => TypeOK BY DEF ProgressInv
<1> QED BY <1>1, ProgressInit, ProgressStep, PTL DEF Spec

----------------------------------------------------------------------------
(* The invariant *)

\* A call that has been made and has not settled.
Active(k) == pc[k] \notin {"ready", "done"}

Holding == {"io", "notify", "repairing", "streaming", "disposing"}

\* A call at work has the locks of all its keys, and two calls that have the
\* lock of a key both only read it.
LocksAt(k) ==
    /\ ~Active(k) => locked[k] = {}
    /\ pc[k] = "lock" =>
          locked[k] \subseteq Wanted(k) /\ (Kind(k) \notin Transfers => locked[k] = {})
    /\ pc[k] \in Holding => locked[k] = Wanted(k)

LocksInv ==
    /\ \A k \in Calls : LocksAt(k)
    /\ \A j, k \in Calls : j # k /\ locked[j] \cap locked[k] # {} =>
          Kind(j) \in Shared /\ Kind(k) \in Shared

\* A leaf with one of these labels is as the call has found it.
Unwritten == {"start", "found", "read", "notFound", "missing", "error", "hit", "fill"}

\* What a leaf that has done its work holds.
CommittedAt(k, l, o) ==
    /\ Kind(k) = "set" => store[l][Key(k)] = request[k].value
    /\ Kind(k) = "delete" => store[l][Key(k)] = None
    /\ Kind(k) = "clear" => \A z \in Keys : store[l][z] = None
    /\ Kind(k) \in Transfers => o[Key(k)] # None /\ store[l][To(k)] = o[Key(k)]
    /\ Kind(k) = "copy" \/ (Kind(k) = "move" /\ Key(k) = To(k)) => store[l][Key(k)] = o[Key(k)]
    /\ Kind(k) = "move" /\ Key(k) # To(k) => store[l][Key(k)] = None

\* What a leaf may hold whose storage has thrown: its work was done, not begun,
\* or done in part.
FailedAt(k, l, o) ==
    /\ Kind(k) = "set" => store[l][Key(k)] \in {o[Key(k)], request[k].value}
    /\ Kind(k) = "delete" => store[l][Key(k)] \in {o[Key(k)], None}
    /\ Kind(k) = "clear" => \A z \in Keys : store[l][z] \in {o[z], None}
    /\ Kind(k) \in Transfers => o[Key(k)] # None /\ store[l][To(k)] \in {o[To(k)], o[Key(k)]}
    /\ Kind(k) = "copy" \/ (Kind(k) = "move" /\ Key(k) = To(k)) => store[l][Key(k)] = o[Key(k)]
    /\ Kind(k) = "move" =>
          \/ store[l][Key(k)] = o[Key(k)]
          \/ store[l][Key(k)] = None /\ store[l][To(k)] = o[Key(k)]
    /\ Kind(k) \in Scans =>
          /\ o[Key(k)] = None
          /\ \A h \in Leaves : task[k][h] = "hit" => store[l][Key(k)] \in {None, buffer[k][h]}

\* What leaf l holds under the keys of call k, if it held o when they were locked.
LeafAt(k, l, o) ==
    /\ task[k][l] \in Unwritten => \A z \in locked[k] : store[l][z] = o[z]
    /\ task[k][l] \in {"found", "hit", "read"} => o[Key(k)] # None
    /\ task[k][l] \in {"notFound", "missing", "fill", "filled"} => o[Key(k)] = None
    /\ task[k][l] \in {"hit", "read"} => buffer[k][l] = o[Key(k)]
    /\ task[k][l] = "read" => Key(k) # To(k)
    /\ task[k][l] = "written" =>
          /\ o[Key(k)] # None /\ Key(k) # To(k)
          /\ store[l][Key(k)] = o[Key(k)] /\ store[l][To(k)] = o[Key(k)]
    /\ task[k][l] = "filled" =>
          \A h \in Leaves : task[k][h] = "hit" => store[l][Key(k)] = buffer[k][h]
    /\ task[k][l] = "committed" => CommittedAt(k, l, o)
    /\ task[k][l] = "failed" => FailedAt(k, l, o)

Olds == [Leaves -> [Keys -> Contents]]

Explains(k, old) ==
    /\ \A x \in locked[k] : before[k][x] = {old[l][x] : l \in Leaves}
    /\ \A l \in Leaves : LeafAt(k, l, old[l])

LeavesAt(k) == Active(k) => \E old \in Olds : Explains(k, old)

LeavesInv == \A k \in Calls : LeavesAt(k)

IInv == ProgressInv /\ LocksInv /\ LeavesInv

----------------------------------------------------------------------------
(* Locks *)

\* A call at work has the lock of its key, and of the other one if it has two.
LEMMA Locked ==
    ASSUME ProgressInv, LocksInv, NEW k \in Calls, pc[k] \in Holding
    PROVE  /\ Key(k) \in locked[k]
           /\ Kind(k) \in Transfers => To(k) \in locked[k]
           /\ Kind(k) = "clear" => locked[k] = Keys
<1>1. Kind(k) \in Kinds /\ Key(k) \in Keys /\ To(k) \in Keys
  BY RequestTypes DEF ProgressInv, Holding
<1>2. locked[k] = Wanted(k) BY DEF LocksInv, LocksAt
<1> QED BY <1>1, <1>2 DEF Wanted, Transfers

\* The step of a call that takes a lock.
LEMMA LockEffect ==
    ASSUME TypeOK, NEW k \in Calls, NEW X, Acquire(k, X)
    PROVE  /\ locked'[k] = locked[k] \cup X
           /\ \A j \in Calls : j # k => locked'[j] = locked[j]
           /\ pc'[k] = IF locked'[k] = Wanted(k) THEN "io" ELSE "lock"
           /\ \A j \in Calls : j # k => pc'[j] = pc[j]
           /\ \A x \in Keys : before'[k][x] = IF x \in X THEN Held(x) ELSE before[k][x]
           /\ UNCHANGED <<store, request, task, buffer, aborted, result>>
BY DEF TypeOK, Acquire, Goto

\* Whatever a call does after it was made: it takes a lock, it ends and has no
\* locks any more, or it keeps its locks.
LEMMA LockCases ==
    ASSUME ProgressInv, Collects = FALSE, NEW k \in Calls, CallMoves(k)
    PROVE  \/ pc[k] = "ready" /\ pc'[k] = "lock" /\ UNCHANGED locked
           \/ Lock(k)
           \/ /\ pc[k] # "ready" /\ pc'[k] = "done" /\ locked'[k] = {}
              /\ request'[k] = request[k]
           \/ /\ locked'[k] = locked[k] /\ request'[k] = request[k]
              /\ pc'[k] = pc[k] \/ (pc[k] \in Holding /\ pc'[k] \in Holding)
<1> USE DEF ProgressInv, TypeOK
<1>1. ASSUME NEW r \in Requests, Submit(k, r) PROVE pc[k] = "ready" /\ pc'[k] = "lock" /\ UNCHANGED locked
  BY <1>1 DEF Submit, Goto
<1>2. CASE Abort(k) BY <1>2 DEF Abort
<1>3. CASE Dispose(k) BY <1>3 DEF Dispose, Goto, Holding
<1>4. ASSUME NEW l \in Leaves, LeafStep(k, l)
      PROVE  \/ /\ pc[k] # "ready" /\ pc'[k] = "done" /\ locked'[k] = {}
                /\ request'[k] = request[k]
             \/ locked'[k] = locked[k] /\ request'[k] = request[k] /\ pc'[k] = pc[k]
  BY <1>4, LeafMoves, LeafAtWork DEF Finish, Goto
<1>5. CASE Withdraw(k) \/ Refuse(k) \/ Respond(k) \/ ScanEmpty(k) \/ GetHit(k) \/ RepairFails(k)
             \/ RepairDone(k) \/ Disposed(k)
  BY <1>5
  DEF Withdraw, Refuse, Respond, ScanEmpty, GetHit, Hit, RepairFails, RepairDone, Disposed, Finish, Goto
<1>6. CASE Notify(k) \/ RepairStarts(k) \/ StreamOpens(k) \/ StreamFails(k)
  BY <1>6 DEF Notify, RepairStarts, StreamOpens, StreamFails, Hit, Goto, Holding
<1>7. ~Collect(k) BY DEF Collect
<1> QED BY <1>1, <1>2, <1>3, <1>4, <1>5, <1>6, <1>7 DEF CallMoves, CallStep

\* A step of a call keeps the invariant of locks.
LEMMA LocksStep ==
    ASSUME ProgressInv, LocksInv, Collects = FALSE, NEW k \in Calls, CallMoves(k)
    PROVE  LocksInv'
<1> USE DEF ProgressInv
<1>0. LocksAt(k) BY DEF LocksInv
<1>1. \A j \in Calls : j # k =>
         pc'[j] = pc[j] /\ locked'[j] = locked[j] /\ Kind(j)' = Kind(j) /\ Wanted(j)' = Wanted(j)
  BY Frame DEF Untouched, Kind, Wanted, Key, To
<1>2. \A j \in Calls : j # k => LocksAt(j)'
  BY <1>1 DEF LocksInv, LocksAt, Active
<1>3. request'[k] = request[k] => Kind(k)' = Kind(k) /\ Wanted(k)' = Wanted(k)
  BY DEF Kind, Wanted, Key, To
<1>4. ASSUME locked'[k] \subseteq locked[k],
             request'[k] = request[k] \/ locked[k] = {},
             LocksAt(k)'
      PROVE  LocksInv'
  <2>1. ASSUME NEW i \in Calls, NEW j \in Calls, i # j, locked'[i] \cap locked'[j] # {}
        PROVE  Kind(i)' \in Shared /\ Kind(j)' \in Shared
    <3>1. locked[i] \cap locked[j] # {} BY <1>1, <1>4, <2>1
    <3>2. Kind(i) \in Shared /\ Kind(j) \in Shared BY <2>1, <3>1 DEF LocksInv
    <3>3. locked'[k] = {} \/ Kind(k)' = Kind(k) BY <1>3, <1>4
    <3> QED BY <1>1, <2>1, <3>2, <3>3
  <2> QED BY <1>2, <1>4, <2>1 DEF LocksInv
<1>5. CASE pc[k] = "ready" /\ pc'[k] = "lock" /\ UNCHANGED locked
  <2>1. locked[k] = {} BY <1>0, <1>5 DEF LocksAt, Active
  <2>2. LocksAt(k)' BY <1>5, <2>1 DEF LocksAt, Active, Holding
  <2> QED BY <1>4, <1>5, <2>1, <2>2
<1>6. CASE Lock(k)
  <2>1. PICK X : /\ Acquire(k, X)
                 /\ X \subseteq Wanted(k)
                 /\ Kind(k) \notin Transfers => X = Wanted(k)
    BY <1>6 DEF Lock
  <2>2. /\ locked'[k] = locked[k] \cup X
        /\ pc'[k] = IF locked'[k] = Wanted(k) THEN "io" ELSE "lock"
        /\ request' = request
    BY <2>1, LockEffect
  <2>3. pc[k] = "lock" BY <1>6 DEF Lock
  <2>4. Kind(k)' = Kind(k) /\ Wanted(k)' = Wanted(k) BY <1>3, <2>2
  <2>5. LocksAt(k)' BY <1>0, <2>1, <2>2, <2>3, <2>4 DEF LocksAt, Active, Holding
  <2>6. ASSUME NEW j \in Calls, j # k, locked'[j] \cap locked'[k] # {}
        PROVE  Kind(j) \in Shared /\ Kind(k) \in Shared
    <3>1. CASE locked[j] \cap locked[k] # {} BY <2>6, <3>1 DEF LocksInv
    <3>2. CASE locked[j] \cap X # {} BY <2>1, <2>6, <3>2 DEF Acquire, CanLock
    <3> QED BY <1>1, <2>2, <2>6, <3>1, <3>2
  <2>7. ASSUME NEW i \in Calls, NEW j \in Calls, i # j, locked'[i] \cap locked'[j] # {}
        PROVE  Kind(i)' \in Shared /\ Kind(j)' \in Shared
    <3>1. CASE i # k /\ j # k BY <1>1, <2>7, <3>1 DEF LocksInv
    <3>2. CASE i = k \/ j = k BY <1>1, <2>4, <2>6, <2>7, <3>2
    <3> QED BY <3>1, <3>2
  <2> QED BY <1>2, <2>5, <2>7 DEF LocksInv
<1>7. CASE pc[k] # "ready" /\ pc'[k] = "done" /\ locked'[k] = {} /\ request'[k] = request[k]
  <2>1. LocksAt(k)' BY <1>7 DEF LocksAt, Active, Holding
  <2> QED BY <1>4, <1>7, <2>1
<1>8. CASE /\ locked'[k] = locked[k] /\ request'[k] = request[k]
           /\ pc'[k] = pc[k] \/ (pc[k] \in Holding /\ pc'[k] \in Holding)
  <2>1. LocksAt(k)' BY <1>0, <1>3, <1>8 DEF LocksAt, Active, Holding
  <2> QED BY <1>4, <1>8, <2>1
<1> QED BY <1>5, <1>6, <1>7, <1>8, LockCases

----------------------------------------------------------------------------
(* Calls do not disturb each other *)

\* What a call of a storage does to the other leaves.
LEMMA StorageCallEffect ==
    ASSUME TypeOK, NEW k \in Calls, NEW l \in Leaves, NEW new, NEW label, NEW Torn,
           StorageCall(k, l, new, label, Torn)
    PROVE  /\ \A i \in Leaves : i # l => store'[i] = store[i]
           /\ \/ store'[l] = new /\ Step(k, l, label)
              \/ store'[l] \in Torn /\ Step(k, l, "failed")
BY DEF TypeOK, StorageCall

\* What a call of a storage changes is among the keys that its call has locked
\* for itself.
LEMMA WritesUnderLock ==
    ASSUME ProgressInv, LocksInv, NEW k \in Calls, CallMoves(k),
           NEW i \in Leaves, NEW z \in Keys, store'[i][z] # store[i][z]
    PROVE  /\ z \in locked[k] /\ Kind(k) \notin Shared /\ pc[k] \in Holding
           /\ LeafStep(k, i)
<1> USE DEF ProgressInv
<1>1. PICK l \in Leaves : LeafStep(k, l)
  BY DEF CallMoves, Submit, Dispose, Collect, Abort, CallStep, Lock, Acquire, Withdraw, Refuse, Notify,
         Respond, ScanEmpty, GetHit, RepairStarts, RepairFails, RepairDone, StreamOpens, StreamFails,
         Disposed
<1>2. /\ TasksAt(k) /\ pc[k] \in Holding
      /\ Kind(k) \in Kinds /\ Key(k) \in Keys /\ To(k) \in Keys
  BY <1>1, LeafAtWork, RequestTypes DEF TasksInv, TypeOK, Labels, Holding
<1>3. /\ Key(k) \in locked[k]
      /\ Kind(k) \in Transfers => To(k) \in locked[k]
      /\ Kind(k) = "clear" => locked[k] = Keys
  BY <1>2, Locked
<1>4. store[l] \in [Keys -> Contents] BY DEF TypeOK
<1>5. ASSUME NEW x \in Keys, NEW v, NEW label,
             StorageCall(k, l, Writes(l, x, v), label, {store[l], Writes(l, x, v)})
      PROVE  i = l /\ z = x
  BY <1>4, <1>5, StorageCallEffect DEF Writes
<1>6. CASE SetLeaf(k, l) \/ DeleteLeaf(k, l)
  BY <1>1, <1>2, <1>3, <1>5, <1>6 DEF SetLeaf, DeleteLeaf, Shared
<1>7. CASE CopyLeaf(k, l)
  BY <1>1, <1>2, <1>3, <1>5, <1>7 DEF CopyLeaf, Shared, Transfers
<1>8. CASE WriteLeaf(k, l)
  <2>1. Kind(k) \in Transfers BY <1>2, <1>8 DEF WriteLeaf, TasksAt, LabelsOf, Transfers
  <2> QED BY <1>1, <1>2, <1>3, <1>5, <1>8, <2>1 DEF WriteLeaf, Shared, Transfers
<1>9. CASE ClearLeaf(k, l)
  <2>1. i = l BY <1>9, StorageCallEffect DEF ClearLeaf
  <2> QED BY <1>1, <1>2, <1>3, <1>9, <2>1 DEF ClearLeaf, Shared
<1>10. CASE MoveLeaf(k, l)
  <2> DEFINE copied == Writes(l, To(k), store[l][Key(k)])
             new == IF Key(k) = To(k) THEN store[l] ELSE [copied EXCEPT ![Key(k)] = None]
  <2>1. StorageCall(k, l, new, "committed", {store[l], copied, new}) BY <1>10 DEF MoveLeaf
  <2>2. i = l /\ store'[l] \in {store[l], copied, new}
    <3> HIDE DEF copied, new
    <3> QED BY <2>1, StorageCallEffect
  <2>3. z \in {Key(k), To(k)} BY <1>4, <2>2 DEF Writes
  <2> QED BY <1>1, <1>2, <1>3, <1>10, <2>2, <2>3 DEF MoveLeaf, Shared, Transfers
<1>11. CASE Fill(k, l)
  <2>1. Kind(k) \in {"getRepair", "streamRepair"}
    BY <1>2, <1>11 DEF Fill, TasksAt, LabelsOf, Kinds, Scans, Shared, Holding
  <2>2. StorageCall(k, l, Writes(l, Key(k), Data(k)), "filled",
                    {store[l], Writes(l, Key(k), Data(k))})
    BY <1>11 DEF Fill
  <2> QED BY <1>1, <1>2, <1>3, <1>5, <2>1, <2>2 DEF Shared
<1>12. CASE LeafExists(k, l) \/ ReadLeaf(k, l) \/ ScanExists(k, l) \/ ScanRead(k, l) \/ ScanFails(k, l)
          \/ ScanStops(k, l) \/ HasFound(k, l)
  BY <1>12 DEF LeafExists, ReadLeaf, ScanExists, ScanRead, ScanFails, ScanStops, HasFound
<1> QED
  BY <1>1, <1>6, <1>7, <1>8, <1>9, <1>10, <1>11, <1>12 DEF LeafStep

\* While a call has the lock of a key, no other call changes it.
LEMMA Isolation ==
    ASSUME ProgressInv, LocksInv, NEW k \in Calls, CallMoves(k),
           NEW j \in Calls, j # k, NEW i \in Leaves, NEW z \in Keys, z \in locked[j]
    PROVE  store'[i][z] = store[i][z]
<1>1. SUFFICES ASSUME store'[i][z] # store[i][z] PROVE FALSE OBVIOUS
<1>2. z \in locked[k] /\ Kind(k) \notin Shared BY <1>1, WritesUnderLock
<1> QED BY <1>2 DEF LocksInv

\* What a leaf holds under the keys of a call says all there is to say about it.
LEMMA SameLeaf ==
    ASSUME ProgressInv, LocksInv, NEW k \in Calls, Active(k), NEW l \in Leaves, NEW o,
           LeafAt(k, l, o),
           \A z \in locked[k] : store'[l][z] = store[l][z],
           locked'[k] = locked[k], request'[k] = request[k],
           task'[k] = task[k], buffer'[k] = buffer[k]
    PROVE  LeafAt(k, l, o)'
<1>1. /\ Kind(k)' = Kind(k) /\ Key(k)' = Key(k) /\ To(k)' = To(k)
  BY DEF Kind, Key, To
<1>2. CASE task[k][l] = "start" BY <1>2 DEF LeafAt, Unwritten
<1>3. CASE task[k][l] # "start"
  <2>1. pc[k] \in Holding
    BY <1>3 DEF ProgressInv, TasksInv, TasksAt, Active, TypeOK, Labels, Holding
  <2>2. /\ Key(k) \in locked[k]
        /\ Kind(k) \in Transfers => To(k) \in locked[k]
        /\ Kind(k) = "clear" => locked[k] = Keys
    BY <2>1, Locked
  <2>3. task[k][l] = "written" => Kind(k) \in Transfers
    BY <2>1 DEF ProgressInv, TasksInv, TasksAt, LabelsOf, Transfers, Holding
  <2>4. task[k][l] = "committed" => CommittedAt(k, l, o)'
    BY <1>1, <2>2 DEF LeafAt, CommittedAt, Transfers
  <2>5. task[k][l] = "failed" => FailedAt(k, l, o)'
    BY <1>1, <2>2 DEF LeafAt, FailedAt, Transfers
  <2> QED BY <1>1, <2>2, <2>3, <2>4, <2>5 DEF LeafAt
<1> QED BY <1>2, <1>3

\* A step of one call leaves the leaves of another as it found them.
LEMMA OtherLeaves ==
    ASSUME IInv, NEW k \in Calls, CallMoves(k), NEW j \in Calls, j # k
    PROVE  LeavesAt(j)'
<1> USE DEF IInv
<1>1. Untouched(j) BY Frame DEF ProgressInv
<1>2. SUFFICES ASSUME Active(j) PROVE \E old \in Olds : Explains(j, old)'
  BY <1>1 DEF Untouched, LeavesAt, Active
<1>3. PICK old \in Olds : Explains(j, old) BY <1>2 DEF LeavesInv, LeavesAt
<1>4. locked[j] \subseteq Keys BY DEF ProgressInv, TypeOK
<1>5. \A x \in locked'[j] : before'[j][x] = {old[l][x] : l \in Leaves}
  BY <1>1, <1>3 DEF Untouched, Explains
<1>6. ASSUME NEW l \in Leaves PROVE LeafAt(j, l, old[l])'
  <2>1. \A z \in locked[j] : store'[l][z] = store[l][z] BY <1>4, Isolation
  <2>2. LeafAt(j, l, old[l]) BY <1>3 DEF Explains
  <2> QED BY <1>1, <1>2, <2>1, <2>2, SameLeaf DEF Untouched
<1> QED BY <1>5, <1>6 DEF Explains

----------------------------------------------------------------------------
(* What a call does to its own leaves *)

\* The data of a read are those of its one hit.
LEMMA DataOfHit ==
    ASSUME ProgressInv, NEW k \in Calls, pc[k] # "ready", Kind(k) \in Scans,
           NEW h \in Leaves, task[k][h] = "hit"
    PROVE  /\ Data(k) = buffer[k][h]
           /\ \A i \in Leaves : task[k][i] = "hit" => i = h
<1>1. ASSUME NEW i \in Leaves, task[k][i] = "hit" PROVE i = h
  <2>1. ~(i < h) /\ ~(h < i) BY <1>1 DEF ProgressInv, TasksInv, TasksAt
  <2> QED BY <2>1, OperationAssumption DEF OperationAssumption, Leaves
<1>2. (CHOOSE i \in Leaves : task[k][i] = "hit") = h BY <1>1
<1> QED BY <1>1, <1>2 DEF Data, Settled

\* While a call is at work on its leaves, its request and its locks stay.
LEMMA LeafGoesOn ==
    ASSUME ProgressInv, NEW k \in Calls, NEW l \in Leaves, LeafStep(k, l), pc'[k] # "done"
    PROVE  UNCHANGED <<pc, locked, request, result, aborted, before>>
<1> USE DEF ProgressInv
<1>1. ASSUME NEW answer, Finish(k, answer) PROVE FALSE BY <1>1 DEF Finish, Goto, TypeOK
<1> QED BY <1>1, LeafMoves

\* A step of one leaf's task says nothing new of the other leaves.
LEMMA OtherLeafSame ==
    ASSUME ProgressInv, LocksInv, NEW k \in Calls, NEW l \in Leaves, LeafStep(k, l),
           pc'[k] # "done", NEW i \in Leaves, i # l, NEW o, LeafAt(k, i, o)
    PROVE  LeafAt(k, i, o)'
<1> USE DEF ProgressInv
<1>0. TasksAt(k) /\ pc[k] \in Holding
  BY LeafAtWork DEF TasksInv, TypeOK, Labels, Holding
<1>1. /\ UNCHANGED <<locked, request>>
      /\ task[k][l] = "fill" \/ pc[k] = "io"
      /\ \E label \in LabelsOf(Kind(k)) :
            /\ Step(k, l, label)
            /\ Kind(k) \in Scans /\ task[k][l] = "fill" => label \in {"filled", "failed"}
  BY LeafMoves DEF Finish, Goto, TypeOK
<1>2. task'[k][i] = task[k][i] BY <1>1, StepEffect
<1>3. store'[i] = store[i]
  BY StorageCallEffect
  DEF LeafStep, SetLeaf, ClearLeaf, LeafExists, DeleteLeaf, CopyLeaf, MoveLeaf, ReadLeaf,
      WriteLeaf, ScanExists, ScanRead, ScanFails, ScanStops, HasFound, Fill
<1>4. buffer'[k][i] = buffer[k][i]
  BY StorageCallEffect
  DEF LeafStep, SetLeaf, ClearLeaf, LeafExists, DeleteLeaf, CopyLeaf, MoveLeaf, ReadLeaf,
      WriteLeaf, ScanExists, ScanRead, ScanFails, ScanStops, HasFound, Fill, StorageCall, TypeOK
<1>5. Kind(k)' = Kind(k) /\ Key(k)' = Key(k) /\ To(k)' = To(k)
  BY <1>1 DEF Kind, Key, To
<1>6. CASE task[k][i] \notin {"filled", "failed"}
  BY <1>1, <1>2, <1>3, <1>4, <1>5, <1>6 DEF LeafAt, CommittedAt
<1>7. CASE task[k][i] \in {"filled", "failed"} /\ Kind(k) \notin Scans
  <2>1. task[k][i] = "failed"
    BY <1>0, <1>7, RequestTypes DEF TasksAt, LabelsOf, Kinds, Scans, Shared, Holding
  <2> QED BY <1>1, <1>2, <1>3, <1>4, <1>5, <1>7, <2>1 DEF LeafAt, FailedAt, Unwritten
<1>8. CASE task[k][i] \in {"filled", "failed"} /\ Kind(k) \in Scans
  <2>1. pc[k] # "io" /\ task[k][l] = "fill" BY <1>0, <1>1, <1>8 DEF TasksAt, Holding
  <2>2. \A h \in Leaves : task'[k][h] = "hit" => task[k][h] = "hit" /\ h # l
    BY <1>1, <1>8, <2>1, StepEffect
  <2>3. ~\E j \in Leaves : ScanRead(k, j) \/ ReadLeaf(k, j) BY <2>1 DEF ScanRead, Current, ReadLeaf
  <2>4. \A h \in Leaves : buffer'[k][h] = buffer[k][h]
    BY <2>3
    DEF LeafStep, SetLeaf, ClearLeaf, LeafExists, DeleteLeaf, CopyLeaf, MoveLeaf,
        WriteLeaf, ScanExists, ScanFails, ScanStops, HasFound, Fill, StorageCall
  <2> QED BY <1>1, <1>2, <1>3, <1>5, <1>8, <2>2, <2>4 DEF LeafAt, FailedAt, Unwritten, CommittedAt
<1> QED BY <1>6, <1>7, <1>8

\* A write of one key, and what it leaves of the others.
LEMMA WriteEffect ==
    ASSUME TypeOK, NEW l \in Leaves, NEW x \in Keys, NEW v
    PROVE  /\ Writes(l, x, v)[x] = v
           /\ \A z \in Keys : z # x => Writes(l, x, v)[z] = store[l][z]
BY DEF TypeOK, Writes

\* A step of a leaf's task keeps what is said of the leaf.
LEMMA OwnLeaf ==
    ASSUME ProgressInv, LocksInv, NEW k \in Calls, NEW l \in Leaves, LeafStep(k, l),
           pc'[k] # "done", NEW o, LeafAt(k, l, o)
    PROVE  LeafAt(k, l, o)'
<1> USE DEF ProgressInv
<1>0. /\ TasksAt(k) /\ pc[k] \in Holding
      /\ Kind(k) \in Kinds /\ Key(k) \in Keys /\ To(k) \in Keys
      /\ locked[k] \subseteq Keys
  BY LeafAtWork, RequestTypes DEF TasksInv, TypeOK, Labels, Holding
<1>1. /\ Key(k) \in locked[k]
      /\ Kind(k) \in Transfers => To(k) \in locked[k]
      /\ Kind(k) = "clear" => locked[k] = Keys
  BY <1>0, Locked
<1>2. UNCHANGED <<locked, request>> BY LeafGoesOn
<1>3. Kind(k)' = Kind(k) /\ Key(k)' = Key(k) /\ To(k)' = To(k)
  BY <1>2 DEF Kind, Key, To
<1>4. \A v : \A x \in Keys : /\ Writes(l, x, v)[x] = v
                            /\ \A z \in Keys : z # x => Writes(l, x, v)[z] = store[l][z]
  BY WriteEffect
<1>5. CASE SetLeaf(k, l)
  <2>1. /\ Kind(k) = "set" /\ task[k][l] = "start"
        /\ task'[k][l] \in {"committed", "failed"}
        /\ task'[k][l] = "committed" => store'[l] = Writes(l, Key(k), request[k].value)
        /\ store'[l] \in {store[l], Writes(l, Key(k), request[k].value)}
    BY <1>5, StorageCallEffect, StepEffect DEF SetLeaf
  <2>2. store[l][Key(k)] = o[Key(k)] BY <1>1, <2>1 DEF LeafAt, Unwritten
  <2>3. store'[l][Key(k)] \in {o[Key(k)], request[k].value} BY <1>0, <1>4, <2>1, <2>2
  <2>4. task'[k][l] = "committed" => store'[l][Key(k)] = request[k].value BY <1>0, <1>4, <2>1
  <2>5. task'[k][l] = "committed" => CommittedAt(k, l, o)'
    BY <1>2, <1>3, <2>1, <2>4 DEF CommittedAt, Transfers
  <2>6. task'[k][l] = "failed" => FailedAt(k, l, o)'
    BY <1>2, <1>3, <2>1, <2>3 DEF FailedAt, Transfers, Scans, Shared
  <2> QED BY <2>1, <2>5, <2>6 DEF LeafAt, Unwritten
<1>6. CASE DeleteLeaf(k, l) /\ Kind(k) = "delete"
  <2>1. /\ Kind(k) = "delete" /\ task[k][l] = "found"
        /\ task'[k][l] \in {"committed", "failed"}
        /\ task'[k][l] = "committed" => store'[l] = Writes(l, Key(k), None)
        /\ store'[l] \in {store[l], Writes(l, Key(k), None)}
    BY <1>6, StorageCallEffect, StepEffect DEF DeleteLeaf
  <2>2. store[l][Key(k)] = o[Key(k)] BY <1>1, <2>1 DEF LeafAt, Unwritten
  <2>3. store'[l][Key(k)] \in {o[Key(k)], None} BY <1>0, <1>4, <2>1, <2>2
  <2>4. task'[k][l] = "committed" => store'[l][Key(k)] = None BY <1>0, <1>4, <2>1
  <2>5. task'[k][l] = "committed" => CommittedAt(k, l, o)'
    BY <1>2, <1>3, <2>1, <2>4 DEF CommittedAt, Transfers
  <2>6. task'[k][l] = "failed" => FailedAt(k, l, o)'
    BY <1>2, <1>3, <2>1, <2>3 DEF FailedAt, Transfers, Scans, Shared
  <2> QED BY <2>1, <2>5, <2>6 DEF LeafAt, Unwritten
<1>7. CASE DeleteLeaf(k, l) /\ Kind(k) # "delete"
  <2>1. /\ Kind(k) = "move" /\ task[k][l] = "written"
        /\ task'[k][l] \in {"committed", "failed"}
        /\ task'[k][l] = "committed" => store'[l] = Writes(l, Key(k), None)
        /\ store'[l] \in {store[l], Writes(l, Key(k), None)}
    BY <1>7, StorageCallEffect, StepEffect DEF DeleteLeaf
  <2>2. /\ o[Key(k)] # None /\ Key(k) # To(k)
        /\ store[l][Key(k)] = o[Key(k)] /\ store[l][To(k)] = o[Key(k)]
    BY <2>1 DEF LeafAt
  <2>3. store'[l][To(k)] = o[Key(k)] BY <1>0, <1>4, <2>1, <2>2
  <2>4. store'[l][Key(k)] \in {o[Key(k)], None} BY <1>0, <1>4, <2>1, <2>2
  <2>5. task'[k][l] = "committed" => store'[l][Key(k)] = None BY <1>0, <1>4, <2>1
  <2>6. task'[k][l] = "committed" => CommittedAt(k, l, o)'
    BY <1>2, <1>3, <2>1, <2>2, <2>3, <2>5 DEF CommittedAt, Transfers
  <2>7. task'[k][l] = "failed" => FailedAt(k, l, o)'
    BY <1>2, <1>3, <2>1, <2>2, <2>3, <2>4 DEF FailedAt, Transfers, Scans, Shared
  <2> QED BY <2>1, <2>6, <2>7 DEF LeafAt, Unwritten
<1>8. CASE ClearLeaf(k, l)
  <2> DEFINE without(X) == [x \in Keys |-> IF x \in X THEN None ELSE store[l][x]]
  <2>1. /\ Kind(k) = "clear" /\ task[k][l] = "start"
        /\ StorageCall(k, l, without(Keys), "committed", {without(X) : X \in SUBSET Keys})
    BY <1>8 DEF ClearLeaf
  <2>2. \A X : \A z \in Keys : without(X)[z] \in {store[l][z], None} OBVIOUS
  <2>3. \A z \in Keys : without(Keys)[z] = None OBVIOUS
  <2> HIDE DEF without
  <2>4. /\ task'[k][l] \in {"committed", "failed"}
        /\ task'[k][l] = "committed" => store'[l] = without(Keys)
        /\ \E X : store'[l] = without(X)
    BY <2>1, StorageCallEffect, StepEffect
  <2>5. \A z \in Keys : store[l][z] = o[z] BY <1>1, <2>1 DEF LeafAt, Unwritten
  <2>6. task'[k][l] = "committed" => CommittedAt(k, l, o)'
    BY <1>3, <2>1, <2>3, <2>4 DEF CommittedAt, Transfers
  <2>7. ASSUME NEW z \in Keys PROVE store'[l][z] \in {o[z], None}
    <3>1. PICK X : store'[l] = without(X) BY <2>4
    <3>2. without(X)[z] \in {store[l][z], None} BY <2>2
    <3> QED BY <2>5, <3>1, <3>2
  <2>8. task'[k][l] = "failed" => FailedAt(k, l, o)'
    BY <1>3, <2>1, <2>7 DEF FailedAt, Transfers, Scans, Shared
  <2> QED BY <2>4, <2>6, <2>8 DEF LeafAt, Unwritten
<1>9. ASSUME UNCHANGED store, task[k][l] \in Unwritten,
             NEW label \in Unwritten, Step(k, l, label),
             buffer'[k][l] = buffer[k][l],
             label \in {"found", "hit", "read"} => store[l][Key(k)] # None,
             label \in {"notFound", "missing", "fill"} => store[l][Key(k)] = None,
             label \in {"hit", "read"} => buffer[k][l] = store[l][Key(k)],
             label = "read" => Key(k) # To(k)
      PROVE  LeafAt(k, l, o)'
  <2>1. task'[k][l] = label BY <1>9, StepEffect
  <2>2. \A z \in locked[k] : store'[l][z] = o[z] BY <1>9 DEF LeafAt
  <2>3. store[l][Key(k)] = o[Key(k)] BY <1>1, <1>9 DEF LeafAt
  <2> QED BY <1>2, <1>3, <1>9, <2>1, <2>2, <2>3 DEF LeafAt, Unwritten
<1>10. ASSUME Kind(k) \in Transfers, o[Key(k)] # None,
              store[l][Key(k)] = o[Key(k)], store[l][To(k)] = o[To(k)],
              Kind(k) = "move" => Key(k) # To(k),
              StorageCall(k, l, Writes(l, To(k), o[Key(k)]), AfterWrite(k),
                          {store[l], Writes(l, To(k), o[Key(k)])})
       PROVE  LeafAt(k, l, o)'
  <2>1. /\ task'[k][l] \in {AfterWrite(k), "failed"}
        /\ task'[k][l] = AfterWrite(k) => store'[l] = Writes(l, To(k), o[Key(k)])
        /\ store'[l] \in {store[l], Writes(l, To(k), o[Key(k)])}
    BY <1>10, StorageCallEffect, StepEffect DEF AfterWrite
  <2>2. store'[l][Key(k)] = o[Key(k)] BY <1>0, <1>4, <1>10, <2>1
  <2>3. store'[l][To(k)] \in {o[To(k)], o[Key(k)]} BY <1>0, <1>4, <1>10, <2>1
  <2>4. task'[k][l] = AfterWrite(k) => store'[l][To(k)] = o[Key(k)] BY <1>0, <1>4, <2>1
  <2>5. task'[k][l] = "committed" => Kind(k) = "copy" /\ CommittedAt(k, l, o)'
    BY <1>3, <1>10, <2>1, <2>2, <2>4 DEF AfterWrite, CommittedAt, Transfers
  <2>6. task'[k][l] = "failed" => FailedAt(k, l, o)'
    BY <1>3, <1>10, <2>2, <2>3 DEF FailedAt, Transfers, Scans, Shared
  <2> QED BY <1>3, <1>10, <2>1, <2>2, <2>4, <2>5, <2>6 DEF LeafAt, Unwritten, AfterWrite
<1>11. CASE CopyLeaf(k, l)
  <2>1. Kind(k) \in Transfers /\ task[k][l] = "found" BY <1>11 DEF CopyLeaf, Transfers
  <2>2. /\ o[Key(k)] # None
        /\ store[l][Key(k)] = o[Key(k)] /\ store[l][To(k)] = o[To(k)]
    BY <1>1, <2>1 DEF LeafAt, Unwritten
  <2> QED BY <1>10, <1>11, <2>1, <2>2 DEF CopyLeaf
<1>12. CASE WriteLeaf(k, l)
  <2>1. Kind(k) \in Transfers /\ task[k][l] = "read"
    BY <1>0, <1>12 DEF WriteLeaf, TasksAt, LabelsOf, Transfers
  <2>2. /\ o[Key(k)] # None /\ Key(k) # To(k) /\ buffer[k][l] = o[Key(k)]
        /\ store[l][Key(k)] = o[Key(k)] /\ store[l][To(k)] = o[To(k)]
    BY <1>1, <2>1 DEF LeafAt, Unwritten
  <2> QED BY <1>10, <1>12, <2>1, <2>2 DEF WriteLeaf
<1>13. CASE MoveLeaf(k, l)
  <2> DEFINE copied == Writes(l, To(k), store[l][Key(k)])
             new == IF Key(k) = To(k) THEN store[l] ELSE [copied EXCEPT ![Key(k)] = None]
  <2>1. /\ Kind(k) = "move" /\ task[k][l] = "found"
        /\ StorageCall(k, l, new, "committed", {store[l], copied, new})
    BY <1>13 DEF MoveLeaf
  <2>2. /\ o[Key(k)] # None
        /\ store[l][Key(k)] = o[Key(k)] /\ store[l][To(k)] = o[To(k)]
    BY <1>1, <2>1 DEF LeafAt, Unwritten, Transfers
  <2>3. copied[To(k)] = o[Key(k)] /\ copied[Key(k)] = o[Key(k)] BY <1>0, <1>4, <2>2
  <2>4. /\ Key(k) = To(k) => new = store[l]
        /\ Key(k) # To(k) => new[Key(k)] = None /\ new[To(k)] = o[Key(k)]
    <3>1. copied \in [Keys -> Contents] BY <1>0, WriteTypes DEF TypeOK
    <3> QED BY <1>0, <2>3, <3>1
  <2> HIDE DEF copied, new
  <2>5. /\ task'[k][l] \in {"committed", "failed"}
        /\ task'[k][l] = "committed" => store'[l] = new
        /\ store'[l] \in {store[l], copied, new}
    BY <2>1, StorageCallEffect, StepEffect
  <2>6. task'[k][l] = "committed" => CommittedAt(k, l, o)'
    BY <1>3, <2>1, <2>2, <2>4, <2>5 DEF CommittedAt, Transfers
  <2>7. task'[k][l] = "failed" => FailedAt(k, l, o)'
    BY <1>3, <2>1, <2>2, <2>3, <2>4, <2>5 DEF FailedAt, Transfers, Scans, Shared
  <2> QED BY <2>5, <2>6, <2>7 DEF LeafAt, Unwritten
<1>14. CASE ReadLeaf(k, l)
  <2>1. /\ Kind(k) \in Transfers /\ task[k][l] = "found" /\ UNCHANGED store
        /\ \/ /\ buffer' = [buffer EXCEPT ![k][l] = store[l][Key(k)]]
              /\ Step(k, l, IF Key(k) = To(k) THEN "committed" ELSE "read")
           \/ Step(k, l, "failed")
    BY <1>14 DEF ReadLeaf, Transfers
  <2>2. /\ o[Key(k)] # None
        /\ store[l][Key(k)] = o[Key(k)] /\ store[l][To(k)] = o[To(k)]
        /\ \A z \in locked[k] : store[l][z] = o[z]
    BY <1>1, <2>1 DEF LeafAt, Unwritten
  <2>3. CASE Step(k, l, "failed")
    <3>1. task'[k][l] = "failed" BY <2>3, StepEffect
    <3>2. FailedAt(k, l, o)' BY <1>3, <2>1, <2>2 DEF FailedAt, Transfers, Scans, Shared
    <3> QED BY <3>1, <3>2 DEF LeafAt, Unwritten
  <2>4. CASE Step(k, l, "committed") /\ Key(k) = To(k)
    <3>1. task'[k][l] = "committed" BY <2>4, StepEffect
    <3>2. CommittedAt(k, l, o)' BY <1>3, <2>1, <2>2, <2>4 DEF CommittedAt, Transfers
    <3> QED BY <3>1, <3>2 DEF LeafAt, Unwritten
  <2>5. CASE /\ Step(k, l, "read") /\ Key(k) # To(k)
             /\ buffer' = [buffer EXCEPT ![k][l] = store[l][Key(k)]]
    <3>1. task'[k][l] = "read" BY <2>5, StepEffect
    <3>2. buffer'[k][l] = store[l][Key(k)] BY <2>5 DEF TypeOK
    <3> QED BY <1>2, <1>3, <2>1, <2>2, <2>5, <3>1, <3>2 DEF LeafAt, Unwritten
  <2> QED BY <2>1, <2>3, <2>4, <2>5
<1>15. CASE ScanRead(k, l)
  <2>1. /\ task[k][l] = "found" /\ Step(k, l, "hit") /\ UNCHANGED store
        /\ buffer' = [buffer EXCEPT ![k][l] = store[l][Key(k)]]
    BY <1>15 DEF ScanRead
  <2>2. buffer'[k][l] = store[l][Key(k)] BY <2>1 DEF TypeOK
  <2>3. /\ o[Key(k)] # None /\ store[l][Key(k)] = o[Key(k)]
        /\ \A z \in locked[k] : store[l][z] = o[z]
    BY <1>1, <2>1 DEF LeafAt, Unwritten
  <2>4. task'[k][l] = "hit" BY <2>1, StepEffect
  <2> QED BY <1>2, <1>3, <2>1, <2>2, <2>3, <2>4 DEF LeafAt, Unwritten
<1>16. CASE LeafExists(k, l) \/ ScanExists(k, l) \/ ScanFails(k, l)
  <2>1. PICK label \in {"found", "notFound", "missing", "error"} :
           /\ Step(k, l, label)
           /\ label = "found" => store[l][Key(k)] # None
           /\ label \in {"notFound", "missing"} => store[l][Key(k)] = None
    BY <1>16 DEF LeafExists, ScanExists, ScanFails
  <2>2. UNCHANGED <<store, buffer>> /\ task[k][l] \in Unwritten
    BY <1>16 DEF LeafExists, ScanExists, ScanFails, Unwritten
  <2> QED BY <1>9, <2>1, <2>2 DEF Unwritten
<1>17. CASE Fill(k, l)
  <2>1. /\ task[k][l] = "fill" /\ Kind(k) \in Scans
        /\ pc[k] # "io"
    BY <1>0, <1>17 DEF Fill, TasksAt, LabelsOf, Kinds, Scans, Shared, Holding
  <2>2. store[l][Key(k)] = None /\ o[Key(k)] = None
    BY <1>1, <2>1 DEF LeafAt, Unwritten
  <2> DEFINE new == Writes(l, Key(k), Data(k))
  <2>3. /\ task'[k][l] \in {"filled", "failed"} /\ UNCHANGED buffer
        /\ \A h \in Leaves : task'[k][h] = "hit" => task[k][h] = "hit"
        /\ task'[k][l] = "filled" => store'[l] = new
        /\ store'[l] \in {store[l], new}
    <3>1. \/ StorageCall(k, l, new, "filled", {store[l], new})
          \/ Step(k, l, "failed") /\ UNCHANGED <<store, buffer>>
      BY <1>17 DEF Fill
    <3> HIDE DEF new
    <3>2. CASE StorageCall(k, l, new, "filled", {store[l], new})
      <4>1. UNCHANGED buffer BY <3>2 DEF StorageCall
      <4> QED BY <3>2, <4>1, StorageCallEffect, StepEffect
    <3>3. CASE Step(k, l, "failed") /\ UNCHANGED <<store, buffer>> BY <3>3, StepEffect
    <3> QED BY <3>1, <3>2, <3>3
  <2>4. \A h \in Leaves : task'[k][h] = "hit" => Data(k) = buffer'[k][h]
    BY <1>0, <2>1, <2>3, DataOfHit DEF Holding
  <2>5. \A h \in Leaves : task'[k][h] = "hit" => store'[l][Key(k)] \in {None, buffer'[k][h]}
    BY <1>0, <1>4, <2>2, <2>3, <2>4
  <2>6. \A h \in Leaves : task'[k][l] = "filled" /\ task'[k][h] = "hit" =>
            store'[l][Key(k)] = buffer'[k][h]
    BY <1>0, <1>4, <2>3, <2>4
  <2>7. task'[k][l] = "failed" => FailedAt(k, l, o)'
    BY <1>3, <2>1, <2>2, <2>5 DEF FailedAt, Scans, Shared, Transfers
  <2> QED BY <1>3, <2>2, <2>3, <2>6, <2>7 DEF LeafAt, Unwritten
<1>18. ~ScanStops(k, l) /\ ~HasFound(k, l)
  BY DEF ScanStops, HasFound, Finish, Goto, TypeOK
<1> QED
  BY <1>5, <1>6, <1>7, <1>8, <1>11, <1>12, <1>13, <1>14, <1>15, <1>16, <1>17, <1>18 DEF LeafStep

\* A leaf that is going to be filled is still as the call has found it.
LEMMA FillingLeaves ==
    ASSUME ProgressInv, NEW k \in Calls, pc[k] = "io", Kind(k) \in Scans,
           NEW F \in SUBSET Missing(k), Filling(k, F),
           UNCHANGED <<store, request, locked, buffer>>,
           NEW i \in Leaves, NEW o, LeafAt(k, i, o)
    PROVE  LeafAt(k, i, o)'
<1>1. \A l \in Leaves : task'[k][l] = IF l \in F THEN "fill" ELSE task[k][l]
  BY FillingTypes DEF ProgressInv
<1>2. \A l \in F : l \in Leaves /\ task[k][l] = "missing" BY DEF Missing
<1>3. Kind(k)' = Kind(k) /\ Key(k)' = Key(k) /\ To(k)' = To(k) BY DEF Kind, Key, To
<1>4. task[k][i] \notin {"fill", "filled", "failed"}
  BY DEF ProgressInv, TasksInv, TasksAt
<1>5. CASE i \in F BY <1>1, <1>2, <1>3, <1>5 DEF LeafAt, Unwritten
<1>6. CASE i \notin F BY <1>1, <1>3, <1>4, <1>6 DEF LeafAt, CommittedAt
<1> QED BY <1>5, <1>6

\* A step of a call keeps what is said of its own leaves.
LEMMA OwnLeaves ==
    ASSUME IInv, Collects = FALSE, NEW k \in Calls, CallMoves(k)
    PROVE  LeavesAt(k)'
<1> USE DEF IInv, ProgressInv
<1>0. TasksAt(k) /\ LocksAt(k) /\ LeavesAt(k) BY DEF TasksInv, LocksInv, LeavesInv
<1>1. ASSUME NEW r \in Requests, Submit(k, r) PROVE LeavesAt(k)'
  <2>1. locked'[k] = {} /\ store' = store BY <1>0, <1>1 DEF Submit, LocksAt, Active
  <2>2. \A l \in Leaves : task'[k][l] = "start" BY <1>0, <1>1 DEF Submit, TasksAt
  <2>3. store \in Olds BY DEF TypeOK, Olds
  <2>4. Explains(k, store)' BY <2>1, <2>2 DEF Explains, LeafAt
  <2> QED BY <2>1, <2>3, <2>4 DEF LeavesAt
<1>2. CASE Lock(k)
  <2>1. PICK X : Acquire(k, X) /\ X \subseteq Wanted(k) BY <1>2 DEF Lock
  <2>2. pc[k] = "lock" BY <1>2 DEF Lock
  <2>3. PICK old \in Olds : Explains(k, old) BY <1>0, <2>2 DEF LeavesAt, Active
  <2>4. PICK new \in Olds :
           \A l \in Leaves : \A z \in Keys : new[l][z] = IF z \in X THEN store[l][z] ELSE old[l][z]
    <3> DEFINE new == [l \in Leaves |-> [z \in Keys |-> IF z \in X THEN store[l][z] ELSE old[l][z]]]
    <3>1. new \in Olds BY <2>3 DEF Olds, TypeOK
    <3> QED BY <3>1
  <2>5. /\ locked'[k] = locked[k] \cup X /\ locked'[k] \subseteq Keys
        /\ \A x \in Keys : before'[k][x] = IF x \in X THEN Held(x) ELSE before[k][x]
        /\ UNCHANGED <<store, task>>
    <3>1. TypeOK /\ pc[k] # "ready" BY <2>2
    <3>2. Wanted(k) \subseteq Keys /\ locked[k] \subseteq Keys BY <3>1, RequestTypes DEF TypeOK
    <3> HIDE DEF IInv, ProgressInv
    <3> QED BY <2>1, <3>1, <3>2, LockEffect
  <2>6. ASSUME NEW x \in locked'[k] PROVE before'[k][x] = {new[l][x] : l \in Leaves}
    <3>1. CASE x \in X
      <4>1. before'[k][x] = {store[l][x] : l \in Leaves} BY <2>5, <2>6, <3>1 DEF Held
      <4> QED BY <2>4, <2>5, <2>6, <3>1, <4>1
    <3>2. CASE x \notin X
      <4>1. before'[k][x] = {old[l][x] : l \in Leaves} BY <2>3, <2>5, <2>6, <3>2 DEF Explains
      <4> QED BY <2>4, <2>5, <2>6, <3>2, <4>1
    <3> QED BY <3>1, <3>2
  <2>7. ASSUME NEW l \in Leaves PROVE LeafAt(k, l, new[l])'
    <3>1. task[k][l] = "start" BY <1>0, <2>2 DEF TasksAt
    <3>2. \A z \in locked[k] : store[l][z] = old[l][z]
      BY <2>3, <3>1 DEF Explains, LeafAt, Unwritten
    <3> QED BY <2>4, <2>5, <3>1, <3>2 DEF LeafAt
  <2>8. Explains(k, new)' BY <2>6, <2>7 DEF Explains
  <2> QED BY <2>4, <2>8 DEF LeavesAt
<1>3. ASSUME NEW l \in Leaves, LeafStep(k, l) PROVE LeavesAt(k)'
  <2>1. SUFFICES ASSUME pc'[k] # "done" PROVE LeavesAt(k)' BY DEF LeavesAt, Active
  <2>2. Active(k) BY <1>3, LeafAtWork DEF Active
  <2>3. PICK old \in Olds : Explains(k, old) BY <1>0, <2>2 DEF LeavesAt
  <2>4. locked' = locked /\ before' = before
    BY <1>3, <2>1, LeafGoesOn
  <2>5. \A i \in Leaves : LeafAt(k, i, old[i])'
    BY <1>3, <2>1, <2>3, OwnLeaf, OtherLeafSame DEF Explains
  <2> QED BY <2>3, <2>4, <2>5 DEF LeavesAt, Explains
<1>4. CASE Abort(k) \/ Dispose(k) \/ Notify(k)
  <2>1. Active(k) /\ UNCHANGED <<store, request, locked, task, buffer, before>>
    BY <1>4 DEF Abort, Dispose, Notify, Active
  <2>2. PICK old \in Olds : Explains(k, old) BY <1>0, <2>1 DEF LeavesAt
  <2>3. \A l \in Leaves : LeafAt(k, l, old[l])' BY <2>1, <2>2, SameLeaf DEF Explains
  <2> QED BY <2>1, <2>2, <2>3 DEF LeavesAt, Explains
<1>5. CASE RepairStarts(k) \/ StreamOpens(k) \/ StreamFails(k)
  <2>1. /\ pc[k] = "io" /\ Kind(k) \in Scans
        /\ UNCHANGED <<store, request, locked, buffer, before>>
        /\ \E F \in SUBSET Missing(k) : Filling(k, F)
    BY <1>5 DEF RepairStarts, StreamOpens, StreamFails, Hit, Fills, Scans, Shared
  <2>2. PICK old \in Olds : Explains(k, old) BY <1>0, <2>1 DEF LeavesAt, Active
  <2>3. \A l \in Leaves : LeafAt(k, l, old[l])' BY <2>1, <2>2, FillingLeaves DEF Explains
  <2> QED BY <2>1, <2>2, <2>3 DEF LeavesAt, Explains
<1>6. CASE Withdraw(k) \/ Refuse(k) \/ Respond(k) \/ ScanEmpty(k) \/ GetHit(k) \/ RepairFails(k)
             \/ RepairDone(k) \/ Disposed(k)
  <2>1. pc'[k] = "done"
    BY <1>6
    DEF TypeOK, Withdraw, Refuse, Respond, ScanEmpty, GetHit, RepairFails, RepairDone, Disposed,
        Finish, Goto
  <2> QED BY <2>1 DEF LeavesAt, Active
<1>7. ~Collect(k) BY DEF Collect
<1> QED BY <1>1, <1>2, <1>3, <1>4, <1>5, <1>6, <1>7 DEF CallMoves, CallStep

----------------------------------------------------------------------------
(* The invariant holds *)

\* The invariant holds before any call was made.
LEMMA InvInit == Init => IInv
<1> SUFFICES ASSUME Init PROVE LocksInv /\ LeavesInv BY ProgressInit DEF IInv
<1>1. \A k \in Calls : pc[k] = "ready" /\ locked[k] = {} BY DEF Init
<1> QED BY <1>1 DEF LocksInv, LocksAt, LeavesInv, LeavesAt, Active, Holding

\* Every step keeps the invariant.
LEMMA InvStep ==
    ASSUME IInv, Collects = FALSE, [Next]_vars
    PROVE  IInv'
<1>1. ProgressInv' BY ProgressStep DEF IInv
<1>2. ASSUME NEW k \in Calls, CallMoves(k) PROVE LocksInv' /\ LeavesInv'
  BY <1>2, LocksStep, OwnLeaves, OtherLeaves DEF IInv, LeavesInv
<1>3. CASE UNCHANGED vars
  <2>1. LocksInv' BY <1>3 DEF IInv, LocksInv, LocksAt, Active, Wanted, Kind, Key, To, vars
  <2>2. ASSUME NEW k \in Calls, Active(k), NEW old \in Olds, Explains(k, old) PROVE Explains(k, old)'
    <3>1. \A l \in Leaves : LeafAt(k, l, old[l])'
      BY <1>3, <2>2, SameLeaf DEF IInv, Explains, vars
    <3> QED BY <1>3, <2>2, <3>1 DEF Explains, vars
  <2>3. LeavesInv' BY <1>3, <2>2 DEF IInv, LeavesInv, LeavesAt, Active, vars
  <2> QED BY <1>1, <2>1, <2>3 DEF IInv
<1> QED BY <1>1, <1>2, <1>3, NextCases DEF IInv

\* If streams are disposed before they are collected, no two calls have the
\* lock of a key unless both read it, and what the leaves hold under the keys
\* of a call is explained by what they held before and what it has done.
THEOREM Invariance ==
    ASSUME Collects = FALSE
    PROVE  Spec => []IInv
<1>1. IInv /\ [Next]_vars => IInv' BY InvStep
<1> QED BY <1>1, InvInit, PTL DEF Spec

----------------------------------------------------------------------------
(* What the invariant says of the middleware, of streams and of repairs *)

\* If streams are disposed before they are collected: while afterUse runs,
\* what it was told of each leaf is what the leaf holds.
THEOREM AfterUseIsTrue ==
    ASSUME Collects = FALSE
    PROVE  Spec => []AfterUseSeesOutcome
<1>1. ASSUME IInv PROVE AfterUseSeesOutcome
  <2>1. SUFFICES ASSUME NEW k \in Calls, NEW l \in Leaves, pc[k] = "notify"
                 PROVE  /\ task[k][l] = "notFound" => store[l][Key(k)] = None
                        /\ task[k][l] = "committed" =>
                             /\ Kind(k) = "set" => store[l][Key(k)] = request[k].value
                             /\ Kind(k) = "delete" => store[l][Key(k)] = None
                             /\ Kind(k) = "clear" => \A z \in Keys : store[l][z] = None
                             /\ Kind(k) = "copy" =>
                                   store[l][To(k)] # None /\ store[l][To(k)] = store[l][Key(k)]
                             /\ Kind(k) \notin {"set", "delete", "clear", "copy"} =>
                                   /\ store[l][To(k)] # None
                                   /\ Key(k) # To(k) => store[l][Key(k)] = None
    BY DEF AfterUseSeesOutcome
  <2>2. /\ Kind(k) \in Kinds \ Scans
        /\ pc[k] \in Holding /\ Active(k)
    BY <1>1, <2>1, RequestTypes DEF IInv, ProgressInv, TasksInv, TasksAt, Holding, Active
  <2>3. Key(k) \in locked[k] BY <1>1, <2>2, Locked DEF IInv
  <2>4. PICK old \in Olds : LeafAt(k, l, old[l])
    BY <1>1, <2>2 DEF IInv, LeavesInv, LeavesAt, Explains
  <2>5. task[k][l] = "notFound" => store[l][Key(k)] = None
    BY <2>3, <2>4 DEF LeafAt, Unwritten
  <2>6. task[k][l] = "committed" => CommittedAt(k, l, old[l]) BY <2>4 DEF LeafAt
  <2> QED BY <2>2, <2>5, <2>6 DEF CommittedAt, Kinds, Scans, Shared, Transfers
<1> QED BY <1>1, Invariance, PTL

\* If streams are disposed before they are collected: the storages do not
\* change under a stream that is being read.
THEOREM StreamsAreStable ==
    ASSUME Collects = FALSE
    PROVE  Spec => []StreamKeepsItsValue
<1>1. ASSUME IInv PROVE StreamKeepsItsValue
  <2>1. SUFFICES ASSUME NEW k \in Calls, NEW l \in Leaves, pc[k] = "streaming", task[k][l] = "hit"
                 PROVE  store[l][Key(k)] = buffer[k][l]
    BY DEF StreamKeepsItsValue
  <2>2. Key(k) \in locked[k] BY <1>1, <2>1, Locked DEF IInv, Holding
  <2>3. PICK old \in Olds : LeafAt(k, l, old[l])
    BY <1>1, <2>1 DEF IInv, LeavesInv, LeavesAt, Explains, Active
  <2> QED BY <2>1, <2>2, <2>3 DEF LeafAt, Unwritten
<1> QED BY <1>1, Invariance, PTL

\* If streams are disposed before they are collected: a repair writes to a leaf
\* only while its call has the lock of the key.
THEOREM RepairsAreLocked ==
    ASSUME Collects = FALSE
    PROVE  Spec => RepairUnderLock
<1>1. ASSUME IInv, NEW k \in Calls, NEW l \in Leaves, task[k][l] = "fill" PROVE Key(k) \in locked[k]
  <2>1. pc[k] \in Holding BY <1>1 DEF IInv, ProgressInv, TasksInv, TasksAt, Holding
  <2> QED BY <1>1, <2>1, Locked DEF IInv
<1>2. IInv => [\A k \in Calls, l \in Leaves :
                  task[k][l] = "fill" /\ task'[k][l] = "filled" => Key(k) \in locked[k]]_vars
  BY <1>1
<1> QED BY <1>2, Invariance, PTL DEF RepairUnderLock

----------------------------------------------------------------------------
(* What the atomic map shows of the locks *)

\* A key that some call owns shows what that call has found.
OwnersDecide == \A k \in Calls : \A x : Owns(k, x) => Visible(x) = before[k][x]

\* A key that a call has locked for writing shows what it had when it was locked.
LEMMA VisibleOwned == LocksInv => OwnersDecide
<1> SUFFICES ASSUME LocksInv, NEW k \in Calls, NEW x, Owns(k, x)
             PROVE  Visible(x) = before[k][x]
  BY DEF OwnersDecide
<1>1. \A j \in Calls : Owns(j, x) => j = k BY DEF LocksInv, Owns
<1>2. (CHOOSE j \in Calls : Owns(j, x)) = k BY <1>1
<1> QED BY <1>2 DEF Visible

\* The keys that a step of a call does not lock, write or release look the same
\* after it.
LEMMA VisibleElsewhere ==
    ASSUME IInv, IInv', NEW k \in Calls, CallMoves(k), NEW x \in Keys,
           ~Owns(k, x), ~Owns(k, x)'
    PROVE  Visible(x)' = Visible(x)
<1> USE DEF IInv, ProgressInv
<1>0. OwnersDecide /\ OwnersDecide' BY VisibleOwned, PTL
<1>1. ASSUME NEW j \in Calls, j # k
      PROVE  /\ Owns(j, x)' <=> Owns(j, x)
             /\ before'[j] = before[j]
  BY <1>1, Frame DEF Untouched, Owns, Kind
<1>2. CASE \E j \in Calls : Owns(j, x)
  <2>1. PICK j \in Calls : Owns(j, x) BY <1>2
  <2>2. Owns(j, x)' /\ before'[j] = before[j] BY <1>1, <2>1
  <2>3. Visible(x) = before[j][x] BY <2>1, <1>0 DEF OwnersDecide
  <2>4. Visible(x)' = before'[j][x] BY <2>2, <1>0 DEF OwnersDecide
  <2> QED BY <2>2, <2>3, <2>4
<1>3. CASE ~\E j \in Calls : Owns(j, x)
  <2>1. ~\E j \in Calls : Owns(j, x)' BY <1>1, <1>3
  <2>2. \A l \in Leaves : store'[l][x] = store[l][x] BY WritesUnderLock DEF Owns
  <2>3. Held(x)' = Held(x) BY <2>2 DEF Held
  <2> QED BY <1>3, <2>1, <2>3 DEF Visible
<1> QED BY <1>2, <1>3

\* As long as a call keeps its locks, and when it takes one, no key looks different.
LEMMA VisibleStays ==
    ASSUME IInv, IInv', Collects = FALSE, NEW k \in Calls, CallMoves(k), pc'[k] # "done",
           NEW x \in Keys
    PROVE  Visible(x)' = Visible(x)
<1> USE DEF IInv
<1>0. OwnersDecide /\ OwnersDecide' BY VisibleOwned, PTL
<1>1. CASE ~Owns(k, x) /\ ~Owns(k, x)' BY <1>1, VisibleElsewhere
<1>2. CASE pc[k] = "ready" /\ pc'[k] = "lock" /\ UNCHANGED locked
  <2>1. locked[k] = {} BY <1>2 DEF LocksInv, LocksAt, Active
  <2> QED BY <1>1, <1>2, <2>1 DEF Owns
<1>3. CASE Lock(k)
  <2>1. PICK X : /\ Acquire(k, X)
                 /\ \A z \in X : Kind(k) \in Transfers => z \notin locked[k]
    BY <1>3 DEF Lock
  <2>2. X \cap locked[k] = {} BY <1>3, <2>1 DEF Lock, LocksInv, LocksAt
  <2>3. /\ locked'[k] = locked[k] \cup X /\ Kind(k)' = Kind(k)
        /\ \A z \in Keys : before'[k][z] = IF z \in X THEN Held(z) ELSE before[k][z]
    BY <2>1, LockEffect DEF ProgressInv, Kind
  <2>4. CASE x \in locked[k] /\ Kind(k) \notin Shared
    <3>1. Owns(k, x) /\ Owns(k, x)' /\ before'[k][x] = before[k][x] BY <2>2, <2>3, <2>4 DEF Owns
    <3>2. Visible(x) = before[k][x] BY <3>1, <1>0 DEF OwnersDecide
    <3>3. Visible(x)' = before'[k][x] BY <3>1, <1>0 DEF OwnersDecide
    <3> QED BY <3>1, <3>2, <3>3
  <2>5. CASE x \in X /\ Kind(k) \notin Shared
    <3>1. Owns(k, x)' /\ before'[k][x] = Held(x) BY <2>3, <2>5 DEF Owns
    <3>2. ~\E j \in Calls : Owns(j, x)
      BY <2>1, <2>2, <2>5 DEF Owns, Acquire, CanLock
    <3>3. Visible(x)' = before'[k][x] BY <3>1, <1>0 DEF OwnersDecide
    <3> QED BY <3>1, <3>2, <3>3 DEF Visible
  <2>6. CASE (~Owns(k, x) /\ x \notin X) \/ Kind(k) \in Shared
    BY <1>1, <2>3, <2>6 DEF Owns
  <2> QED BY <2>4, <2>5, <2>6 DEF Owns
<1>4. CASE locked'[k] = locked[k] /\ request'[k] = request[k] /\ ~Lock(k)
  <2>1. Owns(k, x)' <=> Owns(k, x) BY <1>4 DEF Owns, Kind
  <2>2. CASE Owns(k, x)
    <3>1. x \in locked[k] /\ Active(k)
      BY <2>2 DEF Owns, LocksInv, LocksAt
    <3>2. before'[k][x] = before[k][x]
      <4>1. CASE \E l \in Leaves : LeafStep(k, l) BY <4>1, LeafMoves DEF ProgressInv
      <4>2. CASE ~\E l \in Leaves : LeafStep(k, l)
        BY <1>4, <4>2
        DEF CallMoves, Submit, Dispose, Collect, Abort, CallStep, Withdraw, Refuse, Notify, Respond,
            ScanEmpty, GetHit, RepairStarts, RepairFails, RepairDone, StreamOpens, StreamFails, Disposed
      <4> QED BY <4>1, <4>2
    <3>3. Visible(x) = before[k][x] BY <2>2, <1>0 DEF OwnersDecide
    <3>4. Visible(x)' = before'[k][x] BY <2>1, <2>2, <1>0 DEF OwnersDecide
    <3> QED BY <3>2, <3>3, <3>4
  <2> QED BY <1>1, <2>1, <2>2
<1> QED BY <1>2, <1>3, <1>4, LockCases

\* The keys of a call show what they had when the call locked them; a call that
\* only reads has not changed that.
LEMMA VisibleLocked ==
    ASSUME IInv, NEW k \in Calls, Active(k), NEW x \in locked[k]
    PROVE  Visible(x) = before[k][x]
<1> USE DEF IInv
<1>1. CASE Kind(k) \notin Shared BY <1>1, VisibleOwned DEF Owns, OwnersDecide
<1>2. CASE Kind(k) \in Shared
  <2>1. ~\E j \in Calls : Owns(j, x) BY <1>2 DEF Owns, LocksInv
  <2>2. PICK old \in Olds : Explains(k, old) BY DEF LeavesInv, LeavesAt
  <2>3. Active(k) /\ pc[k] # "ready" BY DEF Active
  <2>4. ASSUME NEW l \in Leaves PROVE store[l][x] = old[l][x]
    <3>1. task[k][l] \in LabelsOf(Kind(k)) \ {"fill", "filled", "failed"}
      BY <1>2, <2>3 DEF ProgressInv, TasksInv, TasksAt, Scans, Shared
    <3>2. task[k][l] \in Unwritten BY <1>2, <3>1 DEF LabelsOf, Shared, Unwritten
    <3> QED BY <2>2, <3>2 DEF Explains, LeafAt
  <2>5. Held(x) = before[k][x] BY <2>2, <2>4 DEF Held, Explains
  <2> QED BY <2>1, <2>5 DEF Visible
<1> QED BY <1>1, <1>2

\* When a call ends, its keys show what the storages hold.
LEMMA VisibleReleased ==
    ASSUME IInv, IInv', Collects = FALSE, NEW k \in Calls, CallMoves(k), pc'[k] = "done",
           pc[k] # "ready"
    PROVE  /\ UNCHANGED <<store, request, task, buffer>>
           /\ \A x \in Keys : Visible(x)' = IF x \in locked[k] THEN Held(x) ELSE Visible(x)
<1> USE DEF IInv, ProgressInv
<1>0. UNCHANGED <<store, request, task, buffer>>
  <2>1. CASE \E l \in Leaves : LeafStep(k, l) BY <2>1, LeafMoves, LeafAtWork
  <2>2. CASE ~\E l \in Leaves : LeafStep(k, l)
    BY <2>2
    DEF TypeOK, CallMoves, Submit, Dispose, Collect, Abort, CallStep, Lock, Acquire, Withdraw, Refuse,
        Notify, Respond, ScanEmpty, GetHit, RepairStarts, RepairFails, RepairDone, StreamOpens,
        StreamFails, Disposed, Finish, Goto
  <2> QED BY <2>1, <2>2
<1>1. locked'[k] = {} BY DEF LocksInv, LocksAt, Active
<1>2. SUFFICES ASSUME NEW x \in Keys
               PROVE  Visible(x)' = IF x \in locked[k] THEN Held(x) ELSE Visible(x)
  BY <1>0
<1>3. ASSUME NEW j \in Calls, j # k PROVE Owns(j, x)' <=> Owns(j, x)
  BY <1>3, Frame DEF Untouched, Owns, Kind
<1>4. ~Owns(k, x)' BY <1>1 DEF Owns
<1>5. Held(x)' = Held(x) BY <1>0 DEF Held
<1>6. CASE x \notin locked[k] BY <1>4, <1>6, VisibleElsewhere DEF Owns
<1>7. CASE x \in locked[k]
  <2>1. ~\E j \in Calls : j # k /\ Owns(j, x) BY <1>7 DEF Owns, LocksInv
  <2>2. ~\E j \in Calls : Owns(j, x)' BY <1>3, <1>4, <2>1
  <2> QED BY <1>5, <1>7, <2>2 DEF Visible
<1> QED BY <1>6, <1>7

\* Every key shows something that leaves can hold.
LEMMA VisibleTypes ==
    ASSUME IInv, NEW x \in Keys
    PROVE  Visible(x) \in (SUBSET Contents) \ {{}}
<1> USE DEF IInv, ProgressInv
<1>0. 1 \in Leaves BY OperationAssumption DEF OperationAssumption, Leaves
<1>1. CASE \E k \in Calls : Owns(k, x)
  <2>1. PICK k \in Calls : Owns(k, x) BY <1>1
  <2>2. x \in locked[k] /\ Active(k) BY <2>1 DEF Owns, LocksInv, LocksAt
  <2>3. Visible(x) = before[k][x] BY <2>2, VisibleLocked
  <2>4. PICK old \in Olds : Explains(k, old) BY <2>2 DEF LeavesInv, LeavesAt
  <2>5. old[1][x] \in before[k][x] BY <1>0, <2>2, <2>4 DEF Explains
  <2>6. before[k][x] \in SUBSET Contents BY DEF TypeOK
  <2> QED BY <2>3, <2>5, <2>6
<1>2. CASE ~\E k \in Calls : Owns(k, x)
  <2>1. Visible(x) = Held(x) BY <1>2 DEF Visible
  <2>2. store[1][x] \in Held(x) BY <1>0 DEF Held
  <2>3. \A l \in Leaves : store[l][x] \in Contents BY DEF TypeOK
  <2>4. Held(x) \subseteq Contents BY <2>3 DEF Held
  <2> QED BY <2>1, <2>2, <2>4
<1> QED BY <1>1, <1>2

\* What leaves can hold is what every key shows.
TypesShown == \A x \in Keys : Visible(x) \in (SUBSET Contents) \ {{}}

\* The same of all keys.
LEMMA ShownTypes == IInv => TypesShown
BY VisibleTypes DEF TypesShown

----------------------------------------------------------------------------
(* The data that reads return *)

\* The data of a read are those of the leaf it has found, and no others.
HitsDecide ==
    \A k \in Calls : pc[k] # "ready" /\ Kind(k) \in Scans =>
        \A h \in Leaves : task[k][h] = "hit" => Data(k) = buffer[k][h]

\* The data of a read are those of its one hit.
LEMMA HitsData == ProgressInv => HitsDecide
BY DataOfHit DEF HitsDecide

\* As long as the hit of a call stays, so do the data it returns.
LEMMA SameData ==
    ASSUME ProgressInv, ProgressInv', NEW j \in Calls, pc[j] # "ready", pc'[j] # "ready",
           Kind(j) \in Scans, request'[j] = request[j],
           \A l \in Leaves : task'[j][l] = "hit" <=> task[j][l] = "hit",
           \A l \in Leaves : task[j][l] = "hit" => buffer'[j][l] = buffer[j][l]
    PROVE  Data(j)' = Data(j)
<1>0. HitsDecide /\ HitsDecide' BY HitsData, PTL
<1>1. Kind(j)' = Kind(j) BY DEF Kind
<1>2. CASE Settled(j, {"hit"}) BY <1>2 DEF Settled, Data
<1>3. CASE ~Settled(j, {"hit"})
  <2>1. PICK h \in Leaves : task[j][h] = "hit" BY <1>3 DEF Settled
  <2>2. Data(j) = buffer[j][h] /\ Data(j)' = buffer'[j][h] BY <1>0, <1>1, <2>1 DEF HitsDecide
  <2> QED BY <2>1, <2>2
<1> QED BY <1>2, <1>3

\* The steps of one call do not change what the others have returned.
LEMMA OthersReturned ==
    ASSUME IInv, IInv', NEW k \in Calls, CallMoves(k), NEW j \in Calls, j # k
    PROVE  Returned(j)' = Returned(j)
<1> USE DEF IInv
<1>1. Untouched(j) BY Frame DEF ProgressInv
<1>2. CASE pc[j] = "ready" \/ Kind(j) \notin Scans
  BY <1>1, <1>2 DEF Untouched, Returned, Kind, ProgressInv, AnswersInv, AnswerAt
<1>3. CASE pc[j] # "ready" /\ Kind(j) \in Scans
  <2>1. Data(j)' = Data(j) BY <1>1, <1>3, SameData DEF Untouched
  <2> QED BY <1>1, <2>1 DEF Untouched, Returned, Kind
<1> QED BY <1>2, <1>3

----------------------------------------------------------------------------
(* Steps of the atomic map, in terms of what the keys show *)

\* What the atomic map sees of a step that answers call k.
Answers(k, answer) ==
    /\ result[k] = "pending"
    /\ result' = [result EXCEPT ![k] = answer]
    /\ request' = request

SameKeys == \A x \in Keys : Visible(x)' = Visible(x)
SameOthers(X) == \A x \in Keys \ X : Visible(x)' = Visible(x)
SameReturned == \A k \in Calls : Returned(k)' = Returned(k)

\* The map after a change of one key.
LEMMA KeyChanges ==
    ASSUME NEW x \in Keys, SameOthers({x})
    PROVE  [z \in Keys |-> Visible(z)]' = [[z \in Keys |-> Visible(z)] EXCEPT ![x] = Visible(x)']
BY DEF SameOthers

\* If no key looks different and no call returns other data, the map is the same.
LEMMA SameMap ==
    /\ SameKeys => [z \in Keys |-> Visible(z)]' = [z \in Keys |-> Visible(z)]
    /\ SameReturned => [k \in Calls |-> Returned(k)]' = [k \in Calls |-> Returned(k)]
BY DEF SameKeys, SameReturned

\* A set that leaves the key with its value, or fails and leaves a part of the
\* storages with theirs.
LEMMA SetMaps ==
    ASSUME NEW k \in Calls, Kind(k) = "set", NEW x \in Keys, x = Key(k), SameOthers({x}), SameReturned,
           \/ Answers(k, "ok") /\ Visible(x)' = {request[k].value}
           \/ /\ Answers(k, "failed")
              /\ Visible(x)' \in (SUBSET (Visible(x) \cup {request[k].value})) \ {{}}
    PROVE  Store!Next
<1>1. Store!Set(k)
  BY KeyChanges, SameMap DEF Store!Set, Store!Is, Store!Change, Store!Answer, Store!Some, Answers, Kind, Key
<1> QED BY <1>1 DEF Store!Next

\* The same for a delete.
LEMMA DeleteMaps ==
    ASSUME NEW k \in Calls, Kind(k) = "delete", NEW x \in Keys, x = Key(k), SameOthers({x}), SameReturned,
           \/ Answers(k, "ok") /\ Visible(x)' = {None}
           \/ /\ Answers(k, "failed")
              /\ Visible(x)' \in (SUBSET (Visible(x) \cup {None})) \ {{}}
    PROVE  Store!Next
<1>1. Store!Delete(k)
  BY KeyChanges, SameMap DEF Store!Delete, Store!Is, Store!Change, Store!Answer, Store!Some, Answers, Kind, Key
<1> QED BY <1>1 DEF Store!Next

\* The same for a clear, which changes every key.
LEMMA ClearMaps ==
    ASSUME NEW k \in Calls, Kind(k) = "clear", SameReturned,
           \A x \in Keys : Visible(x)' \in (SUBSET Contents) \ {{}},
           \/ Answers(k, "ok") /\ \A x \in Keys : Visible(x)' = {None}
           \/ Answers(k, "failed") /\ \A x \in Keys : Visible(x)' \subseteq Visible(x) \cup {None}
    PROVE  Store!Next
<1>1. Store!Clear(k)
  BY SameMap
  DEF Store!Clear, Store!Is, Store!Answer, Store!Some, Store!Contents, Contents, Answers, Kind
<1> QED BY <1>1 DEF Store!Next

\* A read, which may fill in the storages without the key.
LEMMA ReadMaps ==
    ASSUME NEW k \in Calls, Kind(k) \in Scans, NEW x \in Keys, x = Key(k), SameOthers({x}),
           Visible(x)' \in {Visible(x), Visible(x) \ {None}},
           \A j \in Calls \ {k} : Returned(j)' = Returned(j),
           \/ Answers(k, "failed") /\ SameReturned
           \/ Answers(k, "unknown") /\ SameReturned
           \/ Answers(k, "notFound") /\ SameKeys /\ SameReturned /\ Visible(x) = {None}
           \/ Answers(k, "ok") /\ Kind(k) = "has" /\ SameReturned /\ Visible(x) # {None}
           \/ Answers(k, "ok") /\ Returned(k)' \in Visible(x) \ {None}
    PROVE  Store!Next
<1> DEFINE kv == [z \in Keys |-> Visible(z)]
<1>0. Kind(k) \in {"get", "getRepair", "stream", "streamRepair", "has"} BY DEF Scans, Shared
<1>1. kv' = kv \/ kv' = [kv EXCEPT ![x] = @ \ {None}]
  <2>1. kv[x] = Visible(x) OBVIOUS
  <2>2. kv' = [kv EXCEPT ![x] = Visible(x)'] BY KeyChanges
  <2> QED BY <2>1, <2>2
<1>2. [j \in Calls |-> Returned(j)]' =
         [[j \in Calls |-> Returned(j)] EXCEPT ![k] = Returned(k)']
  OBVIOUS
<1>3. Store!Read(k)
  BY <1>0, <1>1, <1>2, SameMap
  DEF Store!Read, Store!Is, Store!Keep, Store!Answer, Answers, Kind, Key
<1> QED BY <1>3 DEF Store!Next

\* The map after a change of two keys.
LEMMA TwoKeysChange ==
    ASSUME NEW x \in Keys, NEW y \in Keys, SameOthers({x, y})
    PROVE  [z \in Keys |-> Visible(z)]' =
              [[z \in Keys |-> Visible(z)] EXCEPT ![x] = Visible(x)', ![y] = Visible(y)']
<1> DEFINE kv == [z \in Keys |-> Visible(z)]
<1>1. ASSUME NEW z \in Keys
      PROVE  Visible(z)' = [kv EXCEPT ![x] = Visible(x)', ![y] = Visible(y)'][z]
  <2>1. CASE z \notin {x, y} BY <2>1 DEF SameOthers
  <2>2. CASE z = x BY <2>2
  <2>3. CASE z = y BY <2>3
  <2> QED BY <2>1, <2>2, <2>3
<1> QED BY <1>1

\* A copy or a move between different keys that succeeds.
LEMMA TransferMaps ==
    ASSUME NEW k \in Calls, Kind(k) \in Transfers, Answers(k, "ok"),
           NEW x \in Keys, NEW y \in Keys, x = Key(k), y = To(k), x # y,
           SameOthers({x, y}), SameReturned,
           Visible(x) \ {None} # {},
           Visible(x)' = IF Kind(k) = "copy" THEN Visible(x) ELSE {None},
           Visible(x) \ {None} \subseteq Visible(y)',
           \A v \in Visible(y)' : \/ v \in Visible(x) \ {None}
                                  \/ v \in Visible(y) /\ None \in Visible(x)
    PROVE  Store!Next
<1> DEFINE kv == [z \in Keys |-> Visible(z)]
           source == kv[x] \ {None}
           kept == Visible(y)' \cap (IF None \in kv[x] THEN kv[y] ELSE {})
<1>1. kv[x] = Visible(x) /\ kv[y] = Visible(y) OBVIOUS
<1>2. Visible(y)' = source \cup kept BY <1>1
<1>3. kept \in SUBSET (IF None \in kv[x] THEN kv[y] ELSE {}) OBVIOUS
<1>4. kv' = [kv EXCEPT ![x] = IF request[k].kind = "copy" THEN @ ELSE {None},
                       ![y] = source \cup kept]
  <2>1. kv' = [kv EXCEPT ![x] = Visible(x)', ![y] = Visible(y)'] BY TwoKeysChange
  <2>2. Visible(x)' = IF request[k].kind = "copy" THEN kv[x] ELSE {None} BY <1>1 DEF Kind
  <2> HIDE DEF kept, source, kv
  <2> QED BY <1>2, <2>1, <2>2
<1> HIDE DEF kept
<1>5. Store!Transfer(k)
  BY <1>1, <1>3, <1>4, SameMap
  DEF Store!Transfer, Store!Is, Store!Answer, Answers, Transfers, Kind, Key, To
<1> QED BY <1>5 DEF Store!Next

\* A copy or a move between different keys that fails: what has become of the
\* storages differs.
LEMMA FailedTransferMaps ==
    ASSUME NEW k \in Calls, Kind(k) \in Transfers, Answers(k, "failed"),
           NEW x \in Keys, NEW y \in Keys, x = Key(k), y = To(k), x # y,
           SameOthers({x, y}), SameReturned,
           Visible(x)' \in (SUBSET (Visible(x) \cup {None})) \ {{}},
           Visible(y)' \in (SUBSET (Visible(y) \cup (Visible(x) \ {None}))) \ {{}},
           Kind(k) = "copy" => Visible(x)' = Visible(x),
           Visible(x) \ {None} \subseteq Visible(x)' \cup Visible(y)'
    PROVE  Store!Next
<1> DEFINE kv == [z \in Keys |-> Visible(z)]
<1>1. kv[x] = Visible(x) /\ kv[y] = Visible(y) OBVIOUS
<1>2. PICK S, T : S = Visible(x)' /\ T = Visible(y)' OBVIOUS
<1>3. kv' = [kv EXCEPT ![x] = S, ![y] = T] BY <1>2, TwoKeysChange
<1>4. /\ S \in Store!Some(kv[x] \cup {None})
      /\ T \in Store!Some(kv[y] \cup (kv[x] \ {None}))
      /\ request[k].kind = "copy" => S = kv[x]
      /\ kv[x] \ {None} \subseteq S \cup T
  BY <1>1, <1>2 DEF Store!Some, Kind
<1> HIDE DEF kv
<1>5. [z \in Keys |-> Visible(z)] = kv BY DEF kv
<1>6. Store!Transfer(k)
  BY <1>3, <1>4, SameMap
  DEF Store!Transfer, Store!Is, Store!Answer, Answers, Transfers, Kind, Key, To, kv
<1> QED BY <1>6 DEF Store!Next

\* A copy or a move that changes no key: it finds nothing, or does not know
\* whether there is anything, or its keys are the same.
LEMMA IdleTransferMaps ==
    ASSUME NEW k \in Calls, Kind(k) \in Transfers, NEW x \in Keys, x = Key(k), SameKeys, SameReturned,
           \/ Answers(k, "notFound") /\ Visible(x) = {None}
           \/ Answers(k, "unknown")
           \/ Answers(k, "ok") /\ Key(k) = To(k) /\ Visible(x) \ {None} # {}
           \/ Answers(k, "failed") /\ Key(k) = To(k)
    PROVE  Store!Next
<1>1. Store!Transfer(k)
  BY SameMap
  DEF Store!Transfer, Store!Is, Store!Keep, Store!Answer, Answers, Transfers, Kind, Key, To
<1> QED BY <1>1 DEF Store!Next

\* A call that fails without a change.
LEMMA FailMaps ==
    ASSUME IInv, NEW k \in Calls, pc[k] # "ready", Answers(k, "failed"), SameKeys, SameReturned
    PROVE  Store!Next
<1>1. Kind(k) \in Kinds /\ Key(k) \in Keys /\ To(k) \in Keys
  BY RequestTypes DEF IInv, ProgressInv
<1>2. PICK x \in Keys, y \in Keys : x = Key(k) /\ y = To(k) BY <1>1
<1>3. \A z \in Keys : /\ Visible(z) \in (SUBSET Contents) \ {{}}
                      /\ Visible(z)' = Visible(z)
  BY VisibleTypes DEF SameKeys
<1>4. SameOthers({x}) /\ SameOthers({x, y}) BY DEF SameKeys, SameOthers
<1>5. CASE Kind(k) = "set" BY <1>2, <1>3, <1>4, <1>5, SetMaps
<1>6. CASE Kind(k) = "delete" BY <1>2, <1>3, <1>4, <1>6, DeleteMaps
<1>7. CASE Kind(k) = "clear" BY <1>3, <1>7, ClearMaps
<1>8. CASE Kind(k) \in Scans
  <2>1. \A j \in Calls \ {k} : Returned(j)' = Returned(j) BY DEF SameReturned
  <2> QED BY <1>2, <1>3, <1>4, <1>8, <2>1, ReadMaps
<1>9. CASE Kind(k) \in Transfers
  <2>1. CASE x = y BY <1>2, <1>9, <2>1, IdleTransferMaps
  <2>2. CASE x # y BY <1>2, <1>3, <1>4, <1>9, <2>2, FailedTransferMaps
  <2> QED BY <2>1, <2>2
<1> QED BY <1>1, <1>5, <1>6, <1>7, <1>8, <1>9 DEF Kinds, Scans, Shared, Transfers

----------------------------------------------------------------------------
(* The ends of calls *)

\* What is known when call k ends with an answer.
Ends(k, answer) ==
    /\ request' = request
    /\ result' = [result EXCEPT ![k] = answer]
    /\ SameOthers(locked[k])
    /\ \A x \in locked[k] :
          /\ Visible(x) = before[k][x] /\ Visible(x)' = Held(x)
          /\ Visible(x)' \in (SUBSET Contents) \ {{}}
    /\ \A j \in Calls \ {k} : Returned(j)' = Returned(j)
    /\ result[k] = "pending" /\ (answer # "ok" \/ Kind(k) \notin Scans \ {"has"}) => SameReturned
    /\ answer = "ok" /\ Kind(k) \in Scans \ {"has"} => Returned(k)' = Data(k)
    /\ result[k] = "ok" /\ answer = "ok" => SameReturned
    /\ \E old \in Olds : Explains(k, old)
    /\ Active(k)

\* A call that ends shows what its leaves hold.
LEMMA Ending ==
    ASSUME IInv, IInv', Collects = FALSE, NEW k \in Calls, CallMoves(k),
           pc[k] # "ready", pc[k] # "done",
           NEW answer, Finish(k, answer)
    PROVE  Ends(k, answer)
<1> USE DEF IInv, ProgressInv
<1>1. pc'[k] = "done" /\ result' = [result EXCEPT ![k] = answer] /\ result'[k] = answer
  BY DEF Finish, Goto, TypeOK
<1>2. /\ UNCHANGED <<store, request, task, buffer>>
      /\ \A x \in Keys : Visible(x)' = IF x \in locked[k] THEN Held(x) ELSE Visible(x)
  BY <1>1, VisibleReleased
<1>3. locked[k] \subseteq Keys BY DEF TypeOK
<1>4. Active(k) BY DEF Active
<1>5. SameOthers(locked[k]) BY <1>2 DEF SameOthers
<1>6. ASSUME NEW x \in Keys PROVE Visible(x)' \in (SUBSET Contents) \ {{}}
  <2>1. TypesShown /\ TypesShown' BY ShownTypes, PTL
  <2> QED BY <2>1 DEF TypesShown
<1>7. \A x \in locked[k] : /\ Visible(x) = before[k][x] /\ Visible(x)' = Held(x)
                           /\ Visible(x)' \in (SUBSET Contents) \ {{}}
  BY <1>2, <1>3, <1>4, <1>6, VisibleLocked
<1>8. \A j \in Calls \ {k} : Returned(j)' = Returned(j) BY OthersReturned
<1>9. Kind(k)' = Kind(k) BY <1>2 DEF Kind
<1>10. Kind(k) \in Scans => Data(k)' = Data(k) BY <1>1, <1>2, SameData
<1>11. result[k] = "pending" /\ (answer # "ok" \/ Kind(k) \notin Scans \ {"has"}) =>
          Returned(k)' = Returned(k)
  BY <1>1, <1>9 DEF Returned
<1>12. answer = "ok" /\ Kind(k) \in Scans \ {"has"} => Returned(k)' = Data(k)
  BY <1>1, <1>9, <1>10 DEF Returned
<1>13. result[k] = "ok" /\ answer = "ok" => Returned(k)' = Returned(k)
  BY <1>1, <1>9, <1>10 DEF Returned
<1>14. \E old \in Olds : Explains(k, old) BY <1>4 DEF LeavesInv, LeavesAt
<1> QED
  BY <1>1, <1>2, <1>4, <1>5, <1>7, <1>8, <1>11, <1>12, <1>13, <1>14 DEF Ends, SameReturned

\* A key whose leaves are as they were found shows what it has shown.
LEMMA Unchanged ==
    ASSUME NEW k \in Calls, NEW old, Explains(k, old), NEW x \in locked[k],
           \A l \in Leaves : store[l][x] = old[l][x]
    PROVE  Held(x) = before[k][x]
BY DEF Explains, Held

\* A call that fails before it has written anything.
LEMMA EndsUnwritten ==
    ASSUME IInv, NEW k \in Calls, pc[k] # "ready", result[k] = "pending", Ends(k, "failed"),
           \A l \in Leaves : task[k][l] \in Unwritten
    PROVE  Store!Next
<1>1. PICK old \in Olds : Explains(k, old) BY DEF Ends
<1>2. ASSUME NEW x \in locked[k] PROVE Visible(x)' = Visible(x)
  <2>1. \A l \in Leaves : store[l][x] = old[l][x] BY <1>1 DEF Explains, LeafAt
  <2>2. Held(x) = before[k][x] BY <1>1, <2>1, Unchanged
  <2> QED BY <2>2 DEF Ends
<1>3. SameKeys BY <1>2 DEF SameKeys, Ends, SameOthers
<1>4. Answers(k, "failed") /\ SameReturned BY DEF Answers, Ends
<1> QED BY <1>3, <1>4, FailMaps

\* The answer of a write whose middleware has been told.
AnswerOf(k) == IF Kind(k) \in Transfers /\ aborted[k] THEN "failed" ELSE Answer(k)

\* A set, a delete or a clear answers.
LEMMA WriteEnds ==
    ASSUME IInv, NEW k \in Calls, pc[k] = "notify", Kind(k) \in {"set", "delete", "clear"},
           Ends(k, AnswerOf(k))
    PROVE  Store!Next
<1> USE DEF IInv, ProgressInv
<1>0. /\ TasksAt(k) /\ result[k] = "pending" /\ locked[k] = Wanted(k)
      /\ Key(k) \in Keys
  BY RequestTypes DEF TasksInv, AnswersInv, AnswerAt, LocksInv, LocksAt, Holding
<1>1. PICK old \in Olds : Explains(k, old) BY DEF Ends
<1>2. /\ AnswerOf(k) \in {"ok", "failed"}
      /\ AnswerOf(k) = "ok" => \A l \in Leaves : task[k][l] \notin {"failed", "error"}
  BY DEF AnswerOf, Answer, Transfers, Settled
<1>3. Answers(k, AnswerOf(k)) /\ SameReturned
  BY <1>0 DEF Ends, Answers, Scans, Shared
<1>4. \A l \in Leaves : task[k][l] \in {"notFound", "error", "committed", "failed"}
  BY <1>0 DEF TasksAt, LabelsOf, Settled, Unsettled
<1>5. \A l \in Leaves : LeafAt(k, l, old[l]) BY <1>1 DEF Explains
<1>6. ASSUME NEW x \in locked[k], NEW v,
             \A l \in Leaves : /\ store[l][x] \in {old[l][x], v}
                               /\ AnswerOf(k) = "ok" => store[l][x] = v
      PROVE  /\ AnswerOf(k) = "ok" => Visible(x)' = {v}
             /\ Visible(x)' \in (SUBSET (Visible(x) \cup {v})) \ {{}}
  <2>1. Visible(x) = {old[l][x] : l \in Leaves} BY <1>1 DEF Ends, Explains
  <2>2. Visible(x)' = {store[l][x] : l \in Leaves} /\ Visible(x)' # {} BY DEF Ends, Held
  <2>3. Visible(x)' \subseteq Visible(x) \cup {v} BY <1>6, <2>1, <2>2
  <2>4. ASSUME AnswerOf(k) = "ok" PROVE Visible(x)' = {v}
    BY <1>6, <2>2, <2>4
  <2> QED BY <2>2, <2>3, <2>4
<1>7. CASE Kind(k) = "set"
  <2>1. PICK x \in Keys : x = Key(k) BY <1>0
  <2>2. locked[k] = {x} BY <1>0, <1>7, <2>1 DEF Wanted, Transfers
  <2>3. \A l \in Leaves : task[k][l] \in {"committed", "failed"}
    BY <1>0, <1>4, <1>7 DEF TasksAt, LabelsOf
  <2>4. \A l \in Leaves : /\ store[l][x] \in {old[l][x], request[k].value}
                          /\ AnswerOf(k) = "ok" => store[l][x] = request[k].value
    BY <1>2, <1>5, <1>7, <2>1, <2>3 DEF LeafAt, CommittedAt, FailedAt
  <2>5. /\ AnswerOf(k) = "ok" => Visible(x)' = {request[k].value}
        /\ Visible(x)' \in (SUBSET (Visible(x) \cup {request[k].value})) \ {{}}
    BY <1>6, <2>2, <2>4
  <2>6. SameOthers({x}) BY <2>2 DEF Ends
  <2> QED BY <1>2, <1>3, <1>7, <2>1, <2>5, <2>6, SetMaps
<1>8. CASE Kind(k) = "delete"
  <2>1. PICK x \in Keys : x = Key(k) BY <1>0
  <2>2. locked[k] = {x} BY <1>0, <1>8, <2>1 DEF Wanted, Transfers
  <2>3. \A l \in Leaves : /\ store[l][x] \in {old[l][x], None}
                          /\ AnswerOf(k) = "ok" => store[l][x] = None
    BY <1>2, <1>4, <1>5, <1>8, <2>1, <2>2 DEF LeafAt, CommittedAt, FailedAt, Unwritten
  <2>4. /\ AnswerOf(k) = "ok" => Visible(x)' = {None}
        /\ Visible(x)' \in (SUBSET (Visible(x) \cup {None})) \ {{}}
    BY <1>6, <2>2, <2>3
  <2>5. SameOthers({x}) BY <2>2 DEF Ends
  <2> QED BY <1>2, <1>3, <1>8, <2>1, <2>4, <2>5, DeleteMaps
<1>9. CASE Kind(k) = "clear"
  <2>1. locked[k] = Keys BY <1>0, <1>9 DEF Wanted, Transfers
  <2>2. \A l \in Leaves : task[k][l] \in {"committed", "failed"}
    BY <1>0, <1>4, <1>9 DEF TasksAt, LabelsOf
  <2>3. ASSUME NEW x \in Keys
        PROVE  \A l \in Leaves : /\ store[l][x] \in {old[l][x], None}
                                 /\ AnswerOf(k) = "ok" => store[l][x] = None
    BY <1>2, <1>5, <1>9, <2>2 DEF LeafAt, CommittedAt, FailedAt
  <2>4. ASSUME NEW x \in Keys
        PROVE  /\ AnswerOf(k) = "ok" => Visible(x)' = {None}
               /\ Visible(x)' \subseteq Visible(x) \cup {None}
               /\ Visible(x)' \in (SUBSET Contents) \ {{}}
    BY <1>6, <2>1, <2>3 DEF Ends
  <2> QED BY <1>2, <1>3, <1>9, <2>4, ClearMaps
<1> QED BY <1>7, <1>8, <1>9

\* A copy or a move answers: every leaf that had the source has it still, or
\* has overwritten the destination with it.
LEMMA TransferEnds ==
    ASSUME IInv, NEW k \in Calls, pc[k] = "notify", Kind(k) \in Transfers, Ends(k, AnswerOf(k))
    PROVE  Store!Next
<1> USE DEF IInv, ProgressInv
<1>0. /\ TasksAt(k) /\ result[k] = "pending" /\ locked[k] = Wanted(k)
      /\ Key(k) \in Keys /\ To(k) \in Keys
  BY RequestTypes DEF TasksInv, AnswersInv, AnswerAt, LocksInv, LocksAt, Holding
<1>1. PICK old \in Olds : Explains(k, old) BY DEF Ends
<1>2. Answers(k, AnswerOf(k)) /\ SameReturned
  BY <1>0 DEF Ends, Answers, Scans, Shared, Transfers
<1>3. \A l \in Leaves : task[k][l] \in {"notFound", "error", "committed", "failed"}
  BY <1>0 DEF TasksAt, LabelsOf, Settled, Unsettled, Transfers
<1>4. PICK x \in Keys, y \in Keys : x = Key(k) /\ y = To(k) BY <1>0
<1>5. locked[k] = {x, y} BY <1>0, <1>4 DEF Wanted, Transfers
<1>6. /\ Visible(x) = {old[l][x] : l \in Leaves} /\ Visible(y) = {old[l][y] : l \in Leaves}
      /\ Visible(x)' = {store[l][x] : l \in Leaves} /\ Visible(y)' = {store[l][y] : l \in Leaves}
      /\ Visible(x)' # {} /\ Visible(y)' # {}
  BY <1>1, <1>5 DEF Ends, Explains, Held
<1>7. SameOthers({x, y}) BY <1>5 DEF Ends
<1>8. ASSUME NEW l \in Leaves
      PROVE  /\ task[k][l] \in {"notFound", "error"} =>
                   store[l][x] = old[l][x] /\ store[l][y] = old[l][y]
             /\ task[k][l] = "notFound" => old[l][x] = None
             /\ task[k][l] \in {"committed", "failed"} => old[l][x] # None
             /\ task[k][l] = "committed" => store[l][y] = old[l][x]
             /\ task[k][l] = "failed" => store[l][y] \in {old[l][y], old[l][x]}
             /\ Kind(k) = "copy" \/ x = y => store[l][x] = old[l][x]
             /\ task[k][l] = "committed" /\ Kind(k) = "move" /\ x # y => store[l][x] = None
             /\ task[k][l] = "failed" =>
                   \/ store[l][x] = old[l][x]
                   \/ store[l][x] = None /\ store[l][y] = old[l][x]
  <2>1. LeafAt(k, l, old[l]) BY <1>1 DEF Explains
  <2>2. CASE task[k][l] \in {"notFound", "error"} BY <1>4, <1>5, <2>1, <2>2 DEF LeafAt, Unwritten
  <2>3. CASE task[k][l] = "committed"
    BY <1>4, <2>1, <2>3 DEF LeafAt, CommittedAt, Transfers
  <2>4. CASE task[k][l] = "failed"
    BY <1>4, <2>1, <2>4 DEF LeafAt, FailedAt, Transfers
  <2> QED BY <1>3, <2>2, <2>3, <2>4
<1>9. ASSUME \A l \in Leaves : store[l][x] = old[l][x] /\ store[l][y] = old[l][y]
      PROVE  SameKeys
  <2>1. Visible(x)' = Visible(x) /\ Visible(y)' = Visible(y) BY <1>6, <1>9
  <2> QED BY <1>7, <2>1 DEF SameKeys, SameOthers
<1>10. CASE AnswerOf(k) = "failed"
  <2>1. CASE x = y
    <3>1. SameKeys BY <1>8, <1>9, <2>1
    <3> QED BY <1>2, <1>4, <1>10, <2>1, <3>1, IdleTransferMaps
  <2>2. CASE x # y
    <3>1. \A l \in Leaves : store[l][x] \in {old[l][x], None} BY <1>3, <1>8, <2>2 DEF Transfers
    <3>2. Visible(x)' \in (SUBSET (Visible(x) \cup {None})) \ {{}} BY <1>6, <3>1
    <3>3. \A l \in Leaves : \/ store[l][y] = old[l][y]
                            \/ store[l][y] = old[l][x] /\ old[l][x] # None
      BY <1>3, <1>8
    <3>4. Visible(y)' \in (SUBSET (Visible(y) \cup (Visible(x) \ {None}))) \ {{}} BY <1>6, <3>3
    <3>5. Kind(k) = "copy" => Visible(x)' = Visible(x) BY <1>6, <1>8
    <3>6. \A l \in Leaves : old[l][x] # None => store[l][x] = old[l][x] \/ store[l][y] = old[l][x]
      BY <1>3, <1>8
    <3>7. Visible(x) \ {None} \subseteq Visible(x)' \cup Visible(y)' BY <1>6, <3>6
    <3> QED BY <1>2, <1>4, <1>7, <1>10, <2>2, <3>2, <3>4, <3>5, <3>7, FailedTransferMaps
  <2> QED BY <2>1, <2>2
<1>11. CASE AnswerOf(k) \in {"notFound", "unknown"}
  <2>1. \A l \in Leaves : task[k][l] \in {"notFound", "error"}
    BY <1>3, <1>11 DEF AnswerOf, Answer, Settled
  <2>2. SameKeys BY <1>8, <1>9, <2>1
  <2>3. ASSUME AnswerOf(k) = "notFound" PROVE Visible(x) = {None}
    <3>1. \A l \in Leaves : task[k][l] = "notFound"
      BY <2>1, <2>3 DEF AnswerOf, Answer, Settled
    <3>2. \A l \in Leaves : old[l][x] = None BY <1>8, <3>1
    <3> QED BY <1>6, <3>2
  <2> QED BY <1>2, <1>4, <1>11, <2>2, <2>3, IdleTransferMaps
<1>12. CASE AnswerOf(k) = "ok"
  <2>1. \A l \in Leaves : task[k][l] \in {"notFound", "committed"}
    BY <1>3, <1>12 DEF AnswerOf, Answer, Settled
  <2>2. \E l \in Leaves : task[k][l] = "committed"
    BY <2>1, <1>12 DEF AnswerOf, Answer, Settled
  <2>3. Visible(x) \ {None} # {} BY <1>6, <1>8, <2>2
  <2>4. CASE x = y
    <3>1. SameKeys BY <1>8, <1>9, <2>4
    <3> QED BY <1>2, <1>4, <1>12, <2>3, <2>4, <3>1, IdleTransferMaps
  <2>5. CASE x # y
    <3>1. Kind(k) = "copy" => Visible(x)' = Visible(x) BY <1>6, <1>8
    <3>2. Kind(k) # "copy" => \A l \in Leaves : store[l][x] = None
      BY <1>8, <2>1, <2>5 DEF Transfers
    <3>3. Kind(k) # "copy" => Visible(x)' = {None} BY <1>6, <3>2
    <3>4. \A l \in Leaves : old[l][x] # None => store[l][y] = old[l][x] BY <1>8, <2>1
    <3>5. Visible(x) \ {None} \subseteq Visible(y)' BY <1>6, <3>4
    <3>6. \A l \in Leaves : \/ store[l][y] = old[l][x] /\ old[l][x] # None
                            \/ store[l][y] = old[l][y] /\ old[l][x] = None
      BY <1>8, <2>1
    <3>7. \A v \in Visible(y)' : \/ v \in Visible(x) \ {None}
                                 \/ v \in Visible(y) /\ None \in Visible(x)
      BY <1>6, <3>6
    <3> QED BY <1>2, <1>4, <1>7, <1>12, <2>3, <2>5, <3>1, <3>3, <3>5, <3>7, TransferMaps
  <2> QED BY <2>4, <2>5
<1> QED BY <1>10, <1>11, <1>12 DEF AnswerOf, Answer, Settled

\* What a read leaves of its key: it has filled in storages that had nothing,
\* with what it has found.
LEMMA ReadLeaves ==
    ASSUME IInv, NEW k \in Calls, pc[k] \in Holding, Kind(k) \in Scans,
           NEW x \in Keys, x = Key(k), NEW answer, Ends(k, answer)
    PROVE  /\ locked[k] = {x}
           /\ SameOthers({x})
           /\ Visible(x)' \in {Visible(x), Visible(x) \ {None}}
           /\ (\A l \in Leaves : task[k][l] \in Unwritten) => SameKeys
           /\ \A h \in Leaves : task[k][h] \in {"found", "hit"} => Visible(x) # {None}
           /\ \A h \in Leaves : task[k][h] = "hit" => Data(k) \in Visible(x) \ {None}
           /\ (\A l \in Leaves : task[k][l] = "missing") => Visible(x) = {None}
<1> USE DEF IInv, ProgressInv
<1>0. TasksAt(k) /\ locked[k] = Wanted(k) /\ pc[k] # "ready"
  BY DEF TasksInv, LocksInv, LocksAt, Holding
<1>1. PICK old \in Olds : Explains(k, old) BY DEF Ends
<1>2. locked[k] = {x} BY <1>0 DEF Wanted, Scans, Shared, Transfers
<1>3. SameOthers({x}) BY <1>2 DEF Ends
<1>4. /\ Visible(x) = {old[l][x] : l \in Leaves} /\ Visible(x) \subseteq Contents
      /\ Visible(x)' = {store[l][x] : l \in Leaves} /\ Visible(x)' # {}
  BY <1>1, <1>2 DEF Ends, Explains, Held, TypeOK
<1>5. \A l \in Leaves : LeafAt(k, l, old[l]) BY <1>1 DEF Explains
<1>6. (\A l \in Leaves : task[k][l] \in Unwritten) => SameKeys
  <2>1. SUFFICES ASSUME \A l \in Leaves : task[k][l] \in Unwritten PROVE SameKeys OBVIOUS
  <2>2. \A l \in Leaves : store[l][x] = old[l][x] BY <1>2, <1>5, <2>1 DEF LeafAt
  <2>3. Visible(x)' = Visible(x) BY <1>4, <2>2
  <2> QED BY <1>3, <2>3 DEF SameKeys, SameOthers
<1>7. ASSUME NEW h \in Leaves, task[k][h] \in {"found", "hit"}
      PROVE  old[h][x] # None /\ Visible(x) # {None}
  <2>1. old[h][x] # None BY <1>5, <1>7 DEF LeafAt
  <2> QED BY <1>4, <2>1
<1>8. ASSUME NEW h \in Leaves, task[k][h] = "hit" PROVE Data(k) = old[h][x]
  <2>1. buffer[k][h] = old[h][x] BY <1>5, <1>8 DEF LeafAt
  <2> QED BY <1>0, <1>8, <2>1, DataOfHit
<1>9. Visible(x)' \in {Visible(x), Visible(x) \ {None}}
  <2>1. CASE pc[k] = "io"
    <3>1. \A l \in Leaves : task[k][l] \in Unwritten
      BY <1>0, <2>1 DEF TasksAt, LabelsOf, Unwritten, Scans, Shared
    <3> QED BY <1>6, <3>1 DEF SameKeys
  <2>2. CASE pc[k] # "io"
    <3>1. PICK h \in Leaves : task[k][h] = "hit" BY <1>0, <2>2 DEF TasksAt, Holding, Settled
    <3>2. old[h][x] # None /\ old[h][x] \in Visible(x) /\ store[h][x] = old[h][x]
      BY <1>2, <1>4, <1>5, <1>7, <3>1 DEF LeafAt, Unwritten
    <3>3. buffer[k][h] = old[h][x] BY <1>5, <3>1 DEF LeafAt
    <3>4. \A l \in Leaves : \/ store[l][x] = old[l][x]
                            \/ old[l][x] = None /\ store[l][x] = old[h][x]
      <4>1. ASSUME NEW l \in Leaves
            PROVE  \/ store[l][x] = old[l][x]
                   \/ old[l][x] = None /\ store[l][x] = old[h][x]
        <5>1. task[k][l] \in Unwritten \cup {"filled", "failed"}
          BY <1>0 DEF TasksAt, LabelsOf, Unwritten, Scans, Shared
        <5>2. CASE task[k][l] \in Unwritten BY <1>2, <1>5, <5>2 DEF LeafAt
        <5>3. CASE task[k][l] = "filled" BY <1>5, <3>1, <3>3, <5>3 DEF LeafAt
        <5>4. CASE task[k][l] = "failed" BY <1>5, <3>1, <3>3, <5>4 DEF LeafAt, FailedAt
        <5> QED BY <5>1, <5>2, <5>3, <5>4
      <4> QED BY <4>1
    <3>5. Visible(x)' \subseteq Visible(x) BY <1>4, <3>2, <3>4
    <3>6. Visible(x) \ {None} \subseteq Visible(x)' BY <1>4, <3>4
    <3> QED BY <3>5, <3>6
  <2> QED BY <2>1, <2>2
<1>10. (\A l \in Leaves : task[k][l] = "missing") => Visible(x) = {None}
  <2>1. SUFFICES ASSUME \A l \in Leaves : task[k][l] = "missing" PROVE Visible(x) = {None}
    OBVIOUS
  <2>2. \A l \in Leaves : old[l][x] = None BY <1>5, <2>1 DEF LeafAt
  <2> QED BY <1>4, <2>2
<1>11. \A h \in Leaves : task[k][h] = "hit" => Data(k) \in Visible(x) \ {None}
  BY <1>4, <1>7, <1>8
<1> QED BY <1>2, <1>3, <1>6, <1>7, <1>9, <1>10, <1>11

----------------------------------------------------------------------------
(* Every step is a step of the atomic map, or changes nothing of it *)

\* What a read has found is what its key shows.
LEMMA HitShown ==
    ASSUME IInv, NEW k \in Calls, pc[k] \in Holding, Kind(k) \in Scans,
           NEW h \in Leaves, task[k][h] = "hit"
    PROVE  Data(k) \in Visible(Key(k)) \ {None}
<1> USE DEF IInv, ProgressInv
<1>0. Active(k) /\ pc[k] # "ready" BY DEF Active, Holding
<1>1. Key(k) \in locked[k] BY Locked
<1>2. PICK old \in Olds : Explains(k, old) BY <1>0 DEF LeavesInv, LeavesAt
<1>3. Visible(Key(k)) = {old[l][Key(k)] : l \in Leaves}
  BY <1>0, <1>1, <1>2, VisibleLocked DEF Explains
<1>4. buffer[k][h] = old[h][Key(k)] /\ old[h][Key(k)] # None BY <1>2 DEF Explains, LeafAt
<1>5. Data(k) = buffer[k][h] BY <1>0, DataOfHit
<1> QED BY <1>3, <1>4, <1>5

\* A call that is asked for.
LEMMA SubmitMaps ==
    ASSUME IInv, IInv', Collects = FALSE, NEW k \in Calls, NEW r \in Requests, Submit(k, r)
    PROVE  Store!Next
<1> USE DEF IInv, ProgressInv
<1>1. CallMoves(k) /\ pc'[k] # "done" BY DEF CallMoves, Submit, Goto, TypeOK
<1>2. SameKeys BY <1>1, VisibleStays DEF SameKeys
<1>3. result[k] = "none" BY DEF Submit, AnswersInv, AnswerAt
<1>4. Returned(k)' = Returned(k) BY <1>3 DEF Submit, TypeOK, Returned
<1>5. SameReturned BY <1>1, <1>4, OthersReturned DEF SameReturned
<1>6. Store!Ask(k, r) BY <1>2, <1>3, <1>5, SameMap DEF Store!Ask, Submit
<1> QED BY <1>6 DEF Store!Next

\* A stream that is opened is a read that has returned.
LEMMA StreamMaps ==
    ASSUME IInv, IInv', Collects = FALSE, NEW k \in Calls, StreamOpens(k)
    PROVE  Store!Next
<1> USE DEF IInv, ProgressInv
<1>1. /\ CallMoves(k) /\ pc'[k] = "streaming" /\ pc[k] = "io"
      /\ Kind(k) \in {"stream", "streamRepair"} /\ Kind(k)' = Kind(k)
      /\ ~Settled(k, {"hit"}) /\ Filling(k, Fills(k)) /\ result'[k] = "ok"
      /\ UNCHANGED <<request, buffer>>
  BY DEF CallMoves, CallStep, StreamOpens, Hit, Goto, TypeOK, Kind
<1>2. SameKeys BY <1>1, VisibleStays DEF SameKeys
<1>3. PICK h \in Leaves : task[k][h] = "hit" BY <1>1 DEF Settled
<1>4. Data(k) \in Visible(Key(k)) \ {None}
  BY <1>1, <1>3, HitShown DEF Holding, Scans, Shared
<1>5. \A l \in Leaves : task'[k][l] = "hit" <=> task[k][l] = "hit"
  BY <1>1, FillingTypes DEF Fills, Missing
<1>6. Data(k)' = Data(k) BY <1>1, <1>5, SameData DEF Scans, Shared
<1>7. Returned(k)' = Data(k) BY <1>1, <1>6 DEF Returned, Scans, Shared
<1>8. Answers(k, "ok") BY <1>1 DEF Answers, StreamOpens, AnswersInv, AnswerAt
<1>9. PICK x \in Keys : x = Key(k) BY <1>1, RequestTypes
<1>10. \A j \in Calls \ {k} : Returned(j)' = Returned(j) BY <1>1, OthersReturned
<1> QED
  BY <1>1, <1>2, <1>4, <1>7, <1>8, <1>9, <1>10, ReadMaps DEF SameKeys, SameOthers, Scans, Shared

\* A call that has settled does nothing any more.
LEMMA SettledStays ==
    ASSUME ProgressInv, NEW k \in Calls, CallMoves(k)
    PROVE  pc[k] # "done"
<1>1. CASE \E l \in Leaves : LeafStep(k, l) BY <1>1, LeafAtWork DEF ProgressInv
<1>2. CASE ~\E l \in Leaves : LeafStep(k, l)
  BY <1>2
  DEF CallMoves, Submit, Dispose, Collect, Abort, CallStep, Lock, Withdraw, Refuse, Notify, Respond,
      ScanEmpty, GetHit, Hit, RepairStarts, RepairFails, RepairDone, StreamOpens, StreamFails, Disposed
<1> QED BY <1>1, <1>2

\* The other steps of a call that goes on change nothing of the map.
LEMMA StaysMaps ==
    ASSUME IInv, IInv', Collects = FALSE, NEW k \in Calls, CallMoves(k), pc[k] # "ready",
           pc'[k] # "done", ~StreamOpens(k)
    PROVE  UNCHANGED Store!storeVars
<1> USE DEF IInv, ProgressInv
<1>1. ~\E r \in Requests : Submit(k, r) BY DEF Submit
<1>2. ~(Withdraw(k) \/ Refuse(k) \/ Respond(k) \/ ScanEmpty(k) \/ GetHit(k) \/ RepairFails(k)
             \/ RepairDone(k) \/ Disposed(k))
  BY DEF TypeOK, Withdraw, Refuse, Respond, ScanEmpty, GetHit, RepairFails, RepairDone, Disposed, Finish, Goto
<1>3. /\ UNCHANGED <<request, result>>
      /\ pc[k] \in {"streaming", "disposing"} =>
           /\ UNCHANGED buffer
           /\ \A l \in Leaves : task'[k][l] = "hit" <=> task[k][l] = "hit"
  <2>1. CASE Lock(k) BY <2>1 DEF Lock, Acquire
  <2>2. CASE Notify(k) \/ RepairStarts(k) \/ StreamFails(k)
    BY <2>2 DEF Notify, RepairStarts, StreamFails, Hit
  <2>3. CASE Dispose(k) \/ Abort(k) BY <2>3 DEF Dispose, Abort
  <2>4. ASSUME NEW l \in Leaves, LeafStep(k, l)
        PROVE  /\ UNCHANGED <<request, result>>
               /\ pc[k] \in {"streaming", "disposing"} =>
                    /\ UNCHANGED buffer
                    /\ \A i \in Leaves : task'[k][i] = "hit" <=> task[k][i] = "hit"
    <3>1. UNCHANGED <<request, result>> BY <2>4, LeafGoesOn
    <3>2. ASSUME pc[k] \in {"streaming", "disposing"}
          PROVE  /\ UNCHANGED buffer
                 /\ \A i \in Leaves : task'[k][i] = "hit" <=> task[k][i] = "hit"
      <4>1. Fill(k, l) BY <2>4, <3>2, LeafAtWork
      <4>2. /\ task[k][l] = "fill" /\ UNCHANGED buffer
            /\ Step(k, l, "filled") \/ Step(k, l, "failed")
        BY <4>1 DEF Fill, StorageCall
      <4> QED BY <4>2, StepEffect
    <3> QED BY <3>1, <3>2
  <2>5. ~Collect(k) BY DEF Collect
  <2> QED BY <1>1, <1>2, <2>1, <2>2, <2>3, <2>4, <2>5 DEF CallMoves, CallStep
<1>4. Kind(k)' = Kind(k) BY <1>3 DEF Kind
<1>5. Returned(k)' = Returned(k)
  <2>1. CASE pc[k] \in {"streaming", "disposing"}
    <3>1. Kind(k) \in Scans BY <2>1 DEF TasksInv, TasksAt, Scans, Shared
    <3>2. pc'[k] # "ready" BY <1>3, <2>1 DEF TypeOK
    <3>3. Data(k)' = Data(k) BY <1>3, <2>1, <3>1, <3>2, SameData
    <3> QED BY <1>3, <1>4, <3>3 DEF Returned
  <2>2. CASE pc[k] \notin {"streaming", "disposing", "done"}
    <3>1. result[k] = "pending" BY <2>2 DEF AnswersInv, AnswerAt, TypeOK, Labels
    <3> QED BY <1>3, <3>1 DEF Returned
  <2>3. pc[k] # "done" BY SettledStays
  <2> QED BY <2>1, <2>2, <2>3
<1>6. SameKeys BY VisibleStays DEF SameKeys
<1>7. SameReturned BY <1>5, OthersReturned DEF SameReturned
<1> QED BY <1>3, <1>6, <1>7, SameMap DEF Store!storeVars

\* A call that ends before it has written, because it was refused, withdrawn
\* or stopped.
LEMMA StopMaps ==
    ASSUME IInv, IInv', Collects = FALSE, NEW k \in Calls,
           \/ Withdraw(k) \/ Refuse(k) \/ RepairFails(k)
           \/ GetHit(k) /\ Finish(k, "failed")
           \/ \E l \in Leaves : ScanStops(k, l)
    PROVE  Store!Next
<1> USE DEF IInv, ProgressInv
<1>1. /\ CallMoves(k) /\ Finish(k, "failed")
      /\ pc[k] \in {"lock", "io"}
      /\ pc[k] = "io" => Kind(k) \in Scans \/ \A l \in Leaves : task[k][l] = "start"
  BY DEF CallMoves, CallStep, LeafStep, Withdraw, Refuse, RepairFails, GetHit, Hit, ScanStops, Current,
         Scans, Shared
<1>2. TasksAt(k) /\ result[k] = "pending" BY <1>1 DEF TasksInv, AnswersInv, AnswerAt
<1>3. \A l \in Leaves : task[k][l] \in Unwritten
  BY <1>1, <1>2 DEF TasksAt, LabelsOf, Scans, Shared, Unwritten
<1>4. Ends(k, "failed") BY <1>1, Ending
<1> QED BY <1>1, <1>2, <1>3, <1>4, EndsUnwritten

\* A write that answers.
LEMMA RespondMaps ==
    ASSUME IInv, IInv', Collects = FALSE, NEW k \in Calls, Respond(k)
    PROVE  Store!Next
<1>1. CallMoves(k) /\ pc[k] = "notify" /\ Finish(k, AnswerOf(k))
  BY DEF CallMoves, CallStep, Respond, AnswerOf
<1>2. Ends(k, AnswerOf(k)) BY <1>1, Ending
<1>3. Kind(k) \in Kinds \ Scans
  BY <1>1, RequestTypes DEF IInv, ProgressInv, TasksInv, TasksAt
<1> QED BY <1>1, <1>2, <1>3, WriteEnds, TransferEnds DEF Kinds, Scans, Shared, Transfers

\* A read that answers when it ends.
LEMMA ReadEndMaps ==
    ASSUME IInv, IInv', Collects = FALSE, NEW k \in Calls,
           \/ ScanEmpty(k) \/ RepairDone(k)
           \/ GetHit(k) /\ Finish(k, "ok")
           \/ \E l \in Leaves : HasFound(k, l)
           \/ Disposed(k) /\ result[k] = "pending"
    PROVE  Store!Next
<1> USE DEF IInv, ProgressInv
<1>1. CallMoves(k) /\ pc[k] \in Holding
  BY DEF CallMoves, CallStep, LeafStep, ScanEmpty, RepairDone, GetHit, Hit, HasFound, Current, Disposed,
         Holding
<1>2. TasksAt(k) /\ pc[k] # "ready" /\ pc[k] # "done" BY <1>1 DEF TasksInv, Holding
<1>3. Kind(k) \in Scans
  BY <1>2 DEF TasksAt, ScanEmpty, RepairDone, GetHit, HasFound, Current, Disposed, Scans, Shared
<1>4. result[k] = "pending"
  BY DEF AnswersInv, AnswerAt, ScanEmpty, RepairDone, GetHit, Hit, HasFound, Current
<1>5. PICK x \in Keys : x = Key(k) BY <1>2, RequestTypes
<1>6. PICK answer :
         /\ Finish(k, answer)
         /\ \/ answer \in {"failed", "unknown"}
            \/ answer = "notFound" /\ \A l \in Leaves : task[k][l] = "missing"
            \/ answer = "ok" /\ Kind(k) = "has" /\ \E l \in Leaves : task[k][l] = "found"
            \/ answer = "ok" /\ Kind(k) # "has" /\ \E l \in Leaves : task[k][l] = "hit"
  <2>1. CASE ScanEmpty(k) BY <2>1 DEF ScanEmpty, Settled
  <2>2. CASE RepairDone(k) BY <1>2, <2>2 DEF RepairDone, TasksAt, Settled
  <2>3. CASE GetHit(k) /\ Finish(k, "ok") BY <2>3 DEF GetHit, Hit, Settled
  <2>4. CASE \E l \in Leaves : HasFound(k, l) BY <2>4 DEF HasFound
  <2>5. CASE Disposed(k) /\ result[k] = "pending" BY <2>5 DEF Disposed
  <2> QED BY <2>1, <2>2, <2>3, <2>4, <2>5
<1>7. Ends(k, answer) BY <1>1, <1>2, <1>6, Ending
<1>8. Answers(k, answer) BY <1>4, <1>7 DEF Answers, Ends
<1>9. /\ SameOthers({x})
      /\ Visible(x)' \in {Visible(x), Visible(x) \ {None}}
      /\ (\A l \in Leaves : task[k][l] \in Unwritten) => SameKeys
      /\ \A h \in Leaves : task[k][h] \in {"found", "hit"} => Visible(x) # {None}
      /\ \A h \in Leaves : task[k][h] = "hit" => Data(k) \in Visible(x) \ {None}
      /\ (\A l \in Leaves : task[k][l] = "missing") => Visible(x) = {None}
  BY <1>1, <1>3, <1>5, <1>7, ReadLeaves
<1>10. \A j \in Calls \ {k} : Returned(j)' = Returned(j) BY <1>7 DEF Ends
<1>11. answer # "ok" \/ Kind(k) = "has" => SameReturned BY <1>4, <1>7 DEF Ends
<1>12. CASE answer \in {"failed", "unknown"}
  BY <1>3, <1>5, <1>8, <1>9, <1>10, <1>11, <1>12, ReadMaps
<1>13. CASE answer = "notFound" /\ \A l \in Leaves : task[k][l] = "missing"
  <2>1. SameKeys /\ Visible(x) = {None} BY <1>9, <1>13 DEF Unwritten
  <2> QED BY <1>3, <1>5, <1>8, <1>9, <1>10, <1>11, <1>13, <2>1, ReadMaps
<1>14. CASE answer = "ok" /\ Kind(k) = "has" /\ \E l \in Leaves : task[k][l] = "found"
  <2>1. Visible(x) # {None} BY <1>9, <1>14
  <2> QED BY <1>3, <1>5, <1>8, <1>9, <1>10, <1>11, <1>14, <2>1, ReadMaps
<1>15. CASE answer = "ok" /\ Kind(k) # "has" /\ \E l \in Leaves : task[k][l] = "hit"
  <2>1. Data(k) \in Visible(x) \ {None} BY <1>9, <1>15
  <2>2. Returned(k)' = Data(k) BY <1>3, <1>7, <1>15 DEF Ends
  <2> QED BY <1>3, <1>5, <1>8, <1>9, <1>10, <1>15, <2>1, <2>2, ReadMaps
<1> QED BY <1>6, <1>12, <1>13, <1>14, <1>15

\* A stream that is disposed has healed its key, if it has changed anything.
LEMMA DisposedMaps ==
    ASSUME IInv, IInv', Collects = FALSE, NEW k \in Calls, Disposed(k), result[k] # "pending"
    PROVE  Store!Next \/ UNCHANGED Store!storeVars
<1> USE DEF IInv, ProgressInv
<1>1. /\ CallMoves(k) /\ pc[k] \in Holding /\ pc[k] # "ready" /\ pc[k] # "done"
      /\ result[k] = "ok" /\ Finish(k, "ok")
  BY DEF CallMoves, CallStep, Disposed, AnswersInv, AnswerAt, Holding
<1>2. TasksAt(k) /\ Kind(k) \in Scans /\ ~Settled(k, {"hit"})
  BY DEF TasksInv, TasksAt, Disposed, Scans, Shared
<1>3. PICK h \in Leaves : task[k][h] = "hit" BY <1>2 DEF Settled
<1>4. PICK x \in Keys : x = Key(k) BY <1>1, RequestTypes
<1>5. Ends(k, "ok") BY <1>1, Ending
<1>6. /\ SameOthers({x})
      /\ Visible(x)' \in {Visible(x), Visible(x) \ {None}}
      /\ Visible(x) # {None}
  BY <1>1, <1>2, <1>3, <1>4, <1>5, ReadLeaves
<1>7. SameReturned /\ request' = request BY <1>1, <1>5 DEF Ends
<1>8. result' = result BY <1>1, <1>5 DEF Ends, TypeOK
<1>9. CASE Visible(x)' = Visible(x)
  <2>1. SameKeys BY <1>6, <1>9 DEF SameKeys, SameOthers
  <2> QED BY <1>7, <1>8, <2>1, SameMap DEF Store!storeVars
<1>10. CASE Visible(x)' = Visible(x) \ {None}
  <2>1. Store!Heal(x) BY <1>6, <1>7, <1>8, <1>10, KeyChanges, SameMap DEF Store!Heal
  <2> QED BY <2>1 DEF Store!Next
<1> QED BY <1>6, <1>9, <1>10

\* A step of the client is a step of the atomic map, or changes nothing of it.
LEMMA StoreStep ==
    ASSUME IInv, IInv', Collects = FALSE, NEW k \in Calls, CallMoves(k)
    PROVE  Store!Next \/ UNCHANGED Store!storeVars
<1> USE DEF IInv, ProgressInv
<1>1. CASE pc[k] = "ready"
  <2>1. ~CallStep(k) /\ ~Dispose(k) /\ ~Collect(k) /\ ~Abort(k) /\ ~\E l \in Leaves : LeafStep(k, l)
    BY <1>1, LeafAtWork
    DEF CallStep, Lock, Withdraw, Refuse, Notify, Respond, ScanEmpty, GetHit, Hit, RepairStarts,
        RepairFails, RepairDone, StreamOpens, StreamFails, Disposed, Dispose, Collect, Abort
  <2> QED BY <2>1, SubmitMaps DEF CallMoves
<1>2. CASE StreamOpens(k) BY <1>2, StreamMaps
<1>3. CASE pc[k] # "ready" /\ pc'[k] # "done" /\ ~StreamOpens(k) BY <1>3, StaysMaps
<1>4. CASE pc[k] # "ready" /\ pc'[k] = "done" /\ ~StreamOpens(k)
  <2>1. pc[k] # "done" BY SettledStays
  <2>2. ~\E r \in Requests : Submit(k, r) BY <1>4 DEF Submit
  <2>3. ~(Lock(k) \/ Notify(k) \/ RepairStarts(k) \/ StreamFails(k) \/ Dispose(k) \/ Collect(k) \/ Abort(k))
    BY <1>4, <2>1
    DEF TypeOK, Lock, Acquire, Notify, RepairStarts, StreamFails, Dispose, Collect, Abort, Goto
  <2>4. ASSUME NEW l \in Leaves, LeafStep(k, l) PROVE ScanStops(k, l) \/ HasFound(k, l)
    BY <1>4, <2>1, <2>4, LeafMoves
  <2>5. GetHit(k) => (GetHit(k) /\ Finish(k, "ok")) \/ (GetHit(k) /\ Finish(k, "failed"))
    BY DEF GetHit
  <2> QED
    BY <1>4, <2>2, <2>3, <2>4, <2>5, StopMaps, RespondMaps, ReadEndMaps, DisposedMaps
    DEF CallMoves, CallStep
<1> QED BY <1>1, <1>2, <1>3, <1>4

\* At first the keys show what the storages hold.
LEMMA StoreInit == Init => Store!Init
<1> SUFFICES ASSUME Init PROVE Store!Init OBVIOUS
<1>1. \A x \in Keys : Visible(x) \in Store!Some(Store!Contents)
  BY InvInit, VisibleTypes DEF Store!Some, Store!Contents, Contents
<1>2. \A k \in Calls : Returned(k) = None BY DEF Init, Returned
<1> QED BY <1>1, <1>2 DEF Init, Store!Init

\* If streams are disposed before they are collected, the client implements
\* the atomic map: whatever the leaves do in parallel, whichever of them fail
\* and whenever calls are aborted, each call takes effect at once.
THEOREM Refinement ==
    ASSUME Collects = FALSE
    PROVE  Spec => ImplementsStore
<1>1. IInv /\ IInv' /\ [Next]_vars => [Store!Next]_(Store!storeVars)
  <2> SUFFICES ASSUME IInv, IInv', [Next]_vars
               PROVE  Store!Next \/ UNCHANGED Store!storeVars
    OBVIOUS
  <2>1. CASE \E k \in Calls : CallMoves(k) BY <2>1, StoreStep
  <2>2. CASE UNCHANGED vars
    <3>1. \A x \in Keys : Visible(x)' = Visible(x)
      BY <2>2 DEF vars, Visible, Owns, Held, Kind
    <3>2. \A k \in Calls : Returned(k)' = Returned(k)
      BY <2>2 DEF vars, Returned, Data, Settled, Kind
    <3> QED BY <2>2, <3>1, <3>2, SameMap DEF vars, SameKeys, SameReturned, Store!storeVars
  <2> QED BY <2>1, <2>2, NextCases
<1> QED BY <1>1, StoreInit, Invariance, PTL DEF Spec, Store!Spec, ImplementsStore
=============================================================================
