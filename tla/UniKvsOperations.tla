-------------------------- MODULE UniKvsOperations --------------------------
(***************************************************************************)
(* The operations of an open UniKVS client: set, get, stream, has, delete, *)
(* copy, move and clear, on several leaf storages, under the key locks of  *)
(* the connection (Asyncmux io).                                           *)
(*                                                                         *)
(* A call asks for its key locks, then works on the leaves: writes run on  *)
(* all leaves in parallel, reads try one leaf after another.  It answers   *)
(* after it released its locks, except for stream, which returns with the  *)
(* lock held.  task[k][l] is the progress of call k on leaf l, in steps of *)
(* one storage call each.                                                  *)
(***************************************************************************)
EXTENDS Naturals, FiniteSets

CONSTANTS
    LeafCount,   \* the leaves are numbered in the order of registration
    Keys,        \* numbers: only their order matters
    Values,
    None,        \* nothing is stored
    Calls,       \* calls of the client's methods, each used once
    Requests,    \* what a call may ask for
    CanRepair,   \* the leaves that allow repair
    NativeCopy,  \* the leaves whose storage defines copy
    NativeMove,  \* the leaves whose storage defines move
    Faulty,      \* the leaves whose storage may throw
    Collects     \* may a ValueStream be garbage collected undisposed?

Leaves == 1 .. LeafCount

Kinds == {"set", "get", "getRepair", "stream", "streamRepair", "has",
          "delete", "copy", "move", "clear"}

ASSUME OperationAssumption ==
    /\ LeafCount \in Nat \ {0}
    /\ Keys \subseteq Nat
    /\ None \notin Values
    /\ Requests \subseteq [kind : Kinds, key : Keys, to : Keys, value : Values]
    /\ None \notin Requests
    /\ CanRepair \cup NativeCopy \cup NativeMove \cup Faulty \subseteq Leaves
    /\ Collects \in BOOLEAN

VARIABLES
    store,    \* store[l][x]: what the storage of leaf l holds for key x
    request,  \* request[k]: what call k asks for
    pc,       \* pc[k]: where call k is
    locked,   \* locked[k]: the keys whose locks call k holds
    task,     \* task[k][l]: the progress of call k on leaf l
    buffer,   \* buffer[k][l]: the value call k read from leaf l
    aborted,  \* aborted[k]: the signal of call k has fired
    result,   \* result[k]: how call k was answered
    before    \* before[k][x]: what the leaves held when k locked x (history)

vars == <<store, request, pc, locked, task, buffer, aborted, result, before>>

Shared == {"get", "stream", "has"}
Scans == Shared \cup {"getRepair", "streamRepair"}
Transfers == {"copy", "move"}

Kind(k) == request[k].kind
Key(k) == request[k].key
To(k) == request[k].to

Held(x) == {store[l][x] : l \in Leaves}

Init ==
    /\ store \in [Leaves -> [Keys -> Values \cup {None}]]
    /\ request = [k \in Calls |-> None]
    /\ pc = [k \in Calls |-> "ready"]
    /\ locked = [k \in Calls |-> {}]
    /\ task = [k \in Calls |-> [l \in Leaves |-> "start"]]
    /\ buffer = [k \in Calls |-> [l \in Leaves |-> None]]
    /\ aborted = [k \in Calls |-> FALSE]
    /\ result = [k \in Calls |-> "none"]
    /\ before = [k \in Calls |-> [x \in Keys |-> {None}]]

Goto(k, label) == pc' = [pc EXCEPT ![k] = label]

\* The locks are released and the call settles.
Finish(k, answer) ==
    /\ Goto(k, "done")
    /\ locked' = [locked EXCEPT ![k] = {}]
    /\ result' = [result EXCEPT ![k] = answer]

Settled(k, S) == \A l \in Leaves : task[k][l] \notin S

----------------------------------------------------------------------------
(* the call and its locks *)

Submit(k, r) ==
    /\ pc[k] = "ready"
    /\ request' = [request EXCEPT ![k] = r]
    /\ result' = [result EXCEPT ![k] = "pending"]
    /\ Goto(k, "lock")
    /\ UNCHANGED <<store, locked, task, buffer, aborted, before>>

\* A middleware's use or encode throws before the lock is asked for; clear
\* runs use under its lock.  Under its locks a transfer fails when no leaf has a
\* counterpart of its keys: no storage is called, and afterUse hears of nothing else.
Refuse(k) ==
    /\ \/ pc[k] = "lock" /\ Kind(k) # "clear" /\ locked[k] = {}
       \/ /\ pc[k] = "io" /\ Kind(k) \in Transfers \cup {"clear"}
          /\ \A l \in Leaves : task[k][l] = "start"
    /\ Finish(k, "failed")
    /\ UNCHANGED <<store, request, task, buffer, aborted, before>>

\* The keys a call locks: all of them for clear (the connection's own lock).
Wanted(k) ==
    CASE Kind(k) = "clear" -> Keys
      [] Kind(k) \in Transfers -> {Key(k), To(k)}
      [] OTHER -> {Key(k)}

CanLock(k, X) ==
    \A j \in Calls \ {k} :
        locked[j] \cap X # {} => Kind(j) \in Shared /\ Kind(k) \in Shared

Acquire(k, X) ==
    /\ CanLock(k, X)
    /\ locked' = [locked EXCEPT ![k] = @ \cup X]
    /\ before' = [before EXCEPT ![k] = [x \in Keys |-> IF x \in X THEN Held(x) ELSE @[x]]]
    /\ Goto(k, IF locked[k] \cup X = Wanted(k) THEN "io" ELSE "lock")
    /\ UNCHANGED <<store, request, task, buffer, aborted, result>>

\* Mutant: copy and move lock their source first.
Lock_SourceFirst(k) ==
    /\ pc[k] = "lock"
    /\ \/ Kind(k) \notin Transfers /\ Acquire(k, Wanted(k))
       \/ Kind(k) \in Transfers /\ locked[k] = {} /\ Acquire(k, {Key(k)})
       \/ Kind(k) \in Transfers /\ locked[k] # {} /\ Acquire(k, {To(k)})

\* copy and move lock their keys one after the other, in the order of keys.
Lock(k) ==
    /\ pc[k] = "lock"
    /\ \/ Kind(k) \notin Transfers /\ Acquire(k, Wanted(k))
       \/ /\ Kind(k) \in Transfers
          /\ \E x \in Wanted(k) \ locked[k] :
                /\ \A y \in Wanted(k) \ locked[k] : x <= y
                /\ Acquire(k, {x})

\* Mutant: the first lock of a transfer is forgotten.
Withdraw_KeepsLocks(k) ==
    /\ pc[k] = "lock"
    /\ aborted[k]
    /\ Goto(k, "done")
    /\ result' = [result EXCEPT ![k] = "failed"]
    /\ UNCHANGED <<store, request, locked, task, buffer, aborted, before>>

\* The signal fires while the call waits for a lock.
Withdraw(k) ==
    /\ pc[k] = "lock"
    /\ aborted[k]
    /\ Finish(k, "failed")
    /\ UNCHANGED <<store, request, task, buffer, aborted, before>>

----------------------------------------------------------------------------
(* one call of a leaf's storage *)

MayFail(k, l) == l \in Faulty \/ aborted[k]

Step(k, l, label) == task' = [task EXCEPT ![k][l] = label]

\* The storage changes its contents to new; or it throws, and its contents
\* are one of those in Torn.
StorageCall(k, l, new, label, Torn) ==
    /\ \/ store' = [store EXCEPT ![l] = new] /\ Step(k, l, label)
       \/ /\ MayFail(k, l)
          /\ \E torn \in Torn : store' = [store EXCEPT ![l] = torn]
          /\ Step(k, l, "failed")
    /\ UNCHANGED <<request, pc, locked, buffer, aborted, result, before>>

Writes(l, x, v) == [store[l] EXCEPT ![x] = v]

SetLeaf(k, l) ==
    LET new == Writes(l, Key(k), request[k].value)
    IN  /\ pc[k] = "io"
        /\ Kind(k) = "set"
        /\ task[k][l] = "start"
        /\ StorageCall(k, l, new, "committed", {store[l], new})

ClearLeaf(k, l) ==
    LET without(X) == [x \in Keys |-> IF x \in X THEN None ELSE store[l][x]]
    IN  /\ pc[k] = "io"
        /\ Kind(k) = "clear"
        /\ task[k][l] = "start"
        /\ StorageCall(k, l, without(Keys), "committed", {without(X) : X \in SUBSET Keys})

\* delete, copy and move ask each leaf for the key first; the key may have no
\* counterpart there, or the storage may throw.
LeafExists(k, l) ==
    /\ pc[k] = "io"
    /\ Kind(k) \in Transfers \cup {"delete"}
    /\ task[k][l] = "start"
    /\ \/ Step(k, l, IF store[l][Key(k)] = None THEN "notFound" ELSE "found")
       \/ MayFail(k, l) /\ Step(k, l, "error")
    /\ UNCHANGED <<store, request, pc, locked, buffer, aborted, result, before>>

\* Mutant: the source goes as soon as it was read.
DeleteLeaf_Unwritten(k, l) ==
    LET new == Writes(l, Key(k), None)
    IN  /\ pc[k] = "io"
        /\ \/ Kind(k) = "delete" /\ task[k][l] = "found"
           \/ Kind(k) = "move" /\ task[k][l] \in {"read", "written"}
        /\ StorageCall(k, l, new, "committed", {store[l], new})

\* Where the fallback of move has written the destination, the source goes.
DeleteLeaf(k, l) ==
    LET new == Writes(l, Key(k), None)
    IN  /\ pc[k] = "io"
        /\ \/ Kind(k) = "delete" /\ task[k][l] = "found"
           \/ Kind(k) = "move" /\ task[k][l] = "written"
        /\ StorageCall(k, l, new, "committed", {store[l], new})

AfterWrite(k) == IF Kind(k) = "move" THEN "written" ELSE "committed"

\* The storage's own copy, for copy and for a move without its own move.
CopyLeaf(k, l) ==
    LET new == Writes(l, To(k), store[l][Key(k)])
    IN  /\ pc[k] = "io"
        /\ task[k][l] = "found"
        /\ l \in NativeCopy
        /\ Kind(k) = "copy" \/ (Kind(k) = "move" /\ l \notin NativeMove /\ Key(k) # To(k))
        /\ StorageCall(k, l, new, AfterWrite(k), {store[l], new})

\* The storage's own move: it deletes the source after it wrote the destination.
MoveLeaf(k, l) ==
    LET copied == Writes(l, To(k), store[l][Key(k)])
        new == IF Key(k) = To(k) THEN store[l] ELSE [copied EXCEPT ![Key(k)] = None]
    IN  /\ pc[k] = "io"
        /\ task[k][l] = "found"
        /\ Kind(k) = "move"
        /\ l \in NativeMove
        /\ StorageCall(k, l, new, "committed", {store[l], copied, new})

\* The fallback reads the source; for equal keys that is all.
ReadLeaf(k, l) ==
    /\ pc[k] = "io"
    /\ task[k][l] = "found"
    /\ \/ Kind(k) = "copy" /\ l \notin NativeCopy
       \/ Kind(k) = "move" /\ l \notin NativeMove /\ (l \notin NativeCopy \/ Key(k) = To(k))
    /\ \/ /\ buffer' = [buffer EXCEPT ![k][l] = store[l][Key(k)]]
          /\ Step(k, l, IF Key(k) = To(k) THEN "committed" ELSE "read")
       \/ MayFail(k, l) /\ Step(k, l, "failed") /\ UNCHANGED buffer
    /\ UNCHANGED <<store, request, pc, locked, aborted, result, before>>

WriteLeaf(k, l) ==
    LET new == Writes(l, To(k), buffer[k][l])
    IN  /\ pc[k] = "io"
        /\ task[k][l] = "read"
        /\ StorageCall(k, l, new, AfterWrite(k), {store[l], new})

----------------------------------------------------------------------------
(* the end of a write: afterUse, then the answer *)

Unsettled == {"start", "found", "read", "written"}

\* Mutant: the key locks are released before the middleware is told.
Notify_Unlocked(k) ==
    /\ pc[k] = "io"
    /\ Kind(k) \notin Scans
    /\ Settled(k, Unsettled)
    /\ Goto(k, "notify")
    /\ locked' = [locked EXCEPT ![k] = {}]
    /\ UNCHANGED <<store, request, task, buffer, aborted, result, before>>

\* Every leaf has settled: the middleware is told what became of each.
Notify(k) ==
    /\ pc[k] = "io"
    /\ Kind(k) \notin Scans
    /\ Settled(k, Unsettled)
    /\ Goto(k, "notify")
    /\ UNCHANGED <<store, request, locked, task, buffer, aborted, result, before>>

\* Mutant: delete does not find a key that no leaf has.
Answer_DeleteToo(k) ==
    CASE Kind(k) \in Transfers \cup {"delete"} /\ Settled(k, {"committed", "failed"}) ->
            IF Settled(k, {"error"}) THEN "notFound" ELSE "unknown"
      [] ~Settled(k, {"failed", "error"}) -> "failed"
      [] OTHER -> "ok"

\* Mutant: one leaf that succeeded is enough.
Answer_AnyCommitted(k) ==
    CASE Kind(k) \in Transfers /\ Settled(k, {"committed", "failed"}) ->
            IF Settled(k, {"error"}) THEN "notFound" ELSE "unknown"
      [] Settled(k, {"committed"}) /\ ~Settled(k, {"failed", "error"}) -> "failed"
      [] OTHER -> "ok"

\* A transfer has found its key where the storage said so, whatever became of
\* it then.
Answer(k) ==
    CASE Kind(k) \in Transfers /\ Settled(k, {"committed", "failed"}) ->
            IF Settled(k, {"error"}) THEN "notFound" ELSE "unknown"
      [] ~Settled(k, {"failed", "error"}) -> "failed"
      [] OTHER -> "ok"

\* A transfer that was aborted throws although its storages are done; set,
\* delete and clear do not look at the signal any more.
Respond(k) ==
    /\ pc[k] = "notify"
    /\ Finish(k, IF Kind(k) \in Transfers /\ aborted[k] THEN "failed" ELSE Answer(k))
    /\ UNCHANGED <<store, request, task, buffer, aborted, before>>

----------------------------------------------------------------------------
(* reads: the leaves are tried in the order of registration *)

Current(k, l) ==
    /\ pc[k] = "io"
    /\ Kind(k) \in Scans
    /\ \A j \in Leaves : j < l => task[k][j] \in {"missing", "error"}

ScanExists(k, l) ==
    /\ Current(k, l)
    /\ task[k][l] = "start"
    /\ Step(k, l, IF store[l][Key(k)] = None THEN "missing" ELSE "found")
    /\ UNCHANGED <<store, request, pc, locked, buffer, aborted, result, before>>

ScanRead(k, l) ==
    /\ Current(k, l)
    /\ task[k][l] = "found"
    /\ Kind(k) # "has"
    /\ buffer' = [buffer EXCEPT ![k][l] = store[l][Key(k)]]
    /\ Step(k, l, "hit")
    /\ UNCHANGED <<store, request, pc, locked, aborted, result, before>>

\* A storage that throws is passed over, unless the call was aborted.
ScanFails(k, l) ==
    /\ Current(k, l)
    /\ task[k][l] \in {"start", "found"}
    /\ l \in Faulty
    /\ ~aborted[k]
    /\ Step(k, l, "error")
    /\ UNCHANGED <<store, request, pc, locked, buffer, aborted, result, before>>

\* The key has no counterpart at the leaf, or the storage throws and the call
\* was aborted.
ScanStops(k, l) ==
    /\ Current(k, l)
    /\ \/ task[k][l] = "start" /\ l \in Faulty
       \/ task[k][l] \in {"start", "found"} /\ aborted[k]
    /\ Finish(k, "failed")
    /\ UNCHANGED <<store, request, task, buffer, aborted, before>>

HasFound(k, l) ==
    /\ Current(k, l)
    /\ task[k][l] = "found"
    /\ Kind(k) = "has"
    /\ Finish(k, "ok")
    /\ UNCHANGED <<store, request, task, buffer, aborted, before>>

\* Mutant: failures on the way are forgotten.
ScanEmpty_NoCause(k) ==
    /\ pc[k] = "io"
    /\ Kind(k) \in Scans
    /\ \A l \in Leaves : task[k][l] \in {"missing", "error"}
    /\ Finish(k, "notFound")
    /\ UNCHANGED <<store, request, task, buffer, aborted, before>>

\* No leaf had the key.  If some of them failed, the answer carries a cause.
ScanEmpty(k) ==
    /\ pc[k] = "io"
    /\ Kind(k) \in Scans
    /\ \A l \in Leaves : task[k][l] \in {"missing", "error"}
    /\ Finish(k, IF Settled(k, {"error"}) THEN "notFound" ELSE "unknown")
    /\ UNCHANGED <<store, request, task, buffer, aborted, before>>

Hit(k) == pc[k] = "io" /\ ~Settled(k, {"hit"})

\* The data is decoded after the lock was released.
GetHit(k) ==
    /\ Hit(k)
    /\ Kind(k) = "get"
    /\ \E answer \in {"ok", "failed"} : Finish(k, answer)
    /\ UNCHANGED <<store, request, task, buffer, aborted, before>>

----------------------------------------------------------------------------
(* repair: the leaves that were found without the key are filled *)

Missing(k) == {l \in Leaves : task[k][l] = "missing"}

Filling(k, F) == task' = [task EXCEPT ![k] =
    [l \in Leaves |-> IF l \in F THEN "fill" ELSE @[l]]]

\* An encode that fails or an abort leaves some leaves out.
RepairStarts(k) ==
    /\ Hit(k)
    /\ Kind(k) = "getRepair"
    /\ \E F \in SUBSET (Missing(k) \cap CanRepair) : Filling(k, F)
    /\ Goto(k, "repairing")
    /\ UNCHANGED <<store, request, locked, buffer, aborted, result, before>>

\* The data cannot be decoded.
RepairFails(k) ==
    /\ Hit(k)
    /\ Kind(k) \in {"getRepair", "stream", "streamRepair"}
    /\ Finish(k, "failed")
    /\ UNCHANGED <<store, request, task, buffer, aborted, before>>

Data(k) ==
    IF Settled(k, {"hit"}) THEN None
    ELSE buffer[k][CHOOSE l \in Leaves : task[k][l] = "hit"]

\* A stream that is disposed early aborts the fills that are under way.
Fill(k, l) ==
    LET new == Writes(l, Key(k), Data(k))
    IN  /\ task[k][l] = "fill"
        /\ \/ StorageCall(k, l, new, "filled", {store[l], new})
           \/ /\ pc[k] = "disposing"
              /\ Step(k, l, "failed")
              /\ UNCHANGED <<store, request, pc, locked, buffer, aborted, result, before>>

\* Mutant: an abort ends the repair while leaves are being written.
RepairDone_Early(k) ==
    /\ pc[k] = "repairing"
    /\ Settled(k, {"fill"}) \/ aborted[k]
    /\ \E answer \in {"ok", "failed"} :
          /\ answer = "ok" => ~aborted[k]
          /\ Finish(k, answer)
    /\ UNCHANGED <<store, request, task, buffer, aborted, before>>

\* Every write has settled.  The read fails if it was aborted, and it may fail
\* for the repair (throwOnRepairDenied, a middleware) or for its value's schema.
RepairDone(k) ==
    /\ pc[k] = "repairing"
    /\ Settled(k, {"fill"})
    /\ \E answer \in {"ok", "failed"} :
          /\ answer = "ok" => ~aborted[k]
          /\ Finish(k, answer)
    /\ UNCHANGED <<store, request, task, buffer, aborted, before>>

----------------------------------------------------------------------------
(* streams: the lock is kept until the ValueStream is disposed *)

Fills(k) == IF Kind(k) = "streamRepair" THEN Missing(k) \cap CanRepair ELSE {}

\* Mutant: the lock is released when stream returns.
StreamOpens_Unlocked(k) ==
    /\ Hit(k)
    /\ Kind(k) \in {"stream", "streamRepair"}
    /\ Filling(k, Fills(k))
    /\ Goto(k, "streaming")
    /\ result' = [result EXCEPT ![k] = "ok"]
    /\ locked' = [locked EXCEPT ![k] = {}]
    /\ UNCHANGED <<store, request, buffer, aborted, before>>

StreamOpens(k) ==
    /\ Hit(k)
    /\ Kind(k) \in {"stream", "streamRepair"}
    /\ Filling(k, Fills(k))
    /\ Goto(k, "streaming")
    /\ result' = [result EXCEPT ![k] = "ok"]
    /\ UNCHANGED <<store, request, locked, buffer, aborted, before>>

\* Something fails after the fills began: they are cancelled and awaited.
StreamFails(k) ==
    /\ Hit(k)
    /\ Kind(k) = "streamRepair"
    /\ Filling(k, Fills(k))
    /\ Goto(k, "disposing")
    /\ UNCHANGED <<store, request, locked, buffer, aborted, result, before>>

\* The stream is read to its end, cancelled or disposed.
Dispose(k) ==
    /\ pc[k] = "streaming"
    /\ Goto(k, "disposing")
    /\ UNCHANGED <<store, request, locked, task, buffer, aborted, result, before>>

\* Mutant: the lock does not wait for the fills.
Disposed_EarlyRelease(k) ==
    /\ pc[k] = "disposing"
    /\ Finish(k, IF result[k] = "pending" THEN "failed" ELSE result[k])
    /\ UNCHANGED <<store, request, task, buffer, aborted, before>>

Disposed(k) ==
    /\ pc[k] = "disposing"
    /\ Settled(k, {"fill"})
    /\ Finish(k, IF result[k] = "pending" THEN "failed" ELSE result[k])
    /\ UNCHANGED <<store, request, task, buffer, aborted, before>>

\* The ValueStream is garbage collected: the registry releases the lock, then
\* disposes.
Collect(k) ==
    /\ Collects
    /\ pc[k] = "streaming"
    /\ Goto(k, "disposing")
    /\ locked' = [locked EXCEPT ![k] = {}]
    /\ UNCHANGED <<store, request, task, buffer, aborted, result, before>>

----------------------------------------------------------------------------

Abort(k) ==
    /\ ~aborted[k]
    /\ pc[k] \notin {"ready", "done"}
    /\ aborted' = [aborted EXCEPT ![k] = TRUE]
    /\ UNCHANGED <<store, request, pc, locked, task, buffer, result, before>>

\* One step of a call of a leaf's storage.
LeafStep(k, l) ==
    \/ SetLeaf(k, l) \/ ClearLeaf(k, l) \/ LeafExists(k, l) \/ DeleteLeaf(k, l)
    \/ CopyLeaf(k, l) \/ MoveLeaf(k, l) \/ ReadLeaf(k, l) \/ WriteLeaf(k, l)
    \/ ScanExists(k, l) \/ ScanRead(k, l) \/ ScanFails(k, l) \/ ScanStops(k, l)
    \/ HasFound(k, l) \/ Fill(k, l)

CallStep(k) ==
    \/ Lock(k) \/ Withdraw(k) \/ Refuse(k) \/ Notify(k) \/ Respond(k)
    \/ ScanEmpty(k) \/ GetHit(k) \/ RepairStarts(k) \/ RepairFails(k) \/ RepairDone(k)
    \/ StreamOpens(k) \/ StreamFails(k) \/ Disposed(k)

Terminated ==
    /\ \A k \in Calls : pc[k] = "done"
    /\ UNCHANGED vars

Next ==
    \/ \E k \in Calls, r \in Requests : Submit(k, r)
    \/ \E k \in Calls : CallStep(k)
    \/ \E k \in Calls, l \in Leaves : LeafStep(k, l)
    \/ \E k \in Calls : Dispose(k) \/ Collect(k) \/ Abort(k)
    \/ Terminated

Spec == Init /\ [][Next]_vars

\* Every storage call settles, every granted lock is taken, and every stream
\* is read to its end, cancelled or disposed.
Fairness ==
    /\ \A k \in Calls : WF_vars(CallStep(k)) /\ WF_vars(Dispose(k))
    /\ \A k \in Calls, l \in Leaves : WF_vars(LeafStep(k, l))

FairSpec == Spec /\ Fairness

----------------------------------------------------------------------------
(* properties *)

Contents == Values \cup {None}

Labels == {"ready", "lock", "io", "notify", "repairing", "streaming", "disposing", "done"}

TaskLabels == Unsettled \cup {"committed", "notFound", "missing", "hit", "fill",
                              "filled", "failed", "error"}

Results == {"none", "pending", "ok", "notFound", "unknown", "failed"}

TypeOK ==
    /\ store \in [Leaves -> [Keys -> Contents]]
    /\ request \in [Calls -> Requests \cup {None}]
    /\ pc \in [Calls -> Labels]
    /\ locked \in [Calls -> SUBSET Keys]
    /\ task \in [Calls -> [Leaves -> TaskLabels]]
    /\ buffer \in [Calls -> [Leaves -> Contents]]
    /\ aborted \in [Calls -> BOOLEAN]
    /\ result \in [Calls -> Results]
    /\ \A k \in Calls : pc[k] = "ready" <=> request[k] = None
    /\ \A k \in Calls :
          result[k] \in {"notFound", "unknown"} => Kind(k) \in Scans \cup Transfers
    /\ before \in [Calls -> [Keys -> SUBSET Contents]]

\* While afterUse runs, what it was told is what the storages hold: a
\* middleware that updates its records from the outcome (ttl, soft-delete)
\* does not record what another call has already changed.
AfterUseSeesOutcome ==
    \A k \in Calls, l \in Leaves : pc[k] = "notify" =>
        LET x == Key(k)
            y == To(k)
        IN  /\ task[k][l] = "notFound" => store[l][x] = None
            /\ task[k][l] = "committed" =>
                CASE Kind(k) = "set" -> store[l][x] = request[k].value
                  [] Kind(k) = "delete" -> store[l][x] = None
                  [] Kind(k) = "clear" -> \A z \in Keys : store[l][z] = None
                  [] Kind(k) = "copy" -> store[l][y] # None /\ store[l][y] = store[l][x]
                  [] OTHER -> store[l][y] # None /\ (x # y => store[l][x] = None)

\* The storages do not change under a stream that is being read.
StreamKeepsItsValue ==
    \A k \in Calls, l \in Leaves :
        pc[k] = "streaming" /\ task[k][l] = "hit" => store[l][Key(k)] = buffer[k][l]

\* A repair writes only while its call holds the lock of the key
\* (unikvs.ts: "the key lock is kept until the ValueStream is disposed; it is
\* released after the fills have been awaited").
RepairUnderLock ==
    [][\A k \in Calls, l \in Leaves :
        task[k][l] = "fill" /\ task'[k][l] = "filled" => Key(k) \in locked[k]]_vars

\* Every call settles: no two calls wait for each other's key locks, and no
\* storage that fails leaves a call without an answer.
EveryCallSettles == \A k \in Calls : pc[k] # "ready" ~> pc[k] = "done"

----------------------------------------------------------------------------
(* the operations implement one atomic map *)

Owns(k, x) == x \in locked[k] /\ Kind(k) \notin Shared

\* What callers may rely on: a key that is locked for writing still has what
\* it had when it was locked.
Visible(x) ==
    IF \E k \in Calls : Owns(k, x)
    THEN before[CHOOSE k \in Calls : Owns(k, x)][x]
    ELSE Held(x)

Returned(k) ==
    IF result[k] = "ok" /\ Kind(k) \in Scans \ {"has"} THEN Data(k) ELSE None

Store == INSTANCE KVStore WITH
    kv <- [x \in Keys |-> Visible(x)],
    data <- [k \in Calls |-> Returned(k)]

\* Whatever the leaves do in parallel, whichever of them fail and whenever the
\* calls are aborted, each call takes effect at once when it answers.
ImplementsStore == Store!Spec
=============================================================================
