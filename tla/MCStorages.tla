----------------------------- MODULE MCStorages -----------------------------
(***************************************************************************)
(* The storages, for TLC: a behaviour is about the one that `storage`      *)
(* names, which serves the calls of one plan.                              *)
(***************************************************************************)
EXTENDS StorageCall

CONSTANTS
    k1, k2,
    a, b, c,
    Storages    \* those to check

VARIABLES storage

On(op, k) == [op |-> op, key |-> k, dest |-> k]
Between(op, k, l) == [op |-> op, key |-> k, dest |-> l]
Nothing == On("none", k1)

Plan(serial, opened, ra, rb, rc) ==
    [request |-> [x \in {a, b, c} |-> CASE x = a -> ra [] x = b -> rb [] x = c -> rc],
     serial |-> serial, opened |-> opened, present |-> {k1}, aborts |-> {a, b},
     injected |-> FALSE, index |-> <<>>]

\* Calls that conflict, one after another as under the locks of the client.
Transfers ==
    {Plan(TRUE, TRUE, Between("move", k1, k2), On("read", k1), On("exists", k2)),
     Plan(TRUE, TRUE, Between("copy", k1, k2), On("delete", k1), On("read", k2)),
     Plan(TRUE, TRUE, Between("move", k2, k1), Between("copy", k1, k1),
          Between("move", k1, k1))}
Locked ==
    {Plan(TRUE, TRUE, On("write", k1), On("clear", k1), On("getStream", k1)),
     Plan(TRUE, TRUE, On("setStream", k2), On("delete", k1), On("exists", k2))}
\* The same without streams, for the storages that have none.
Kept ==
    {Plan(TRUE, TRUE, On("write", k1), On("clear", k1), On("read", k1)),
     Plan(TRUE, TRUE, On("write", k2), On("delete", k1), On("exists", k2))}
\* Streams to two keys, or to one and the same by two processes.
Streams ==
    {[Plan(FALSE, TRUE, On("setStream", k1), On("setStream", k2), On("getStream", k1))
         EXCEPT !.aborts = {a}],
     Plan(FALSE, TRUE, On("setStream", k1), On("setStream", k1), Nothing)}
\* Calls that conflict, made by several processes.
Racing ==
    {Plan(FALSE, TRUE, On("write", k1), On("delete", k1), On("read", k1)),
     Plan(FALSE, TRUE, On("write", k2), On("clear", k1), On("exists", k2))}
\* Opens and closes.
Reopened ==
    {[Plan(TRUE, FALSE, On("open", k1), On("close", k1), On("open", k1)) EXCEPT !.injected = i] :
         i \in BOOLEAN}
Overlapping == {Plan(FALSE, FALSE, On("open", k1), On("close", k1), On("open", k1))}

RS == INSTANCE RedisStorages
FS == INSTANCE FileStorages
OS == INSTANCE ObjectStorages
KS == INSTANCE KvServices
LS == INSTANCE LocalStorages
RC == INSTANCE RuntimeCache

\* An open storage that is used, closed by nobody.
Opened == {Plan(TRUE, FALSE, On("open", k1), On("write", k2), On("getStream", k1))}

All == Transfers \cup Locked \cup Streams \cup Racing \cup Reopened

\* The value that is there from the start is tracked; calls for two keys overlap.
Apart ==
    {Plan(FALSE, TRUE, On("write", k2), On("read", k1), Nothing),
     [Plan(FALSE, TRUE, On("write", k1), On("setStream", k2), Nothing) EXCEPT !.aborts = {b}],
     Plan(FALSE, TRUE, On("write", k2), On("delete", k1), Nothing)}
Caching ==
    {[p EXCEPT !.index = <<[key |-> k1, content |-> Value(k1)]>>] : p \in Kept \cup Locked \cup Apart}

PlansOf(s) ==
    CASE s = "RedisNode" -> {p \in All : ~p.injected}
      [] s = "RedisBun" -> {p \in All : ~p.injected} \cup Overlapping
      [] s = "Valkey" -> All
      [] s \in {"NodeFs", "BunFs"} -> Transfers \cup Locked \cup Streams \cup Racing \cup Opened
      [] s = "Opfs" -> Locked \cup Streams \cup Opened
      [] s \in {"S3", "S3Bun"} ->
             Transfers \cup Locked \cup Streams \cup Racing \cup {p \in Reopened : ~p.injected}
      [] s = "VercelBlob" -> Transfers \cup Locked \cup Streams \cup Racing
      [] s \in {"CloudflareR2", "CloudflareCache", "Http", "Memory"} ->
             Locked \cup Streams \cup Racing
      [] s = "Etcd" -> Locked \cup Streams \cup Racing \cup Reopened
      [] s = "Memcached" -> Kept \cup Racing \cup Reopened
      [] s \in {"CloudflareKv", "LocalStorage", "Cookies"} -> Kept \cup Racing
      [] s \in {"RuntimeCache", "RuntimeCacheFallback"} -> Caching
      [] s = "CacheStorage" -> Locked \cup Streams \cup Racing \cup Overlapping \cup Opened
      [] s = "Indexeddb" -> Locked \cup Streams \cup Overlapping \cup Opened

Step(s, x) ==
    CASE s = "RedisNode" -> RS!Node(x)
      [] s = "RedisBun" -> RS!Bun(x)
      [] s = "Valkey" -> RS!Valkey(x)
      [] s = "NodeFs" -> FS!NodeFs(x)
      [] s = "BunFs" -> FS!BunFs(x)
      [] s = "Opfs" -> FS!Opfs(x)
      [] s = "S3" -> OS!S3(x)
      [] s = "S3Bun" -> OS!S3Bun(x)
      [] s = "CloudflareR2" -> OS!R2(x)
      [] s = "VercelBlob" -> OS!Blob(x)
      [] s = "CloudflareKv" -> KS!Kv(x)
      [] s = "CloudflareCache" -> KS!Cache(x)
      [] s = "Etcd" -> KS!Etcd(x)
      [] s = "Memcached" -> KS!Memcached(x)
      [] s = "Http" -> KS!Http(x)
      [] s = "CacheStorage" -> LS!BrowserCache(x)
      [] s = "Indexeddb" -> LS!Idb(x)
      [] s = "LocalStorage" -> LS!Web(x)
      [] s = "Cookies" -> LS!Cookies(x)
      [] s = "Memory" -> LS!Memory(x)
      [] s = "RuntimeCache" -> RC!Backend(x)
      [] s = "RuntimeCacheFallback" -> RC!Fallback(x)

vars == <<storage, callVars>>

Init ==
    /\ storage \in Storages
    /\ InitCall(PlansOf(storage))

Done ==
    /\ \A x \in Calls : (Ended(x) \/ Op(x) = "none") /\ ~at[x].cleaning
    /\ UNCHANGED vars

Next ==
    \/ \E x \in Calls : (Step(storage, x) \/ Fires(x)) /\ Watches /\ UNCHANGED storage
    \/ Done

Spec == Init /\ [][Next]_vars

----------------------------------------------------------------------------
(* properties *)

\* fs.node and fs.bun write the destination of a copy in place; opfs makes a file empty first.
InPlace(x, k) ==
    \/ storage \in {"NodeFs", "BunFs"} /\ Op(x) = "copy" /\ Dest(x) = k
    \/ storage = "Opfs" /\ Op(x) \in {"write", "setStream"} /\ Key(x) = k

\* The runtime cache removes what has expired and, for a write, what it has found to be oldest.
Evicts(x, k) ==
    /\ storage \in {"RuntimeCache", "RuntimeCacheFallback"} /\ held'[k] = None
    /\ \/ held[k] \in link.expired
       \/ Op(x) \in {"write", "setStream"} /\ (k \in at[x].left \/ k = link.index[1].key)

\* A call may change a key that is its own; a move takes the content of its source only when its
\* destination has, or has had, it.
MayChange(x, k) ==
    \/ Op(x) \in {"write", "setStream", "delete"} /\ Key(x) = k
    \/ Op(x) = "clear"
    \/ Evicts(x, k)
    \/ Op(x) \in {"copy", "move"} /\ Dest(x) = k
    \/ Op(x) = "move" /\ Key(x) = k /\ held'[k] = None /\ <<Dest(x), held[k]>> \in seen'[x]

\* A value changes only in a step of a call that has not ended and may change it; only the
\* removals of a clear of s3.bun that has failed go on behind it.
ValuesAreNotLost ==
    [][\A k \in Keys : held'[k] # held[k] =>
           \E x \in Calls : /\ Ended(x) => storage = "S3Bun" /\ Op(x) = "clear"
                            /\ MayChange(x, k)]_callVars

\* What the runtime cache tracks is what it holds, and no more than it may.
KeepsWithinLimit ==
    storage \in {"RuntimeCache", "RuntimeCacheFallback"} => RC!KeepsWithinLimit

\* Nobody finds a part of a value under a key, except where it is being written in place, or
\* was when that failed.
OnlyWholeValues ==
    \A k \in Keys :
        held[k] # None => \/ held[k].parts = Chunks
                          \/ \E x \in Calls :
                                 InPlace(x, k) /\ at[x].pc # "idle" /\ at[x].answer # "ok"

\* The commands that a call may send although its signal has fired: the removal of the names
\* that a clear has just scanned (redis), the time to live of what has been renamed (valkey), the
\* rename of a temporary that has been written (fs.node) or is complete (fs.bun), the commit of a
\* stream in memory, the restoring of the root (opfs); and the cache goes on to evict, at most
\* what there was and what the calls have written.
MayFollow(x) ==
    CASE storage \in {"RedisNode", "RedisBun", "Opfs"} /\ Op(x) = "clear" -> 1
      [] storage = "Valkey" /\ Op(x) \in {"move", "setStream"} -> 1
      [] storage = "NodeFs" /\ Op(x) = "write" -> 1
      [] storage \in {"BunFs", "Memory"} /\ Op(x) = "setStream" -> 1
      [] storage = "RuntimeCache" /\ Op(x) \in {"write", "setStream"} -> Cardinality(Names)
      [] OTHER -> 0

\* Once its signal has fired, a call of a storage sends no further command that changes
\* anything, but those above: no next page, no second half of a copy or a move.
AbortStops == \A x \in Calls : at[x].late <= MayFollow(x)
=============================================================================
