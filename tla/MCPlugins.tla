----------------------------- MODULE MCPlugins -----------------------------
(***************************************************************************)
(* The plugins, which work on their own, for TLC: a behaviour is about the *)
(* one that `plugin` names, and the others stay as they are.  "Storage" is *)
(* any of the storages of MCStorages.  The names of RateLimit are taken as *)
(* they are, those of the others have a prefix.                            *)
(***************************************************************************)
EXTENDS RateLimit

CONSTANTS
    k1, k2, k3,
    a, b, c, d,
    Plugins,                                    \* those to check
    Old, None, Never, MaxTime, Careful,         \* Ttl
    Sizes, MaxSize, Unlimited,                  \* LruCache
    v1, v2, MaxRetries,                         \* Retry
    Given, Storages                             \* MCStorages

VARIABLES
    plugin,
    now, stored, record, step, dead, staged, hand, result, settled, due, missed, plan,
    limits, opened, order, sizes, totalBytes, stream, recent,
    native, request, inner, phase, attempt, data, signalled, reply, before,
    storage, served, held, at, link, seen

----------------------------------------------------------------------------
(* Ttl *)

Put(kind, k, ttl) == [kind |-> kind, key |-> k, ttl |-> ttl]
On(kind, k) == [kind |-> kind, key |-> k]
Transfer(kind, k, l) == [kind |-> kind, key |-> k, dest |-> l]
Over(kind) == [kind |-> kind]

Scenario(old, restart, ra, rb, rc, rd) ==
    [old |-> old, restart |-> restart,
     request |-> [x \in {a, b, c, d} |->
                     CASE x = a -> ra [] x = b -> rb [] x = c -> rc [] x = d -> rd]]

\* Overwrites of a plain value that has a time to live, and reads of it.
Overwrites ==
    Scenario(1, FALSE, Put("set", k1, 1), Put("set", k1, Never), On("get", k1),
             Over("none"))
\* A plain value that is deleted, set, and found or not.
Deletes ==
    Scenario(1, FALSE, Put("set", k1, 2), On("delete", k1), On("has", k1), Over("none"))
\* A plain value that is moved and read after a restart.
Restarts ==
    Scenario(1, TRUE, Put("set", k1, 1), Transfer("move", k1, k2), On("get", k2),
             Over("none"))
\* A stream that is copied, in a process that may restart.
CopiedStream ==
    Scenario(Never, TRUE, Put("setStream", k1, 1), Transfer("copy", k1, k2),
             On("stream", k2), Over("none"))
\* A stream that is moved onto another one, beside a clear.
MovedStream ==
    Scenario(Never, FALSE, Put("setStream", k2, 1), Transfer("move", k2, k1),
             On("stream", k1), Over("none"))
\* A stream that is cleared, and copied to its own key.
ClearedStream ==
    Scenario(Never, FALSE, Put("setStream", k1, 2), Over("clear"),
             Transfer("copy", k1, k1), Over("none"))

Plans == {Overwrites, Deletes, Restarts, CopiedStream, MovedStream,
          ClearedStream}

T == INSTANCE Ttl WITH Keys <- {k1, k2}, Calls <- {a, b, c, d},
                       pc <- step, answer <- result

ASSUME TtlAssumption == T!Admitted

----------------------------------------------------------------------------
(* LruCache *)

Limits == [entries : {0, 2, Unlimited}, bytes : {3, Unlimited}]

L == INSTANCE LruCache WITH Keys <- {k1, k2, k3}, Streams <- {a}

----------------------------------------------------------------------------
(* Retry *)

Requests == [kind : {"read", "write", "exists", "delete", "clear", "copy", "move"},
             key : {k1}, dest : {k1, k2}, value : {v2}]

R == INSTANCE Retry WITH Keys <- {k1, k2}, Values <- {v1, v2}, pc <- phase,
                         aborted <- signalled, answer <- reply

----------------------------------------------------------------------------
(* the storages *)

S == INSTANCE MCStorages WITH Keys <- {k1, k2}, Calls <- {a, b, c}, plan <- served

----------------------------------------------------------------------------
(* all of them *)

ttlVars == <<now, stored, record, step, dead, staged, hand, result, settled, due,
             missed, plan>>
cacheVars == <<limits, opened, order, sizes, totalBytes, stream, recent>>
retryVars == <<native, request, inner, phase, attempt, data, signalled, reply, before>>
storageVars == <<storage, served, held, at, link, seen>>

allVars == <<plugin, vars, ttlVars, cacheVars, retryVars, storageVars>>

\* A plugin that the behaviour is not about starts in one fixed way.
PluginsInit ==
    /\ plugin \in Plugins
    /\ Init /\ (plugin # "RateLimit" => strategy = "wait")
    /\ T!Init /\ (plugin # "Ttl" => plan = Overwrites /\ settled[k1] = None /\ settled[k2] = None)
    /\ L!Init /\ (plugin # "LruCache" => limits.entries = 0 /\ limits.bytes = 3)
    /\ R!Init /\ (plugin # "Retry" => native /\ request.kind = "read" /\ request.dest = k1
                                      /\ inner[k1] = None /\ inner[k2] = None)
    /\ S!Init /\ (plugin # "Storage" => storage = (CHOOSE x \in Storages : TRUE)
                                       /\ served = (CHOOSE p \in S!PlansOf(storage) : TRUE))

RateStep(Action) ==
    /\ plugin = "RateLimit"
    /\ Action
    /\ UNCHANGED <<plugin, ttlVars, cacheVars, retryVars, storageVars>>
TtlStep ==
    plugin = "Ttl" /\ T!Next /\ UNCHANGED <<plugin, vars, cacheVars, retryVars, storageVars>>
CacheStep ==
    plugin = "LruCache" /\ L!Next /\ UNCHANGED <<plugin, vars, ttlVars, retryVars, storageVars>>
RetryStep ==
    plugin = "Retry" /\ R!Next /\ UNCHANGED <<plugin, vars, ttlVars, cacheVars, storageVars>>
StorageStep ==
    plugin = "Storage" /\ S!Next /\ UNCHANGED <<plugin, vars, ttlVars, cacheVars, retryVars>>

PluginsNext == RateStep(Next) \/ TtlStep \/ CacheStep \/ RetryStep \/ StorageStep

PluginsSpec == PluginsInit /\ [][PluginsNext]_allVars
\* Only RateLimit needs fairness.
FairPluginsSpec ==
    /\ PluginsSpec
    /\ WF_allVars(RateStep(Tick))
    /\ \A r \in Callers : WF_allVars(RateStep(Step(r)))

----------------------------------------------------------------------------
(* properties *)

\* GrantsAreDue and EveryRequestEnds are those of RateLimit.

PluginsTypeOK == TypeOK /\ T!TypeOK /\ L!TypeOK /\ R!TypeOK /\ S!TypeOK

\* Ttl: the record of a key is the time when its value expires; no expired
\* value is served by decode or decodeStream, and a call that reports a missing
\* key was right at some moment while it ran.
ExpiryIsExact == [](T!RecordsAreExact /\ T!LiveIsServed) /\ T!ExpiredIsNotServed
\* Ttl: no value that lives is hidden by the record of an earlier one.
NoValueIsHidden == T!NoValueIsHidden

\* LruCache, and the cache of vercel-runtime-cache: the bytes and the keys that
\* are counted are those that are held, and no more than the limits allow.
WithinLimits == L!BytesAreExact /\ L!WithinLimits /\ S!KeepsWithinLimit
\* LruCache: a write evicts the least recently used, no more than it has to.
KeepsTheRecent == L!KeepsTheRecent

\* Retry and the storages: the answer of a call was true of its keys at some
\* moment while it ran.
AnswersAreTrue == R!AnswerIsTrue /\ S!AnswersAreTrue
\* Retry: the value of a transfer is always in one of its places.  The
\* storages: a key changes only in a step of a call that may change it, and the
\* source of a move is removed only when its destination has the value.
ValuesAreNotLost == [](plugin = "Retry" => R!ValueSurvives) /\ S!ValuesAreNotLost
\* Retry: after its signal has fired a call asks for nothing more.  The storages: it sends no
\* command that changes anything, but for the few that MayFollow names, where the code does not
\* look at the signal between two commands.
AbortStops == [](plugin = "Storage" => S!AbortStops) /\ R!AbortStops
\* The storages: no key has a part of a value, no temporary outlives its call,
\* and no connection is up that nobody uses.
NothingIsHalfDone == S!OnlyWholeValues /\ S!NothingIsLeftBehind /\ S!NoConnectionLeaks
=============================================================================
