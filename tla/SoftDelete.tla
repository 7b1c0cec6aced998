---------------------------- MODULE SoftDelete ----------------------------
(***************************************************************************)
(* The storage wrapper of @unikvs/soft-delete: a deleted value stays under *)
(* its key as a tombstone, and a registry, kept under a key of its own in  *)
(* the same inner storage, lists the keys with a tombstone.                *)
(*                                                                         *)
(* The calls of the pipeline (set, delete, ...) come through a client,     *)
(* which locks their keys; restore, purge and listTombstones are called by *)
(* the application beside it.  A call is a sequence of jobs, each on one   *)
(* key: move, for instance, is read, write, delete.  Every call of the     *)
(* inner storage is a step.  The wrapper has a lock per key and a lock of  *)
(* the registry, which is only taken inside or outside of a key lock but   *)
(* never kept while a key lock is asked for.                               *)
(*                                                                         *)
(* A tombstone is identified by a number; later tombstones have larger     *)
(* numbers and expire later.  Values are model values.                     *)
(***************************************************************************)
EXTENDS Naturals, Sequences, FiniteSets, Functions

CONSTANTS
    Keys,
    Calls,
    None,        \* no lock, no content
    Old,         \* the value that keys have initially
    Plans        \* what the calls may be, which of them may meet failures of
                 \* the inner storage, and whether tombstones expire

Pipeline == {"set", "setStream", "get", "has", "delete", "copy", "move", "clear"}
Transfers == {"copy", "move"}
Global == {"clear", "purgeAll", "list", "none"}

\* A call is a [kind, key], with a dest if it is a transfer; "none" is no call.
Request ==
    [kind : Global]
    \cup [kind : (Pipeline \cup {"restore", "purge"}) \ (Global \cup Transfers), key : Keys]
    \cup [kind : Transfers, key : Keys, dest : Keys]

ASSUME SoftDeleteAssumption ==
    /\ IsFiniteSet(Keys) /\ IsFiniteSet(Calls)
    /\ None \notin Calls
    /\ Plans \subseteq [request : [Calls -> Request], faulty : SUBSET Calls,
                        retention : BOOLEAN]

VARIABLES
    inner,     \* inner[k]: what the inner storage holds under k
    registry,  \* the keys in the registry
    lastId,    \* the last tombstone
    horizon,   \* tombstones up to this one have expired
    keyLock,   \* keyLock[k]: the call that holds the lock of k
    regLock,   \* the call that holds the registry
    todo,      \* todo[c]: the jobs of c that are left, the first one running
    pc,        \* pc[c]: the step of that job
    seen,      \* seen[c]: the content that it has seen
    value,     \* value[c]: the value that the call has read
    loaded,    \* loaded[c]: the registry as it has loaded it
    answer,    \* answer[c]: what the call has returned
    count,     \* count[c]: how many tombstones a purge says it has removed
    claims,    \* history: which call ended which tombstone
    untracked, \* history: the keys whose delete failed before the registry
    plan       \* which of the plans this is; it never changes

vars == <<inner, registry, lastId, horizon, keyLock, regLock, todo, pc, seen,
          value, loaded, answer, count, claims, untracked, plan>>

storage == <<inner, registry, lastId, claims>>
locks == <<keyLock, regLock>>
control == <<keyLock, regLock, todo, pc, answer, untracked>>
results == <<value, answer, count>>

Plan(c) == plan.request[c]
Faulty == plan.faulty
Retention == plan.retention

----------------------------------------------------------------------------
(* contents *)

Nothing == [tomb |-> FALSE, id |-> 0, value |-> None]
Live(v) == [tomb |-> FALSE, id |-> 0, value |-> v]
Tombstone(id, v) == [tomb |-> TRUE, id |-> id, value |-> v]

IsLive(r) == ~r.tomb /\ r # Nothing
IsExpired(r) == r.id <= horizon

----------------------------------------------------------------------------
(* calls and jobs *)

Job(op, k) == [op |-> op, key |-> k]

Jobs(c) ==
    LET p == Plan(c)
    IN  CASE p.kind \in {"get", "has"} -> <<Job("read", p.key)>>
          [] p.kind = "set" -> <<Job("write", p.key)>>
          [] p.kind = "setStream" -> <<Job("stream", p.key)>>
          [] p.kind \in {"delete", "restore", "purge"} -> <<Job(p.kind, p.key)>>
          [] p.kind \in {"clear", "purgeAll", "list"} -> <<Job(p.kind, None)>>
          [] p.kind \in Transfers /\ p.key = p.dest -> <<Job("read", p.key)>>
          [] p.kind = "copy" /\ p.key # p.dest ->
                <<Job("read", p.key), Job("write", p.dest)>>
          [] p.kind = "move" /\ p.key # p.dest ->
                <<Job("read", p.key), Job("write", p.dest), Job("delete", p.key)>>

FirstStep(op) ==
    CASE op \in {"read", "restore", "purge"} -> "observe"
      [] op \in {"write", "delete", "check"} -> "lock"
      [] op = "stream" -> "commit"
      [] op = "clear" -> "clear"
      [] op \in {"purgeAll", "list"} -> "snapshot"

Op(c) == Head(todo[c]).op
Key(c) == Head(todo[c]).key

Init ==
    /\ plan \in Plans
    /\ \E ids \in Injection(Keys, 1 .. Cardinality(Keys)) :
          \E deleted \in SUBSET Keys :
             /\ inner \in {f \in [Keys -> {Nothing, Live(Old)}
                                      \cup {Tombstone(ids[k], Old) : k \in deleted}] :
                              \A k \in Keys :
                                 IF k \in deleted THEN f[k] = Tombstone(ids[k], Old)
                                 ELSE ~f[k].tomb}
             /\ registry = deleted
    /\ lastId = Cardinality(Keys)
    /\ horizon = 0
    /\ keyLock = [k \in Keys |-> None]
    /\ regLock = None
    /\ todo = [c \in Calls |-> <<>>]
    /\ pc = [c \in Calls |-> IF Plan(c).kind = "none" THEN "done" ELSE "idle"]
    /\ seen = [c \in Calls |-> Nothing]
    /\ value = [c \in Calls |-> IF Plan(c).kind \in {"set", "setStream"} THEN c ELSE None]
    /\ loaded = [c \in Calls |-> {}]
    /\ answer = [c \in Calls |-> "none"]
    /\ count = [c \in Calls |-> 0]
    /\ claims = {}
    /\ untracked = {}

\* The client lets reads of a key run together and keeps writers apart.
KeysOf(c) ==
    CASE Plan(c).kind = "clear" -> Keys
      [] Plan(c).kind \in Transfers -> {Plan(c).key, Plan(c).dest}
      [] Plan(c).kind \in Pipeline \ ({"clear"} \cup Transfers) -> {Plan(c).key}
      [] OTHER -> {}

Excluded(c, d) ==
    /\ KeysOf(c) \cap KeysOf(d) # {}
    /\ ~({Plan(c).kind, Plan(d).kind} \subseteq {"get", "has"})

Begin(c) ==
    /\ pc[c] = "idle"
    /\ \A d \in Calls : Excluded(c, d) => pc[d] \in {"idle", "done"}
    /\ todo' = [todo EXCEPT ![c] = Jobs(c)]
    /\ pc' = [pc EXCEPT ![c] = FirstStep(Head(Jobs(c)).op)]
    /\ UNCHANGED <<plan, storage, untracked, horizon, locks, seen, results, loaded>>

----------------------------------------------------------------------------
(* the end of a job and of a call *)

\* Mutant: the registry stays locked.
Unlock_KeysOnly(c) ==
    /\ keyLock' = [k \in Keys |-> IF keyLock[k] = c THEN None ELSE keyLock[k]]
    /\ UNCHANGED regLock

\* The locks that c holds are free.
Unlock(c) ==
    /\ keyLock' = [k \in Keys |-> IF keyLock[k] = c THEN None ELSE keyLock[k]]
    /\ regLock' = IF regLock = c THEN None ELSE regLock

\* The job is done; the call goes on with the next one.
Finish(c) ==
    /\ Unlock(c)
    /\ todo' = [todo EXCEPT ![c] = Tail(@)]
    /\ pc' = [pc EXCEPT ![c] = IF Len(todo[c]) = 1 THEN "done"
                               ELSE FirstStep(todo[c][2].op)]
    /\ answer' = [answer EXCEPT ![c] = IF Len(todo[c]) = 1 THEN "ok" ELSE @]
    /\ untracked' = IF Op(c) = "delete" THEN untracked \ {Key(c)} ELSE untracked

\* The call ends with what it has to say.
End(c, result) ==
    /\ Unlock(c)
    /\ todo' = [todo EXCEPT ![c] = <<>>]
    /\ pc' = [pc EXCEPT ![c] = "done"]
    /\ answer' = [answer EXCEPT ![c] = result]
    /\ untracked' = IF Op(c) = "delete" /\ pc[c] \in {"put", "add", "saveAdd"}
                    THEN untracked \cup {Key(c)} ELSE untracked

Goto(c, next) ==
    /\ pc' = [pc EXCEPT ![c] = next]
    /\ UNCHANGED <<locks, todo, answer, untracked>>

----------------------------------------------------------------------------
(* steps *)

\* read, exists, restore and purge look at the key before they lock it.
Observe(c) ==
    LET r == inner[Key(c)]
    IN  /\ pc[c] = "observe"
        /\ seen' = [seen EXCEPT ![c] = r]
        /\ value' = [value EXCEPT ![c] = IF Op(c) = "read" /\ IsLive(r) THEN r.value ELSE @]
        /\ \/ Op(c) = "read" /\ IsLive(r) /\ Finish(c)
           \/ /\ \/ Op(c) = "read" /\ (r.tomb => ~IsExpired(r))
                 \/ Op(c) = "restore" /\ ~r.tomb
              /\ ~(Op(c) = "read" /\ IsLive(r))
              /\ End(c, "notFound")
           \/ /\ \/ Op(c) = "read" /\ r.tomb /\ IsExpired(r)
                 \/ Op(c) = "restore" /\ r.tomb
                 \/ Op(c) = "purge"
              /\ Goto(c, "lock")
        /\ UNCHANGED <<plan, storage, horizon, loaded, count>>

\* Mutant: the lock of the key is not waited for.
LockKey_Unawaited(c) ==
    /\ pc[c] = "lock"
    /\ keyLock' = [keyLock EXCEPT ![Key(c)] = c]
    /\ pc' = [pc EXCEPT ![c] = IF Op(c) = "read" \/ (Op(c) = "purge" /\ seen[c].tomb)
                               THEN "sweep" ELSE "check"]
    /\ UNCHANGED <<plan, storage, untracked, horizon, regLock, todo, seen, results, loaded>>

LockKey(c) ==
    /\ pc[c] = "lock"
    /\ keyLock[Key(c)] = None
    /\ keyLock' = [keyLock EXCEPT ![Key(c)] = c]
    /\ pc' = [pc EXCEPT ![c] = IF Op(c) = "read" \/ (Op(c) = "purge" /\ seen[c].tomb)
                               THEN "sweep" ELSE "check"]
    /\ UNCHANGED <<plan, storage, untracked, horizon, regLock, todo, seen, results, loaded>>

\* Mutant: deleting a tombstone again does nothing.
DeleteDecides_Idle(c, r) ==
    \/ IsLive(r) /\ Goto(c, "put")
    \/ r = Nothing /\ Goto(c, "erase")
    \/ r.tomb /\ IsExpired(r) /\ Goto(c, "sweep")
    \/ r.tomb /\ ~IsExpired(r) /\ Finish(c)

\* What delete does about the content r that it reads under the lock: the first
\* tombstone stays, but it is registered again.
DeleteDecides(c, r) ==
    \/ IsLive(r) /\ Goto(c, "put")
    \/ r = Nothing /\ Goto(c, "erase")
    \/ r.tomb /\ IsExpired(r) /\ Goto(c, "sweep")
    \/ r.tomb /\ ~IsExpired(r) /\ Goto(c, "add")

\* Mutant: restore trusts what it saw before it had the lock.
RestoreDecides_Trusting(c, r) ==
    Goto(c, IF r.tomb /\ IsExpired(r) THEN "sweep" ELSE "put")

\* restore goes on only with the tombstone that it saw.
RestoreDecides(c, r) ==
    IF r.tomb /\ r.id = seen[c].id
    THEN Goto(c, IF IsExpired(r) THEN "sweep" ELSE "put")
    ELSE End(c, "notFound")

\* listTombstones tidies what is no tombstone any more.
ListDecides(c, r) ==
    \/ ~r.tomb /\ Goto(c, "remove")
    \/ r.tomb /\ IsExpired(r) /\ Goto(c, "sweep")
    \/ r.tomb /\ ~IsExpired(r) /\ Finish(c)

Check(c) ==
    /\ pc[c] = "check"
    /\ LET r == inner[Key(c)]
       IN  /\ \/ Op(c) = "write" /\ Goto(c, "put")
              \/ Op(c) = "delete" /\ DeleteDecides(c, r)
              \/ Op(c) = "restore" /\ RestoreDecides(c, r)
              \/ Op(c) = "check" /\ ListDecides(c, r)
              \/ Op(c) \in {"purge", "stream"} /\ r.tomb /\ Finish(c)
              \/ Op(c) \in {"purge", "stream"} /\ ~r.tomb /\ Goto(c, "remove")
          /\ seen' = [seen EXCEPT ![c] = IF Op(c) = "restore" THEN @ ELSE r]
    /\ UNCHANGED <<plan, storage, horizon, value, loaded, count>>

AfterSweep(c) == IF Op(c) \in {"read", "restore"} THEN End(c, "notFound") ELSE Finish(c)

\* Mutant: what was seen before the lock is swept.
Sweep_Trusting(c) ==
    /\ pc[c] = "sweep"
    /\ Goto(c, "erase")
    /\ UNCHANGED <<plan, storage, horizon, seen, value, loaded, count>>

\* A tombstone is swept if it is still the one that was seen.  purge does not
\* ask whether it has expired.
Sweep(c) ==
    LET r == inner[Key(c)]
    IN  /\ pc[c] = "sweep"
        /\ \/ ~r.tomb /\ Goto(c, "remove")
           \/ /\ r.tomb /\ (r.id # seen[c].id \/ (Op(c) # "purge" /\ ~IsExpired(r)))
              /\ AfterSweep(c)
           \/ /\ r.tomb /\ r.id = seen[c].id /\ (Op(c) = "purge" \/ IsExpired(r))
              /\ Goto(c, "erase")
        /\ seen' = [seen EXCEPT ![c] = IF r.tomb THEN @ ELSE Nothing]
        /\ UNCHANGED <<plan, storage, horizon, value, loaded, count>>

\* The tombstone that the job has seen, if any, ends with it.
Claim(c) == {[id |-> t.id, by |-> c] : t \in {t \in {seen[c]} : t.tomb}}

\* The content that the job writes.
Written(c) ==
    CASE Op(c) = "write" -> Live(value[c])
      [] Op(c) = "delete" -> Tombstone(lastId + 1, seen[c].value)
      [] Op(c) = "restore" -> Live(seen[c].value)

Put(c) ==
    /\ pc[c] = "put"
    /\ inner' = [inner EXCEPT ![Key(c)] = Written(c)]
    /\ lastId' = IF Op(c) = "delete" THEN lastId + 1 ELSE lastId
    /\ claims' = claims \cup Claim(c)
    /\ UNCHANGED <<plan, registry, horizon, seen, value, loaded, count>>
    /\ IF Op(c) = "write" /\ ~seen[c].tomb THEN Finish(c)
       ELSE Goto(c, IF Op(c) = "delete" THEN "add" ELSE "remove")

\* Mutant: the registry is not told.
Erase_Untold(c) ==
    /\ pc[c] = "erase"
    /\ inner' = [inner EXCEPT ![Key(c)] = Nothing]
    /\ claims' = claims \cup Claim(c)
    /\ count' = [count EXCEPT ![c] = IF Op(c) = "purge" THEN @ + 1 ELSE @]
    /\ seen' = [seen EXCEPT ![c] = Nothing]
    /\ AfterSweep(c)
    /\ UNCHANGED <<plan, registry, lastId, horizon, value, loaded>>

\* The inner storage forgets the key: a swept tombstone, or the delete of a key
\* that has nothing, which a strict storage rejects.
Erase(c) ==
    /\ pc[c] = "erase"
    /\ inner' = [inner EXCEPT ![Key(c)] = Nothing]
    /\ claims' = claims \cup Claim(c)
    /\ count' = [count EXCEPT ![c] = IF Op(c) = "purge" THEN @ + 1 ELSE @]
    /\ seen' = [seen EXCEPT ![c] = Nothing]
    /\ \/ Goto(c, "remove")
       \/ Op(c) = "delete" /\ ~seen[c].tomb /\ End(c, "notFound")
    /\ UNCHANGED <<plan, registry, lastId, horizon, value, loaded>>

AfterRegistry(c) ==
    IF Op(c) = "read" \/ (Op(c) = "restore" /\ ~seen[c].tomb)
    THEN End(c, "notFound")
    ELSE Finish(c)

\* The registry already says what the job wants.  A tombstone that the delete
\* itself has written is registered anyhow.
Registered(c) ==
    \/ pc[c] = "remove" /\ Key(c) \notin registry
    \/ pc[c] = "add" /\ seen[c].tomb /\ Key(c) \in registry

\* Mutant: the registry is loaded without its lock.
LoadRegistry_Unlocked(c) ==
    /\ pc[c] \in {"add", "remove"}
    /\ loaded' = [loaded EXCEPT ![c] = registry]
    /\ \/ Registered(c) /\ AfterRegistry(c)
       \/ /\ ~Registered(c)
          /\ Goto(c, IF pc[c] = "add" THEN "saveAdd" ELSE "saveRemove")
    /\ UNCHANGED <<plan, storage, horizon, seen, value, count>>

LoadRegistry(c) ==
    /\ pc[c] \in {"add", "remove"}
    /\ regLock = None
    /\ loaded' = [loaded EXCEPT ![c] = registry]
    /\ \/ Registered(c) /\ AfterRegistry(c)
       \/ /\ ~Registered(c)
          /\ regLock' = c
          /\ pc' = [pc EXCEPT ![c] = IF @ = "add" THEN "saveAdd" ELSE "saveRemove"]
          /\ UNCHANGED <<keyLock, todo, answer, untracked>>
    /\ UNCHANGED <<plan, storage, horizon, seen, value, count>>

SaveRegistry(c) ==
    /\ pc[c] \in {"saveAdd", "saveRemove"}
    /\ registry' = IF pc[c] = "saveAdd" THEN loaded[c] \cup {Key(c)}
                   ELSE loaded[c] \ {Key(c)}
    /\ AfterRegistry(c)
    /\ UNCHANGED <<plan, inner, lastId, claims, horizon, seen, value, loaded, count>>

\* The value stream of setStream is closed; only the registry is tidied under
\* the lock of the key.
Commit(c) ==
    /\ pc[c] = "commit"
    /\ inner' = [inner EXCEPT ![Key(c)] = Live(value[c])]
    /\ Goto(c, "lock")
    /\ UNCHANGED <<plan, registry, lastId, claims, horizon, seen, value, loaded, count>>

Clear(c) ==
    /\ pc[c] = "clear"
    /\ inner' = [k \in Keys |-> Nothing]
    /\ registry' = {}
    /\ Finish(c)
    /\ UNCHANGED <<plan, lastId, claims, horizon, seen, value, loaded, count>>

\* purge() and listTombstones() go through the keys that they found in the
\* registry.
Snapshot(c) ==
    /\ pc[c] = "snapshot"
    /\ regLock = None
    /\ \E order \in Injection(1 .. Cardinality(registry), registry) :
          todo' = [todo EXCEPT ![c] = [i \in DOMAIN order |->
                      Job(IF Op(c) = "purgeAll" THEN "purge" ELSE "check", order[i])]]
    /\ pc' = [pc EXCEPT ![c] = IF registry = {} THEN "done"
                               ELSE IF Op(c) = "purgeAll" THEN "observe" ELSE "lock"]
    /\ answer' = [answer EXCEPT ![c] = IF registry = {} THEN "ok" ELSE @]
    /\ UNCHANGED <<plan, storage, untracked, horizon, locks, seen, value, loaded, count>>

\* Mutant: a step that fails keeps the lock of the registry.
Fail_Keeping(c) ==
    /\ c \in Faulty
    /\ pc[c] \notin {"idle", "lock", "done"}
    /\ keyLock' = [k \in Keys |-> IF keyLock[k] = c THEN None ELSE keyLock[k]]
    /\ todo' = [todo EXCEPT ![c] = <<>>]
    /\ pc' = [pc EXCEPT ![c] = "done"]
    /\ answer' = [answer EXCEPT ![c] = "error"]
    /\ UNCHANGED <<plan, storage, untracked, regLock, horizon, seen, value, loaded, count>>

\* A call of the inner storage throws, before or after it has had its effect;
\* so does the call of the wrapper.
Fail(c) ==
    /\ c \in Faulty
    /\ pc[c] \notin {"idle", "lock", "done"}
    /\ \/ UNCHANGED <<inner, registry, lastId>>
       \/ /\ pc[c] = "put"
          /\ inner' = [inner EXCEPT ![Key(c)] = Written(c)]
          /\ lastId' = IF Op(c) = "delete" THEN lastId + 1 ELSE lastId
          /\ UNCHANGED registry
       \/ /\ pc[c] \in {"erase", "commit"}
          /\ inner' = [inner EXCEPT ![Key(c)] = IF pc[c] = "erase" THEN Nothing
                                                ELSE Live(value[c])]
          /\ UNCHANGED <<registry, lastId>>
       \/ /\ pc[c] \in {"saveAdd", "saveRemove"}
          /\ registry' = IF pc[c] = "saveAdd" THEN loaded[c] \cup {Key(c)}
                         ELSE loaded[c] \ {Key(c)}
          /\ UNCHANGED <<inner, lastId>>
       \/ /\ pc[c] = "clear"
          /\ inner' = [k \in Keys |-> Nothing]
          /\ registry' = {}
          /\ UNCHANGED lastId
    /\ End(c, "error")
    /\ UNCHANGED <<plan, claims, horizon, seen, value, loaded, count>>

\* Time passes.
Expire ==
    /\ Retention
    /\ horizon < lastId
    /\ horizon' = horizon + 1
    /\ UNCHANGED <<plan, storage, control, seen, value, count, loaded>>

Terminated ==
    /\ \A c \in Calls : pc[c] = "done"
    /\ UNCHANGED vars

Proceed(c) ==
    \/ Observe(c) \/ LockKey(c) \/ Check(c) \/ Sweep(c) \/ Put(c) \/ Erase(c)
    \/ LoadRegistry(c) \/ SaveRegistry(c) \/ Commit(c) \/ Clear(c) \/ Snapshot(c)

Next ==
    \/ \E c \in Calls : Begin(c) \/ Proceed(c) \/ Fail(c)
    \/ Expire
    \/ Terminated

Spec == Init /\ [][Next]_vars

\* The inner storage answers, and a lock that is free is granted in the order
\* of the requests.
Fairness == \A c \in Calls : WF_vars(Observe(c) \/ Check(c) \/ Sweep(c) \/ Put(c)
                  \/ Erase(c) \/ SaveRegistry(c) \/ Commit(c) \/ Clear(c))
                /\ SF_vars(LockKey(c) \/ LoadRegistry(c) \/ Snapshot(c))
                /\ SF_vars(Begin(c))

FairSpec == Spec /\ Fairness

----------------------------------------------------------------------------
(* properties *)

Contents ==
    {Nothing} \cup {Live(v) : v \in Calls \cup {Old}}
    \cup {Tombstone(i, v) : i \in 1 .. lastId, v \in Calls \cup {Old}}

\* The state is well formed, and a lock is held by a call that is at work under
\* it: two calls never mutate a key, or the registry, at once.
TypeOK ==
    /\ inner \in [Keys -> Contents]
    /\ registry \subseteq Keys
    /\ horizon \in 0 .. lastId
    /\ keyLock \in [Keys -> Calls \cup {None}]
    /\ regLock \in Calls \cup {None}
    /\ seen \in [Calls -> Contents]
    /\ loaded \in [Calls -> SUBSET Keys]
    /\ untracked \subseteq Keys
    /\ \A c \in Calls :
          /\ pc[c] \in {"check", "sweep", "put", "erase", "add", "remove", "saveAdd", "saveRemove"}
                => keyLock[Key(c)] = c
          /\ pc[c] \in {"saveAdd", "saveRemove"} => regLock = c

\* The registry lists exactly the tombstones of the keys that nobody is working
\* on (SoftDelete: the tombstone is written before the registry, the value is
\* removed before the entry, and the registry has a lock of its own so that
\* calls on different keys do not lose each other's entries).  A failure may
\* separate the two, and clear takes no lock.
RegistryIsExact ==
    Faulty = {} /\ (\A c \in Calls : Plan(c).kind # "clear") =>
        \A k \in Keys : keyLock[k] = None => (k \in registry <=> inner[k].tomb)

\* Whatever fails and whoever clears, a tombstone that the registry does not
\* list is one whose delete has failed since it last succeeded: deleting it
\* again lists it ("a repeated delete registers it again").
TombstonesAreListed ==
    \A k \in Keys : keyLock[k] = None /\ inner[k].tomb /\ k \notin untracked => k \in registry

\* restore, purge, listTombstones and the sweep of expired tombstones never
\* touch a value ("when it is no tombstone any more, keep the value and only
\* tidy the registry").
LiveValuesAreKept ==
    [][\A k \in Keys : IsLive(inner[k]) /\ inner'[k] # inner[k] =>
          \E c \in Calls : /\ Plan(c).kind \in Pipeline /\ k \in KeysOf(c)
                           /\ pc[c] \in {"put", "commit", "clear"} /\ pc'[c] # pc[c]]_vars

\* A tombstone ends once: it is restored, swept or overwritten by one call.
OneFatePerTombstone == \A p, q \in claims : p.id = q.id => p = q

\* The list of the tombstones, on which purge() and listTombstones rest, and the
\* tombstones do not drift apart, and no tombstone is ended twice.
TombstonesAreTracked == RegistryIsExact /\ TombstonesAreListed /\ OneFatePerTombstone

\* purge counts what it has removed ("the number actually removed, even when
\* other operations run concurrently").
PurgeCountsRemovals ==
    [][\A c \in Calls : count'[c] # count[c] =>
          inner[Key(c)].tomb /\ inner'[Key(c)] = Nothing]_vars

\* What maintenance removes is a tombstone, and what it says to have removed is
\* what it has removed.
OnlyTombstonesArePurged == LiveValuesAreKept /\ PurgeCountsRemovals

\* The locks never wait for each other in a circle, and nobody leaves with one.
EveryCallEnds == <>(\A c \in Calls : pc[c] = "done")
=============================================================================
