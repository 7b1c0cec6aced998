-------------------------- MODULE SoftDelete_proofs --------------------------
(***************************************************************************)
(* Theorems about SoftDelete, for any keys, calls and plans.  The          *)
(* invariants are given first, each for what it says of the plan.          *)
(***************************************************************************)
EXTENDS SoftDelete, FiniteSetTheorems, SequenceTheorems, TLAPS

KeyOps == {"read", "write", "delete", "restore", "purge", "check", "stream"}
JobSet == [op : KeyOps, key : Keys] \cup [op : {"clear", "purgeAll", "list"}, key : {None}]

\* Where a call holds the lock of its key.
Locked == {"check", "sweep", "put", "erase", "add", "remove", "saveAdd", "saveRemove"}
Labels == {"idle", "done", "observe", "lock", "commit", "clear", "snapshot"} \cup Locked

\* The steps that a job goes through.
StepOf(op, label) ==
    \/ label = "observe" /\ op \in {"read", "restore", "purge"}
    \/ label = "lock" /\ op \in KeyOps
    \/ label = "check" /\ op \in KeyOps \ {"read"}
    \/ label \in {"sweep", "erase"} /\ op \in {"read", "delete", "restore", "purge", "check"}
    \/ label = "put" /\ op \in {"write", "delete", "restore"}
    \/ label \in {"add", "saveAdd"} /\ op = "delete"
    \/ label \in {"remove", "saveRemove"} /\ op \in KeyOps
    \/ label = "commit" /\ op = "stream"
    \/ label = "clear" /\ op = "clear"
    \/ label = "snapshot" /\ op \in {"purgeAll", "list"}

Values == Calls \cup {Old}

StateTypes ==
    /\ plan \in Plans
    /\ inner \in [Keys -> Contents]
    /\ registry \in SUBSET Keys
    /\ lastId \in Nat
    /\ horizon \in 0 .. lastId
    /\ keyLock \in [Keys -> Calls \cup {None}]
    /\ regLock \in Calls \cup {None}
    /\ todo \in [Calls -> Seq(JobSet)]
    /\ pc \in [Calls -> Labels]
    /\ seen \in [Calls -> Contents]
    /\ value \in [Calls -> Values \cup {None}]
    /\ loaded \in [Calls -> SUBSET Keys]
    /\ count \in [Calls -> Nat]
    /\ claims \subseteq [id : 1 .. lastId, by : Calls]
    /\ untracked \in SUBSET Keys

\* What a call does is what was asked of it: only the calls of the pipeline
\* write and delete, and only under their keys.
Asked(c, job) ==
    /\ job.op \in {"write", "delete", "stream"} =>
          Plan(c).kind \in Pipeline /\ job.key \in KeysOf(c)
    /\ job.op = "stream" => Plan(c).kind = "setStream"
    /\ job.op = "clear" => Plan(c).kind = "clear"

\* A job other than the first is about a key, and if it writes it writes what the
\* one before it has read.
Fed(jobs) ==
    \A i \in DOMAIN jobs :
        i > 1 => /\ jobs[i].op \in KeyOps
                 /\ jobs[i].op \in {"write", "stream"} => jobs[i - 1].op = "read"

JobsAt(c) ==
    /\ pc[c] \in {"idle", "done"} <=> todo[c] = <<>>
    /\ pc[c] = "idle" => Plan(c).kind # "none"
    /\ pc[c] = "idle" /\ Plan(c).kind \in {"set", "setStream"} => value[c] = c
    /\ todo[c] # <<>> => StepOf(Op(c), pc[c])
    /\ \A i \in DOMAIN todo[c] : Asked(c, todo[c][i])
    /\ Fed(todo[c])
    /\ todo[c] # <<>> /\ Op(c) \in {"write", "stream"} => value[c] \in Values

JobsInv == \A c \in Calls : JobsAt(c)

\* A lock is held by the call that is at work under it.
LocksAt(c) ==
    /\ pc[c] \in Locked => keyLock[Key(c)] = c
    /\ \A k \in Keys : keyLock[k] = c => pc[c] \in Locked /\ Key(c) = k
    /\ pc[c] \in {"saveAdd", "saveRemove"} <=> regLock = c

LocksInv == \A c \in Calls : LocksAt(c)

\* What the calls have seen of their keys.
SeenAt(c) ==
    /\ pc[c] = "put" /\ Op(c) = "delete" => IsLive(seen[c])
    /\ pc[c] = "put" /\ Op(c) = "restore" => seen[c].tomb
    /\ pc[c] = "sweep" => seen[c].tomb
    /\ pc[c] = "erase" => seen[c].tomb \/ Op(c) = "delete"
    /\ pc[c] \in {"lock", "check"} /\ Op(c) = "restore" => seen[c].tomb
    /\ pc[c] = "lock" /\ Op(c) = "read" => seen[c].tomb

SeenInv == \A c \in Calls : SeenAt(c)

\* The ids of the tombstones that have ended, and the calls about to end one.
Claimed == {q.id : q \in claims}
Ends(c) == pc[c] \in {"put", "erase"} /\ seen[c].tomb

\* The tombstones that are there, those that a call is about to end and those
\* that have ended are different ones.
FateInv ==
    /\ \A k \in Keys : inner[k].tomb => inner[k].id \notin Claimed
    /\ \A k, l \in Keys : inner[k].tomb /\ inner[l].tomb /\ inner[k].id = inner[l].id => k = l
    /\ \A c \in Calls : Ends(c) => seen[c].id \notin Claimed
    /\ \A c \in Calls : \A k \in Keys :
          Ends(c) /\ inner[k].tomb /\ inner[k].id = seen[c].id => k = Key(c)
    /\ \A c, d \in Calls : Ends(c) /\ Ends(d) /\ seen[c].id = seen[d].id => c = d
    /\ OneFatePerTombstone

\* A call is about to register the tombstone under k.
Adding(k) == keyLock[k] # None /\ pc[keyLock[k]] \in {"add", "saveAdd"}

ListedAt(k) == inner[k].tomb /\ k \notin untracked => k \in registry \/ Adding(k)

\* A call that removes an entry has no tombstone under its key, a call that is
\* about to save the registry has loaded all of it, and a delete sweeps the
\* expired tombstone that it has seen.
TidyAt(c) ==
    /\ pc[c] \in {"remove", "saveRemove"} => ~inner[Key(c)].tomb
    /\ pc[c] \in {"saveAdd", "saveRemove"} => registry \subseteq loaded[c]
    /\ pc[c] = "sweep" /\ Op(c) = "delete" /\ inner[Key(c)].tomb =>
          inner[Key(c)].id = seen[c].id /\ IsExpired(seen[c])

ListedInv == (\A k \in Keys : ListedAt(k)) /\ (\A c \in Calls : TidyAt(c))

\* Whom the plan spares: nobody streams a value, nobody clears, nothing fails.
Streamless == \A c \in Calls : Plan(c).kind # "setStream"
Clearless == \A c \in Calls : Plan(c).kind # "clear"
Undisturbed == Streamless /\ Clearless /\ Faulty = {}

\* A call that is about to erase, or to restore, has no value under its key.
KeptInv ==
    Streamless =>
        \A c \in Calls : pc[c] = "erase" \/ (pc[c] = "put" /\ Op(c) = "restore")
                            => ~IsLive(inner[Key(c)])

\* A call that is about to write or to erase knows whether there is a tombstone.
SureInv ==
    Streamless /\ Clearless =>
        \A c \in Calls : pc[c] \in {"put", "erase"} => (seen[c].tomb <=> inner[Key(c)].tomb)

\* The registry lists the tombstones and nothing else, but for the key of a call
\* that is about to say so.
Changing(k) ==
    keyLock[k] # None /\ pc[keyLock[k]] \in {"add", "saveAdd", "remove", "saveRemove"}

ExactAt(k) == Changing(k) \/ (k \in registry <=> inner[k].tomb)

PreciseAt(c) ==
    /\ pc[c] \in {"add", "saveAdd"} => inner[Key(c)].tomb
    /\ pc[c] \in {"saveAdd", "saveRemove"} => registry = loaded[c]

ExactInv ==
    Undisturbed =>
        (\A k \in Keys : ExactAt(k)) /\ (\A c \in Calls : PreciseAt(c))

----------------------------------------------------------------------------
(* contents *)

USE SoftDeleteAssumption DEF SoftDeleteAssumption

\* What a content is.
LEMMA ContentFacts ==
    ASSUME lastId \in Nat, NEW r \in Contents
    PROVE  /\ r.tomb \in BOOLEAN
           /\ r.tomb => r.id \in 1 .. lastId /\ r.value \in Values
           /\ ~r.tomb => r = Nothing \/ r.value \in Values
           /\ IsLive(r) => ~r.tomb /\ r.value \in Values
<1> USE DEF IsLive, Values
<1>1. CASE r = Nothing BY <1>1 DEF Nothing
<1>2. ASSUME NEW v \in Values, r = Live(v)
      PROVE  ~r.tomb /\ r.tomb \in BOOLEAN /\ r.value \in Values
  BY <1>2 DEF Live
<1>3. ASSUME NEW i \in 1 .. lastId, NEW v \in Values, r = Tombstone(i, v)
      PROVE  r.tomb /\ r.tomb \in BOOLEAN /\ r.id \in 1 .. lastId /\ r.value \in Values
  BY <1>3 DEF Tombstone
<1>4. \/ r = Nothing
      \/ \E v \in Values : r = Live(v)
      \/ \E i \in 1 .. lastId, v \in Values : r = Tombstone(i, v)
  BY DEF Contents
<1> QED BY <1>1, <1>2, <1>3, <1>4

\* The contents that the calls write.
LEMMA ContentTypes ==
    ASSUME lastId \in Nat
    PROVE  /\ Nothing \in Contents /\ ~Nothing.tomb
           /\ \A v \in Values : Live(v) \in Contents /\ ~Live(v).tomb
           /\ \A v \in Values, i \in 1 .. lastId :
                 /\ Tombstone(i, v) \in Contents
                 /\ Tombstone(i, v).tomb /\ Tombstone(i, v).id = i
<1>1. ~Nothing.tomb BY DEF Nothing
<1>2. ASSUME NEW v PROVE ~Live(v).tomb BY DEF Live
<1>3. ASSUME NEW v, NEW i PROVE Tombstone(i, v).tomb /\ Tombstone(i, v).id = i
  BY DEF Tombstone
<1> QED BY <1>1, <1>2, <1>3 DEF Contents, Values

\* Later contents include the earlier ones.
LEMMA ContentsGrow ==
    ASSUME lastId \in Nat, lastId' \in Nat, lastId <= lastId'
    PROVE  Contents \subseteq Contents'
BY DEF Contents, Nothing, Live, Tombstone

----------------------------------------------------------------------------
(* calls and jobs *)

\* A request has a key unless it is about all keys.
LEMMA RequestFacts ==
    ASSUME plan \in Plans, NEW c \in Calls
    PROVE  /\ Plan(c).kind \in Pipeline \cup {"restore", "purge"} \cup Global
           /\ Plan(c).kind \notin Global => Plan(c).key \in Keys
           /\ Plan(c).kind \in Transfers => Plan(c).dest \in Keys
<1>1. Plan(c) \in Request BY DEF Plan
<1> QED BY <1>1 DEF Request, Pipeline, Transfers, Global

\* The jobs of a call are what was asked of it.
LEMMA JobsOfCall ==
    ASSUME plan \in Plans, NEW c \in Calls, Plan(c).kind # "none"
    PROVE  /\ Jobs(c) \in Seq(JobSet) /\ Jobs(c) # <<>>
           /\ \A i \in DOMAIN Jobs(c) : Asked(c, Jobs(c)[i])
           /\ Fed(Jobs(c))
           /\ Head(Jobs(c)).op \in {"write", "stream"} => Plan(c).kind \in {"set", "setStream"}
<1> DEFINE p == Plan(c)
<1>1. /\ p.kind \in Pipeline \cup {"restore", "purge"} \cup Global
      /\ p.kind \notin Global => p.key \in Keys
      /\ p.kind \in Transfers => p.dest \in Keys
  BY RequestFacts
<1>k. \A op \in KeyOps : \A k \in Keys : Job(op, k) \in JobSet /\ Job(op, k).op = op /\ Job(op, k).key = k
  BY DEF Job, JobSet
<1> USE DEF Global, Transfers, Pipeline, KeyOps
<1>2. CASE p.kind \in {"get", "has", "set", "setStream", "delete", "restore", "purge"}
  <2>1. PICK op \in KeyOps :
           /\ Jobs(c) = <<Job(op, p.key)>>
           /\ op = "stream" => p.kind = "setStream"
           /\ op \in {"write", "stream"} => p.kind \in {"set", "setStream"}
           /\ op \in {"write", "delete", "stream"} => p.kind \in {"set", "setStream", "delete"}
    BY <1>2 DEF Jobs
  <2>2. p.kind \in {"set", "setStream", "delete"} => p.key \in KeysOf(c)
    BY <1>1 DEF KeysOf
  <2> HIDE DEF p
  <2>3. Job(op, p.key) \in JobSet /\ Job(op, p.key).op = op /\ Job(op, p.key).key = p.key
    BY <1>1, <1>2, <1>k
  <2>4. Jobs(c) \in Seq(JobSet) /\ DOMAIN Jobs(c) = {1} /\ Jobs(c)[1] = Job(op, p.key)
        /\ Head(Jobs(c)) = Job(op, p.key) /\ Jobs(c) # <<>>
    BY <2>1, <2>3
  <2> QED BY <1>2, <2>1, <2>2, <2>3, <2>4 DEF Asked, Fed, p
<1>3. CASE p.kind \in {"clear", "purgeAll", "list"}
  <2>1. Jobs(c) = <<Job(p.kind, None)>> BY <1>3 DEF Jobs
  <2>2. Job(p.kind, None) \in JobSet /\ Job(p.kind, None).op = p.kind
    BY <1>3 DEF Job, JobSet
  <2> HIDE DEF p
  <2>3. Jobs(c) \in Seq(JobSet) /\ DOMAIN Jobs(c) = {1} /\ Jobs(c)[1].op = p.kind
        /\ Head(Jobs(c)).op = p.kind /\ Jobs(c) # <<>>
    BY <2>1, <2>2
  <2> QED BY <1>3, <2>2, <2>3 DEF Asked, Fed, p
<1>4. CASE p.kind \in {"copy", "move"} /\ p.key = p.dest
  <2>1. Jobs(c) = <<Job("read", p.key)>> BY <1>4 DEF Jobs
  <2>2. Job("read", p.key) \in JobSet /\ Job("read", p.key).op = "read" BY <1>1, <1>4, <1>k
  <2> HIDE DEF p
  <2>3. Jobs(c) \in Seq(JobSet) /\ DOMAIN Jobs(c) = {1} /\ Jobs(c)[1].op = "read"
        /\ Head(Jobs(c)).op = "read" /\ Jobs(c) # <<>>
    BY <2>1, <2>2
  <2> QED BY <1>4, <2>2, <2>3 DEF Asked, Fed
<1>5. CASE p.kind = "copy" /\ p.key # p.dest
  <2>1. Jobs(c) = <<Job("read", p.key), Job("write", p.dest)>> BY <1>5 DEF Jobs
  <2>2. p.dest \in KeysOf(c) BY <1>1, <1>5 DEF KeysOf
  <2>3. /\ Job("read", p.key) \in JobSet /\ Job("read", p.key).op = "read"
        /\ Job("write", p.dest) \in JobSet /\ Job("write", p.dest).op = "write"
        /\ Job("write", p.dest).key = p.dest
    BY <1>1, <1>5, <1>k
  <2> HIDE DEF p
  <2>4. Jobs(c) \in Seq(JobSet) /\ DOMAIN Jobs(c) = {1, 2} /\ Jobs(c)[1].op = "read"
        /\ Jobs(c)[2] = Job("write", p.dest)
        /\ Head(Jobs(c)).op = "read" /\ Jobs(c) # <<>>
    BY <2>1, <2>3
  <2> QED BY <1>5, <2>2, <2>3, <2>4 DEF Asked, Fed, p
<1>6. CASE p.kind = "move" /\ p.key # p.dest
  <2>1. Jobs(c) = <<Job("read", p.key), Job("write", p.dest), Job("delete", p.key)>>
    BY <1>6 DEF Jobs
  <2>2. p.key \in KeysOf(c) /\ p.dest \in KeysOf(c) BY <1>1, <1>6 DEF KeysOf
  <2>3. /\ Job("read", p.key) \in JobSet /\ Job("read", p.key).op = "read"
        /\ Job("write", p.dest) \in JobSet /\ Job("write", p.dest).op = "write"
        /\ Job("write", p.dest).key = p.dest
        /\ Job("delete", p.key) \in JobSet /\ Job("delete", p.key).op = "delete"
        /\ Job("delete", p.key).key = p.key
    BY <1>1, <1>6, <1>k
  <2> HIDE DEF p
  <2>4. Jobs(c) \in Seq(JobSet) /\ DOMAIN Jobs(c) = {1, 2, 3} /\ Jobs(c)[1].op = "read"
        /\ Jobs(c)[2] = Job("write", p.dest) /\ Jobs(c)[3] = Job("delete", p.key)
        /\ Head(Jobs(c)).op = "read" /\ Jobs(c) # <<>>
    BY <2>1, <2>3
  <2> QED BY <1>6, <2>2, <2>3, <2>4 DEF Asked, Fed, p
<1> QED BY <1>1, <1>2, <1>3, <1>4, <1>5, <1>6

\* A job begins with one of its steps, outside of the locks.
LEMMA FirstSteps ==
    ASSUME NEW job \in JobSet
    PROVE  /\ StepOf(job.op, FirstStep(job.op))
           /\ FirstStep(job.op) \in {"observe", "lock", "commit", "clear", "snapshot"}
BY DEF JobSet, KeyOps, FirstStep, StepOf

\* A call that has begun and not ended has a job, and its step is one of that job.
LEMMA HeadJob ==
    ASSUME StateTypes, JobsInv, NEW c \in Calls, pc[c] \notin {"idle", "done"}
    PROVE  /\ todo[c] \in Seq(JobSet) /\ todo[c] # <<>>
           /\ Len(todo[c]) \in Nat \ {0} /\ DOMAIN todo[c] = 1 .. Len(todo[c])
           /\ todo[c][1] = Head(todo[c]) /\ Head(todo[c]) \in JobSet
           /\ StepOf(Op(c), pc[c])
           /\ Op(c) \in KeyOps \cup {"clear", "purgeAll", "list"}
           /\ pc[c] \notin {"clear", "snapshot"} => Key(c) \in Keys /\ Op(c) \in KeyOps
           /\ Asked(c, Head(todo[c]))
<1>1. todo[c] \in Seq(JobSet) /\ todo[c] # <<>> BY DEF StateTypes, JobsInv, JobsAt
<1>2. /\ Len(todo[c]) \in Nat \ {0} /\ DOMAIN todo[c] = 1 .. Len(todo[c])
      /\ todo[c][1] = Head(todo[c]) /\ Head(todo[c]) \in JobSet
  BY <1>1
<1>3. StepOf(Op(c), pc[c]) /\ Asked(c, todo[c][1]) BY <1>1, <1>2 DEF JobsInv, JobsAt
<1>4. pc[c] \notin {"clear", "snapshot"} => Op(c) \in KeyOps
  BY <1>3 DEF StepOf, KeyOps
<1>5. Op(c) \in KeyOps => Key(c) \in Keys
  BY <1>2 DEF Op, Key, JobSet, KeyOps
<1>6. Op(c) \in KeyOps \cup {"clear", "purgeAll", "list"}
  BY <1>2 DEF Op, JobSet
<1> QED BY <1>1, <1>2, <1>3, <1>4, <1>5, <1>6

\* Unlock releases what the call holds and nothing else.
LEMMA UnlockEffect ==
    ASSUME StateTypes, NEW c \in Calls, Unlock(c)
    PROVE  /\ keyLock' \in [Keys -> Calls \cup {None}]
           /\ regLock' \in Calls \cup {None}
           /\ \A k \in Keys : /\ keyLock[k] = c => keyLock'[k] = None
                              /\ keyLock[k] # c => keyLock'[k] = keyLock[k]
           /\ regLock = c => regLock' = None
           /\ regLock # c => regLock' = regLock
           /\ \A k \in Keys : keyLock'[k] # c
           /\ regLock' # c
BY DEF StateTypes, Unlock

\* A call that has ended a job begins with the next one, if there is one.
LEMMA FinishEffect ==
    ASSUME StateTypes, JobsInv, NEW c \in Calls, pc[c] \notin {"idle", "done"}, Finish(c)
    PROVE  /\ todo' \in [Calls -> Seq(JobSet)]
           /\ \A d \in Calls : d # c => todo'[d] = todo[d] /\ pc'[d] = pc[d]
           /\ todo'[c] = Tail(todo[c])
           /\ \/ Len(todo[c]) = 1 /\ todo'[c] = <<>> /\ pc'[c] = "done"
              \/ /\ Len(todo[c]) > 1 /\ todo'[c] # <<>>
                 /\ Head(todo'[c]) = todo[c][2]
                 /\ todo[c][2] \in JobSet
                 /\ pc'[c] = FirstStep(todo[c][2].op)
                 /\ pc'[c] \in {"observe", "lock", "commit", "clear", "snapshot"}
           /\ pc' \in [Calls -> Labels]
<1>1. /\ todo[c] \in Seq(JobSet) /\ todo[c] # <<>>
      /\ Len(todo[c]) \in Nat \ {0} /\ DOMAIN todo[c] = 1 .. Len(todo[c])
  BY HeadJob
<1> DEFINE rest == Tail(todo[c])
<1>2. /\ rest \in Seq(JobSet)
      /\ Len(rest) = Len(todo[c]) - 1
      /\ \A i \in 1 .. Len(todo[c]) - 1 : rest[i] = todo[c][i + 1]
      /\ rest = <<>> <=> Len(rest) = 0
      /\ rest # <<>> => Head(rest) = rest[1]
  <2>1. /\ rest \in Seq(JobSet)
        /\ Len(rest) = Len(todo[c]) - 1
        /\ \A i \in 1 .. Len(todo[c]) - 1 : rest[i] = todo[c][i + 1]
    BY <1>1
  <2> HIDE DEF rest
  <2>2. /\ rest = <<>> <=> Len(rest) = 0
        /\ rest # <<>> => Head(rest) = rest[1]
    <3>1. rest # <<>> => Len(rest) \in Nat \ {0} BY <2>1, EmptySeq
    <3>2. rest = <<>> => Len(rest) = 0 BY EmptySeq
    <3>3. rest # <<>> => Head(rest) = rest[1] BY <2>1
    <3> QED BY <3>1, <3>2, <3>3
  <2> QED BY <2>1, <2>2
<1>3. /\ todo' \in [Calls -> Seq(JobSet)] /\ todo'[c] = rest
      /\ \A d \in Calls : d # c => todo'[d] = todo[d]
  BY <1>2 DEF Finish, StateTypes
<1>t. rest = Tail(todo[c]) OBVIOUS
<1> HIDE DEF rest
<1>4. CASE Len(todo[c]) = 1
  <2>1. rest = <<>> BY <1>2, <1>4
  <2>2. pc' = [pc EXCEPT ![c] = "done"] BY <1>4 DEF Finish
  <2> QED BY <1>3, <1>4, <1>t, <2>1, <2>2 DEF StateTypes, Labels
<1>5. CASE Len(todo[c]) # 1
  <2>1. Len(todo[c]) > 1 /\ Len(rest) # 0 BY <1>1, <1>2, <1>5
  <2>2. 2 \in DOMAIN todo[c] BY <1>1, <2>1
  <2>3. todo[c][2] \in JobSet BY <1>1, <2>2
  <2>4. rest[1] = todo[c][2] BY <1>2, <2>1
  <2>5. rest # <<>> /\ Head(rest) = todo[c][2] BY <1>2, <2>1, <2>4
  <2>6. pc' = [pc EXCEPT ![c] = FirstStep(todo[c][2].op)] BY <1>5 DEF Finish
  <2>7. FirstStep(todo[c][2].op) \in {"observe", "lock", "commit", "clear", "snapshot"}
    BY <2>3, FirstSteps
  <2> QED BY <1>3, <1>t, <2>1, <2>3, <2>5, <2>6, <2>7 DEF StateTypes, Labels
<1> QED BY <1>4, <1>5, <1>3, <1>t

\* A call that ends has nothing left to do.
LEMMA EndEffect ==
    ASSUME StateTypes, NEW c \in Calls, NEW result, End(c, result)
    PROVE  /\ todo' \in [Calls -> Seq(JobSet)]
           /\ \A d \in Calls : d # c => todo'[d] = todo[d] /\ pc'[d] = pc[d]
           /\ todo'[c] = <<>> /\ pc'[c] = "done"
           /\ pc' \in [Calls -> Labels]
BY DEF StateTypes, End, Labels

\* A call that goes on keeps its locks and its jobs.
LEMMA GotoEffect ==
    ASSUME StateTypes, NEW c \in Calls, NEW next \in Labels, Goto(c, next)
    PROVE  /\ pc' \in [Calls -> Labels]
           /\ pc'[c] = next
           /\ \A d \in Calls : d # c => pc'[d] = pc[d]
           /\ UNCHANGED <<locks, todo, answer, untracked>>
BY DEF StateTypes, Goto

\* The ways in which a call goes on.
Moves(c, next) ==
    /\ Goto(c, next)
    /\ StepOf(Op(c), next)
    /\ next \in Labels
    /\ pc[c] \in Locked <=> next \in Locked
    /\ pc[c] \notin {"saveAdd", "saveRemove"} /\ next \notin {"saveAdd", "saveRemove"}

LocksRegistry(c) ==
    /\ pc[c] \in {"add", "remove"}
    /\ regLock = None
    /\ regLock' = c
    /\ pc' = [pc EXCEPT ![c] = IF @ = "add" THEN "saveAdd" ELSE "saveRemove"]
    /\ UNCHANGED <<keyLock, todo, answer, untracked>>

\* Each step of a call is one of them; a job that feeds the next one has read.
LEMMA Transitions ==
    ASSUME StateTypes, JobsInv, NEW c \in Calls, Proceed(c) \/ Fail(c)
    PROVE  /\ pc[c] \notin {"idle", "done"}
           /\ \/ \E next : Moves(c, next)
              \/ Finish(c) /\ (Op(c) = "read" => value'[c] \in Values)
              \/ \E result : End(c, result)
              \/ LockKey(c)
              \/ LocksRegistry(c)
              \/ Snapshot(c)
<1>1. pc[c] \notin {"idle", "done"}
  BY DEF Proceed, Observe, LockKey, Check, Sweep, Put, Erase, LoadRegistry, SaveRegistry, Commit,
     Clear, Snapshot, Fail
<1>2. StepOf(Op(c), pc[c]) BY <1>1, HeadJob
<1> USE DEF StepOf, KeyOps, Locked, Labels
<1>3. CASE Observe(c)
  <2>1. pc[c] = "observe" /\ Op(c) \in {"read", "restore", "purge"} /\ Key(c) \in Keys
    BY <1>1, <1>2, <1>3, HeadJob DEF Observe
  <2>2. CASE Op(c) = "read" /\ IsLive(inner[Key(c)]) /\ Finish(c)
    <3>1. inner[Key(c)].value \in Values
      BY <2>1, <2>2, ContentFacts DEF StateTypes
    <3>2. value'[c] = inner[Key(c)].value
      BY <1>3, <2>2 DEF Observe, StateTypes
    <3> QED BY <1>1, <2>2, <3>1, <3>2
  <2>3. CASE End(c, "notFound") BY <1>1, <2>3
  <2>4. CASE Goto(c, "lock")
    <3>1. Moves(c, "lock") BY <2>1, <2>4 DEF Moves
    <3> QED BY <1>1, <3>1
  <2> QED BY <1>3, <2>2, <2>3, <2>4 DEF Observe
<1>4. CASE LockKey(c) \/ Snapshot(c) BY <1>1, <1>4
<1>5. CASE Check(c)
  <2>1. pc[c] = "check" BY <1>5 DEF Check
  <2>2. CASE Goto(c, "put") /\ Op(c) \in {"write", "delete", "restore"}
    <3>1. Moves(c, "put") BY <2>1, <2>2 DEF Moves
    <3> QED BY <1>1, <3>1
  <2>3. CASE Goto(c, "erase") /\ Op(c) = "delete"
    <3>1. Moves(c, "erase") BY <2>1, <2>3 DEF Moves
    <3> QED BY <1>1, <3>1
  <2>4. CASE Goto(c, "sweep") /\ Op(c) \in {"delete", "restore", "check"}
    <3>1. Moves(c, "sweep") BY <2>1, <2>4 DEF Moves
    <3> QED BY <1>1, <3>1
  <2>5. CASE Goto(c, "add") /\ Op(c) = "delete"
    <3>1. Moves(c, "add") BY <2>1, <2>5 DEF Moves
    <3> QED BY <1>1, <3>1
  <2>6. CASE Goto(c, "remove")
    <3>1. Moves(c, "remove") BY <1>2, <2>1, <2>6 DEF Moves
    <3> QED BY <1>1, <3>1
  <2>7. CASE Finish(c) /\ Op(c) # "read" BY <1>1, <2>7
  <2>8. CASE End(c, "notFound") BY <1>1, <2>8
  <2>9. Op(c) # "read" BY <1>2, <2>1
  <2> QED
    BY <1>5, <2>2, <2>3, <2>4, <2>5, <2>6, <2>7, <2>8, <2>9
    DEF Check, DeleteDecides, RestoreDecides, ListDecides
<1>6. CASE Sweep(c)
  <2>1. pc[c] = "sweep" BY <1>6 DEF Sweep
  <2>2. CASE Goto(c, "remove")
    <3>1. Moves(c, "remove") BY <1>2, <2>1, <2>2 DEF Moves
    <3> QED BY <1>1, <3>1
  <2>3. CASE Goto(c, "erase")
    <3>1. Moves(c, "erase") BY <1>2, <2>1, <2>3 DEF Moves
    <3> QED BY <1>1, <3>1
  <2>4. CASE AfterSweep(c) BY <1>1, <2>4 DEF AfterSweep
  <2> QED BY <1>6, <2>2, <2>3, <2>4 DEF Sweep
<1>7. CASE Put(c)
  <2>1. pc[c] = "put" BY <1>7 DEF Put
  <2>2. CASE Op(c) = "write" /\ Finish(c) BY <1>1, <2>2
  <2>3. CASE Op(c) = "delete" /\ Goto(c, "add")
    <3>1. Moves(c, "add") BY <2>1, <2>3 DEF Moves
    <3> QED BY <1>1, <3>1
  <2>4. CASE Op(c) # "delete" /\ Goto(c, "remove")
    <3>1. Moves(c, "remove") BY <1>2, <2>1, <2>4 DEF Moves
    <3> QED BY <1>1, <3>1
  <2> QED BY <1>7, <2>2, <2>3, <2>4 DEF Put
<1>8. CASE Erase(c)
  <2>1. pc[c] = "erase" BY <1>8 DEF Erase
  <2>2. CASE Goto(c, "remove")
    <3>1. Moves(c, "remove") BY <1>2, <2>1, <2>2 DEF Moves
    <3> QED BY <1>1, <3>1
  <2> QED BY <1>1, <1>8, <2>2 DEF Erase
<1>9. CASE LoadRegistry(c) \/ SaveRegistry(c)
  <2>1. CASE AfterRegistry(c) BY <1>1, <2>1 DEF AfterRegistry
  <2> QED BY <1>1, <1>9, <2>1 DEF LoadRegistry, SaveRegistry, LocksRegistry
<1>10. CASE Commit(c)
  <2>1. Moves(c, "lock") BY <1>2, <1>10 DEF Commit, Moves
  <2> QED BY <1>1, <2>1
<1>11. CASE Clear(c) BY <1>1, <1>2, <1>11 DEF Clear
<1>12. CASE Fail(c) BY <1>1, <1>12 DEF Fail
<1> QED
  BY <1>3, <1>4, <1>5, <1>6, <1>7, <1>8, <1>9, <1>10, <1>11, <1>12 DEF Proceed
----------------------------------------------------------------------------
(* types *)

\* What a job writes is a content; a delete writes a tombstone of its own.
LEMMA WrittenType ==
    ASSUME StateTypes, JobsInv, SeenInv, NEW c \in Calls, pc[c] = "put",
           lastId' = IF Op(c) = "delete" THEN lastId + 1 ELSE lastId
    PROVE  /\ Written(c) \in Contents'
           /\ Op(c) \in {"write", "delete", "restore"}
           /\ Op(c) = "delete" => Written(c).tomb /\ Written(c).id = lastId + 1
           /\ Op(c) # "delete" => ~Written(c).tomb
<1>0. lastId \in Nat /\ lastId' \in Nat /\ todo[c] # <<>> /\ seen[c] \in Contents
  <2>1. lastId \in Nat /\ seen[c] \in Contents BY DEF StateTypes
  <2>2. lastId' \in Nat BY <2>1
  <2> QED BY <2>1, <2>2, HeadJob
<1>1. Op(c) \in {"write", "delete", "restore"} BY HeadJob DEF StepOf
<1>2. CASE Op(c) = "write"
  <2>1. value[c] \in Values BY <1>0, <1>2 DEF JobsInv, JobsAt
  <2>2. Written(c) = Live(value[c]) BY <1>2 DEF Written
  <2>3. Live(value[c]) \in Contents /\ ~Live(value[c]).tomb BY <1>0, <2>1, ContentTypes
  <2> QED BY <1>0, <1>2, <2>2, <2>3, ContentsGrow
<1>3. CASE Op(c) = "restore"
  <2>1. seen[c].value \in Values BY <1>0, <1>3, ContentFacts DEF SeenInv, SeenAt
  <2>2. Written(c) = Live(seen[c].value) BY <1>3 DEF Written
  <2>3. Live(seen[c].value) \in Contents /\ ~Live(seen[c].value).tomb
    BY <1>0, <2>1, ContentTypes
  <2> QED BY <1>0, <1>3, <2>2, <2>3, ContentsGrow
<1>4. CASE Op(c) = "delete"
  <2>1. seen[c].value \in Values BY <1>0, <1>4, ContentFacts DEF SeenInv, SeenAt
  <2>2. Written(c) = Tombstone(lastId + 1, seen[c].value) BY <1>4 DEF Written
  <2>3. lastId + 1 \in 1 .. lastId' BY <1>0, <1>4
  <2>4. Tombstone(lastId + 1, seen[c].value) \in Contents' BY <2>1, <2>3 DEF Contents, Values
  <2>5. /\ Tombstone(lastId + 1, seen[c].value).tomb
        /\ Tombstone(lastId + 1, seen[c].value).id = lastId + 1
    BY DEF Tombstone
  <2> QED BY <1>4, <2>2, <2>4, <2>5
<1> QED BY <1>1, <1>2, <1>3, <1>4

\* What a step of a call does to what is stored.
LEMMA InnerStep ==
    ASSUME StateTypes, JobsInv, NEW c \in Calls, Proceed(c) \/ Fail(c)
    PROVE  \/ inner' = inner /\ lastId' = lastId
           \/ /\ pc[c] = "put" /\ inner' = [inner EXCEPT ![Key(c)] = Written(c)]
              /\ lastId' = IF Op(c) = "delete" THEN lastId + 1 ELSE lastId
           \/ /\ pc[c] = "erase" /\ inner' = [inner EXCEPT ![Key(c)] = Nothing]
              /\ lastId' = lastId
           \/ /\ pc[c] = "commit" /\ inner' = [inner EXCEPT ![Key(c)] = Live(value[c])]
              /\ lastId' = lastId
           \/ pc[c] = "clear" /\ inner' = [k \in Keys |-> Nothing] /\ lastId' = lastId
<1>1. CASE Fail(c) BY <1>1 DEF Fail
<1>2. CASE \/ Observe(c) \/ LockKey(c) \/ Check(c) \/ Sweep(c) \/ LoadRegistry(c)
           \/ SaveRegistry(c) \/ Snapshot(c)
  BY <1>2 DEF Observe, LockKey, Check, Sweep, LoadRegistry, SaveRegistry, Snapshot, storage
<1>3. CASE Put(c) \/ Erase(c) \/ Commit(c) \/ Clear(c)
  BY <1>3 DEF Put, Erase, Commit, Clear
<1> QED BY <1>1, <1>2, <1>3 DEF Proceed

\* The same key by key: others' keys change only by a commit or a clear, which
\* leave no tombstone.
LEMMA InnerEffect ==
    ASSUME StateTypes, JobsInv, SeenInv, NEW c \in Calls, Proceed(c) \/ Fail(c)
    PROVE  /\ inner' \in [Keys -> Contents']
           /\ lastId' \in Nat /\ lastId <= lastId' /\ Contents \subseteq Contents'
           /\ \A k \in Keys :
                 \/ inner'[k] = inner[k]
                 \/ pc[c] \in {"commit", "clear"} /\ ~inner'[k].tomb
                 \/ pc[c] = "put" /\ k = Key(c) /\ inner'[k] = Written(c)
                 \/ pc[c] = "erase" /\ k = Key(c) /\ inner'[k] = Nothing
           /\ lastId' # lastId => /\ lastId' = lastId + 1
                                  /\ pc[c] = "put" /\ Op(c) = "delete"
                                  /\ inner'[Key(c)] = Written(c)
           /\ pc[c] = "put" /\ inner' # inner =>
                 lastId' = IF Op(c) = "delete" THEN lastId + 1 ELSE lastId
<1>1. /\ lastId' \in Nat /\ lastId <= lastId'
  <2>1. lastId \in Nat BY DEF StateTypes
  <2>2. lastId' \in {lastId, lastId + 1} BY InnerStep
  <2> QED BY <2>1, <2>2
<1>2. Contents \subseteq Contents' BY <1>1, ContentsGrow DEF StateTypes
<1>3. pc[c] \notin {"idle", "done"} BY Transitions
<1>4. pc[c] \in {"put", "erase", "commit"} => Key(c) \in Keys BY <1>3, HeadJob
<1>5. Nothing \in Contents' /\ ~Nothing.tomb
  BY <1>2, ContentTypes DEF StateTypes
<1>6. CASE inner' = inner /\ lastId' = lastId
  BY <1>1, <1>2, <1>6 DEF StateTypes
<1>7. CASE /\ pc[c] = "put" /\ inner' = [inner EXCEPT ![Key(c)] = Written(c)]
           /\ lastId' = IF Op(c) = "delete" THEN lastId + 1 ELSE lastId
  <2>1. Written(c) \in Contents' BY <1>7, WrittenType
  <2> QED BY <1>1, <1>2, <1>4, <1>7, <2>1 DEF StateTypes
<1>8. CASE /\ pc[c] = "erase" /\ inner' = [inner EXCEPT ![Key(c)] = Nothing]
           /\ lastId' = lastId
  BY <1>1, <1>2, <1>4, <1>5, <1>8 DEF StateTypes
<1>9. CASE /\ pc[c] = "commit" /\ inner' = [inner EXCEPT ![Key(c)] = Live(value[c])]
           /\ lastId' = lastId
  <2>1. value[c] \in Values BY <1>9, HeadJob DEF JobsInv, JobsAt, StepOf
  <2>2. Live(value[c]) \in Contents' /\ ~Live(value[c]).tomb
    BY <1>2, <2>1, ContentTypes DEF StateTypes
  <2> QED BY <1>1, <1>2, <1>4, <1>9, <2>2 DEF StateTypes
<1>10. CASE pc[c] = "clear" /\ inner' = [k \in Keys |-> Nothing] /\ lastId' = lastId
  BY <1>1, <1>2, <1>5, <1>10 DEF StateTypes
<1> QED BY <1>6, <1>7, <1>8, <1>9, <1>10, InnerStep

\* What a step of a call does to what the calls know.
LEMMA CallEffect ==
    ASSUME StateTypes, JobsInv, SeenInv, NEW c \in Calls, Proceed(c) \/ Fail(c)
    PROVE  /\ UNCHANGED <<plan, horizon>>
           /\ registry' \in SUBSET Keys
           /\ seen' \in [Calls -> Contents]
           /\ value' \in [Calls -> Values \cup {None}]
           /\ loaded' \in [Calls -> SUBSET Keys]
           /\ count' \in [Calls -> Nat]
           /\ claims' \subseteq [id : 1 .. lastId, by : Calls]
           /\ \A d \in Calls : d # c => /\ seen'[d] = seen[d] /\ value'[d] = value[d]
                                        /\ loaded'[d] = loaded[d] /\ count'[d] = count[d]
<1>n. Nothing \in Contents BY ContentTypes DEF StateTypes
<1>k. /\ pc[c] \notin {"idle", "done"}
      /\ pc[c] \notin {"clear", "snapshot"} => Key(c) \in Keys
  BY Transitions, HeadJob
<1>c. Claim(c) \subseteq [id : 1 .. lastId, by : Calls]
  BY ContentFacts DEF StateTypes, Claim
<1> USE DEF StateTypes, storage, results
<1>1. CASE Observe(c)
  <2>1. inner[Key(c)] \in Contents BY <1>1, <1>k DEF Observe
  <2>2. IsLive(inner[Key(c)]) => inner[Key(c)].value \in Values BY <2>1, ContentFacts
  <2> QED BY <1>1, <2>1, <2>2 DEF Observe
<1>2. CASE LockKey(c) BY <1>2 DEF LockKey
<1>3. CASE Check(c)
  <2>1. inner[Key(c)] \in Contents BY <1>3, <1>k DEF Check
  <2> QED BY <1>3, <2>1 DEF Check
<1>4. CASE Sweep(c) BY <1>4, <1>n DEF Sweep
<1>5. CASE Put(c) BY <1>5, <1>c DEF Put
<1>6. CASE Erase(c) BY <1>6, <1>c, <1>n DEF Erase
<1>7. CASE LoadRegistry(c) BY <1>7 DEF LoadRegistry
<1>8. CASE SaveRegistry(c) BY <1>8, <1>k DEF SaveRegistry
<1>9. CASE Commit(c) BY <1>9 DEF Commit
<1>10. CASE Clear(c) BY <1>10 DEF Clear
<1>11. CASE Snapshot(c) BY <1>11 DEF Snapshot
<1>12. CASE Fail(c) BY <1>12, <1>k DEF Fail
<1> QED
  BY <1>1, <1>2, <1>3, <1>4, <1>5, <1>6, <1>7, <1>8, <1>9, <1>10, <1>11, <1>12 DEF Proceed
\* purge() and listTombstones() get one job for each key of the registry.
LEMMA SnapshotEffect ==
    ASSUME StateTypes, JobsInv, NEW c \in Calls, Snapshot(c)
    PROVE  /\ todo' \in [Calls -> Seq(JobSet)] /\ pc' \in [Calls -> Labels]
           /\ \A d \in Calls : d # c => todo'[d] = todo[d] /\ pc'[d] = pc[d]
           /\ \A i \in DOMAIN todo'[c] : todo'[c][i].op \in {"purge", "check"}
           /\ todo'[c] = <<>> => pc'[c] = "done"
           /\ todo'[c] # <<>> => \/ pc'[c] = "observe" /\ Head(todo'[c]).op = "purge"
                                 \/ pc'[c] = "lock" /\ Head(todo'[c]).op = "check"
<1> DEFINE n == Cardinality(registry)
<1>1. registry \subseteq Keys /\ IsFiniteSet(registry)
  BY FS_Subset DEF StateTypes
<1>2. n \in Nat /\ (n = 0 <=> registry = {})
  BY <1>1, FS_CardinalityType, FS_EmptySet
<1>3. PICK order \in Injection(1 .. n, registry) :
         todo' = [todo EXCEPT ![c] = [i \in DOMAIN order |->
                     Job(IF Op(c) = "purgeAll" THEN "purge" ELSE "check", order[i])]]
  BY DEF Snapshot
<1>4. order \in [1 .. n -> registry] /\ DOMAIN order = 1 .. n
  BY <1>3 DEF Injection
<1> DEFINE op == IF Op(c) = "purgeAll" THEN "purge" ELSE "check"
           jobs == [i \in 1 .. n |-> Job(op, order[i])]
<1>5. op \in {"purge", "check"} OBVIOUS
<1>6. todo' = [todo EXCEPT ![c] = jobs] BY <1>3, <1>4
<1> HIDE DEF op, n
<1>7. \A i \in 1 .. n : Job(op, order[i]) \in JobSet /\ Job(op, order[i]).op = op
  BY <1>1, <1>4, <1>5 DEF Job, JobSet, KeyOps
<1>8. jobs \in [1 .. n -> JobSet] /\ DOMAIN jobs = 1 .. n /\ \A i \in 1 .. n : jobs[i].op = op
  BY <1>7
<1> HIDE DEF jobs
<1>9. jobs \in Seq(JobSet) /\ Len(jobs) = n BY <1>2, <1>8
<1>10. jobs = <<>> <=> registry = {}
  <2>1. jobs = <<>> => n = 0 BY <1>9, EmptySeq
  <2>2. jobs # <<>> => n # 0 BY <1>9, EmptySeq
  <2> QED BY <1>2, <2>1, <2>2
<1>11. jobs # <<>> => Head(jobs).op = op
  <2>1. jobs # <<>> => 1 \in 1 .. n BY <1>2, <1>10
  <2>2. jobs # <<>> => Head(jobs) = jobs[1] BY <1>9
  <2> QED BY <1>8, <2>1, <2>2
<1>12. /\ todo' \in [Calls -> Seq(JobSet)] /\ todo'[c] = jobs
       /\ \A d \in Calls : d # c => todo'[d] = todo[d]
  BY <1>6, <1>9 DEF StateTypes
<1>13. /\ pc' \in [Calls -> Labels]
       /\ \A d \in Calls : d # c => pc'[d] = pc[d]
       /\ pc'[c] = IF registry = {} THEN "done"
                   ELSE IF Op(c) = "purgeAll" THEN "observe" ELSE "lock"
  BY DEF Snapshot, StateTypes, Labels
<1> QED BY <1>5, <1>8, <1>10, <1>11, <1>12, <1>13 DEF op

\* What a step of a call does to the control.
LEMMA ControlEffect ==
    ASSUME StateTypes, JobsInv, NEW c \in Calls, Proceed(c) \/ Fail(c)
    PROVE  /\ keyLock' \in [Keys -> Calls \cup {None}]
           /\ regLock' \in Calls \cup {None}
           /\ todo' \in [Calls -> Seq(JobSet)] /\ pc' \in [Calls -> Labels]
           /\ untracked' \in SUBSET Keys
           /\ \A d \in Calls : d # c => todo'[d] = todo[d] /\ pc'[d] = pc[d]
<1>k. /\ pc[c] \notin {"idle", "done"}
      /\ pc[c] \notin {"clear", "snapshot"} => Key(c) \in Keys
      /\ StepOf(Op(c), pc[c])
  BY Transitions, HeadJob
<1>1. ASSUME NEW next, Moves(c, next)
      PROVE  /\ pc' \in [Calls -> Labels]
             /\ \A d \in Calls : d # c => pc'[d] = pc[d]
             /\ UNCHANGED <<keyLock, regLock, todo, untracked>>
  BY <1>1, GotoEffect DEF Moves, locks
<1>2. CASE Finish(c)
  <2>1. untracked' \in SUBSET Keys BY <1>2 DEF Finish, StateTypes
  <2>2. Unlock(c) BY <1>2 DEF Finish
  <2> QED BY <1>2, <1>k, <2>1, <2>2, FinishEffect, UnlockEffect
<1>3. ASSUME NEW result, End(c, result)
      PROVE  /\ keyLock' \in [Keys -> Calls \cup {None}]
             /\ regLock' \in Calls \cup {None}
             /\ todo' \in [Calls -> Seq(JobSet)] /\ pc' \in [Calls -> Labels]
             /\ untracked' \in SUBSET Keys
             /\ \A d \in Calls : d # c => todo'[d] = todo[d] /\ pc'[d] = pc[d]
  <2>1. untracked' \in SUBSET Keys BY <1>3, <1>k DEF End, StateTypes
  <2>2. Unlock(c) BY <1>3 DEF End
  <2> QED BY <1>3, <2>1, <2>2, EndEffect, UnlockEffect
<1>4. CASE LockKey(c)
  BY <1>4, <1>k DEF LockKey, StateTypes, Labels, Locked
<1>5. CASE LocksRegistry(c)
  BY <1>5 DEF LocksRegistry, StateTypes, Labels, Locked
<1>6. CASE Snapshot(c)
  BY <1>6, SnapshotEffect DEF Snapshot, StateTypes, locks
<1> QED BY <1>1, <1>2, <1>3, <1>4, <1>5, <1>6, Transitions DEF StateTypes

\* A call that begins.
LEMMA BeginEffect ==
    ASSUME StateTypes, JobsInv, NEW c \in Calls, Begin(c)
    PROVE  /\ todo' \in [Calls -> Seq(JobSet)] /\ pc' \in [Calls -> Labels]
           /\ \A d \in Calls : d # c => todo'[d] = todo[d] /\ pc'[d] = pc[d]
           /\ pc[c] = "idle" /\ Plan(c).kind # "none"
           /\ todo'[c] = Jobs(c) /\ Jobs(c) \in Seq(JobSet) /\ Jobs(c) # <<>>
           /\ Head(Jobs(c)) \in JobSet
           /\ pc'[c] = FirstStep(Head(Jobs(c)).op)
           /\ pc'[c] \in {"observe", "lock", "commit", "clear", "snapshot"}
           /\ UNCHANGED <<plan, inner, registry, lastId, claims, untracked, horizon, keyLock,
                          regLock, seen, value, answer, count, loaded>>
<1>1. pc[c] = "idle" /\ Plan(c).kind # "none"
  BY DEF Begin, JobsInv, JobsAt
<1>2. Jobs(c) \in Seq(JobSet) /\ Jobs(c) # <<>> BY <1>1, JobsOfCall DEF StateTypes
<1>3. Head(Jobs(c)) \in JobSet BY <1>2
<1>4. FirstStep(Head(Jobs(c)).op) \in {"observe", "lock", "commit", "clear", "snapshot"}
  BY <1>3, FirstSteps
<1> QED BY <1>1, <1>2, <1>3, <1>4 DEF Begin, StateTypes, Labels, storage, locks, results

\* Every step keeps the types.
LEMMA StateTypesStep ==
    ASSUME StateTypes, JobsInv, SeenInv, [Next]_vars PROVE StateTypes'
<1>1. ASSUME NEW c \in Calls, Proceed(c) \/ Fail(c) PROVE StateTypes'
  <2>1. /\ inner' \in [Keys -> Contents'] /\ lastId' \in Nat /\ lastId <= lastId'
        /\ Contents \subseteq Contents'
    BY <1>1, InnerEffect
  <2>2. seen' \in [Calls -> Contents'] BY <1>1, <2>1, CallEffect
  <2>3. claims' \subseteq [id : 1 .. lastId', by : Calls]
    <3>1. 1 .. lastId \subseteq 1 .. lastId' BY <2>1 DEF StateTypes
    <3> QED BY <1>1, <3>1, CallEffect
  <2>4. horizon' \in 0 .. lastId' /\ plan' \in Plans
    BY <1>1, <2>1, CallEffect DEF StateTypes
  <2> QED BY <1>1, <2>1, <2>2, <2>3, <2>4, CallEffect, ControlEffect DEF StateTypes
<1>2. ASSUME NEW c \in Calls, Begin(c) PROVE StateTypes'
  <2>1. Contents' = Contents BY <1>2 DEF Begin, Contents, storage
  <2> QED BY <1>2, <2>1, BeginEffect DEF StateTypes
<1>3. CASE Expire
  <2>1. UNCHANGED <<storage, control, seen, value, count, loaded, plan>> BY <1>3 DEF Expire
  <2>2. Contents' = Contents BY <2>1 DEF Contents, storage
  <2>3. horizon' \in 0 .. lastId' BY <1>3, <2>1 DEF Expire, StateTypes, storage
  <2> QED BY <2>1, <2>2, <2>3 DEF StateTypes, storage, control
<1>4. CASE UNCHANGED vars
  <2>1. Contents' = Contents BY <1>4 DEF vars, Contents
  <2> QED BY <1>4, <2>1 DEF vars, StateTypes
<1> QED BY <1>1, <1>2, <1>3, <1>4 DEF Next, Terminated

----------------------------------------------------------------------------
(* jobs *)

\* A call whose jobs, step and value stay is as it was.
LEMMA JobsStay ==
    ASSUME NEW d, JobsAt(d), todo'[d] = todo[d], pc'[d] = pc[d],
           value'[d] = value[d], plan' = plan
    PROVE  JobsAt(d)'
BY DEF JobsAt, Asked, Fed, Plan, KeysOf, Op

\* Only a job that reads sets the value of its call.
LEMMA ValueStep ==
    ASSUME StateTypes, NEW c \in Calls, Proceed(c) \/ Fail(c)
    PROVE  value'[c] = value[c] \/ Op(c) = "read"
BY DEF StateTypes, Proceed, Observe, LockKey, Check, Sweep, Put, Erase, LoadRegistry,
   SaveRegistry, Commit, Clear, Snapshot, Fail, results

\* A call keeps to its jobs, and goes from one to the next in their order.
LEMMA JobsStepOfCall ==
    ASSUME StateTypes, JobsInv, NEW c \in Calls, Proceed(c) \/ Fail(c), plan' = plan
    PROVE  JobsAt(c)'
<1>1. /\ pc[c] \notin {"idle", "done"} /\ StepOf(Op(c), pc[c])
      /\ todo[c] \in Seq(JobSet) /\ todo[c] # <<>>
      /\ Len(todo[c]) \in Nat \ {0} /\ DOMAIN todo[c] = 1 .. Len(todo[c])
      /\ todo[c][1] = Head(todo[c])
  BY Transitions, HeadJob
<1>2. JobsAt(c) BY DEF JobsInv
<1>3. \A i \in DOMAIN todo[c] :
         /\ Asked(c, todo[c][i])
         /\ i > 1 => /\ todo[c][i].op \in KeyOps
                     /\ todo[c][i].op \in {"write", "stream"} => todo[c][i - 1].op = "read"
  BY <1>2 DEF JobsAt, Fed
<1>4. Op(c) \in {"write", "stream"} => value'[c] \in Values
  BY <1>1, <1>2, ValueStep DEF JobsAt
<1>5. ASSUME NEW next, todo' = todo, pc'[c] = next, StepOf(Op(c), next)
      PROVE  JobsAt(c)'
  <2>1. next \notin {"idle", "done"} BY <1>5 DEF StepOf
  <2>2. Op(c)' = Op(c) BY <1>5 DEF Op
  <2>3. (\A i \in DOMAIN todo[c] : Asked(c, todo[c][i]))'
    BY <1>3, <1>5 DEF Asked, Plan, KeysOf
  <2>4. Fed(todo[c])' BY <1>2, <1>5 DEF JobsAt, Fed
  <2>5. StepOf(Op(c), pc[c])' BY <1>5, <2>2 DEF StepOf
  <2> QED BY <1>1, <1>4, <1>5, <2>1, <2>2, <2>3, <2>4, <2>5 DEF JobsAt, Asked, Plan, KeysOf
<1>6. ASSUME todo'[c] = <<>>, pc'[c] = "done" PROVE JobsAt(c)'
  <2>1. DOMAIN todo'[c] = {} BY <1>6
  <2> QED BY <1>6, <2>1 DEF JobsAt, Fed
<1>7. ASSUME NEW next, Moves(c, next) PROVE JobsAt(c)'
  <2>1. todo' = todo /\ pc'[c] = next /\ StepOf(Op(c), next)
    BY <1>7, GotoEffect DEF Moves
  <2> QED BY <1>5, <2>1
<1>8. CASE Finish(c) /\ (Op(c) = "read" => value'[c] \in Values)
  <2>1. CASE Len(todo[c]) = 1
    <3>1. todo'[c] = <<>> /\ pc'[c] = "done" BY <1>1, <1>8, <2>1, FinishEffect
    <3> QED BY <1>6, <3>1
  <2>2. CASE Len(todo[c]) # 1
    <3>1. /\ Len(todo[c]) > 1 /\ todo'[c] # <<>> /\ todo'[c] = Tail(todo[c])
          /\ Head(todo'[c]) = todo[c][2] /\ todo[c][2] \in JobSet
          /\ pc'[c] = FirstStep(todo[c][2].op)
          /\ pc'[c] \in {"observe", "lock", "commit", "clear", "snapshot"}
      BY <1>1, <1>8, <2>2, FinishEffect
    <3>2. /\ DOMAIN todo'[c] = 1 .. (Len(todo[c]) - 1)
          /\ \A i \in 1 .. (Len(todo[c]) - 1) : todo'[c][i] = todo[c][i + 1]
      BY <1>1, <3>1
    <3>3. \A i \in DOMAIN todo'[c] :
             /\ Asked(c, todo'[c][i])
             /\ i > 1 => /\ todo'[c][i].op \in KeyOps
                         /\ todo'[c][i].op \in {"write", "stream"}
                               => todo'[c][i - 1].op = "read"
      <4> SUFFICES ASSUME NEW i \in 1 .. (Len(todo[c]) - 1)
                   PROVE  /\ Asked(c, todo'[c][i])
                          /\ i > 1 =>
                                /\ todo'[c][i].op \in KeyOps
                                /\ todo'[c][i].op \in {"write", "stream"}
                                      => todo'[c][i - 1].op = "read"
        BY <3>2
      <4>1. i \in Nat /\ i + 1 \in DOMAIN todo[c] /\ todo'[c][i] = todo[c][i + 1] /\ i + 1 > 1
            /\ (i + 1) - 1 = i
        BY <1>1, <3>2
      <4>2. i > 1 => todo'[c][i - 1] = todo[c][i]
        <5>1. i > 1 => i - 1 \in 1 .. (Len(todo[c]) - 1) /\ (i - 1) + 1 = i BY <1>1
        <5> QED BY <3>2, <5>1
      <4> QED BY <1>3, <4>1, <4>2
    <3>4. StepOf(Head(todo'[c]).op, pc'[c]) BY <3>1, FirstSteps
    <3>5. Head(todo'[c]).op \in {"write", "stream"} => value'[c] \in Values
      <4>1. 2 \in DOMAIN todo[c] /\ 2 > 1 /\ 2 - 1 = 1 BY <1>1, <3>1
      <4>2. todo[c][2].op \in {"write", "stream"} => Op(c) = "read"
        BY <1>1, <1>3, <4>1 DEF Op
      <4> QED BY <1>8, <3>1, <4>2
    <3>6. pc'[c] \notin {"idle", "done"} BY <3>1
    <3>7. (\A i \in DOMAIN todo[c] : Asked(c, todo[c][i]))'
      BY <3>3 DEF Asked, Plan, KeysOf
    <3>8. Fed(todo[c])' BY <3>3 DEF Fed
    <3>9. StepOf(Op(c), pc[c])' BY <3>4 DEF StepOf, Op
    <3> QED BY <3>1, <3>5, <3>6, <3>7, <3>8, <3>9 DEF JobsAt, Asked, Plan, KeysOf, Op
  <2> QED BY <2>1, <2>2
<1>9. ASSUME NEW result, End(c, result) PROVE JobsAt(c)'
  BY <1>6, <1>9, EndEffect
<1>10. CASE LockKey(c)
  <2>1. /\ pc[c] = "lock" /\ todo' = todo
        /\ pc'[c] = IF Op(c) = "read" \/ (Op(c) = "purge" /\ seen[c].tomb)
                    THEN "sweep" ELSE "check"
    BY <1>10 DEF LockKey, StateTypes
  <2>2. StepOf(Op(c), pc'[c]) BY <1>1, <2>1 DEF StepOf, KeyOps
  <2> QED BY <1>5, <2>1, <2>2
<1>11. CASE LocksRegistry(c)
  <2>1. /\ pc[c] \in {"add", "remove"} /\ todo' = todo
        /\ pc'[c] = IF pc[c] = "add" THEN "saveAdd" ELSE "saveRemove"
    BY <1>11 DEF LocksRegistry, StateTypes
  <2>2. StepOf(Op(c), pc'[c]) BY <1>1, <2>1 DEF StepOf, KeyOps
  <2> QED BY <1>5, <2>1, <2>2
<1>12. CASE Snapshot(c)
  <2>1. CASE todo'[c] = <<>> BY <1>6, <1>12, <2>1, SnapshotEffect
  <2>2. CASE todo'[c] # <<>>
    <3>1. /\ todo'[c] \in Seq(JobSet)
          /\ \A i \in DOMAIN todo'[c] : todo'[c][i].op \in {"purge", "check"}
          /\ \/ pc'[c] = "observe" /\ Head(todo'[c]).op = "purge"
             \/ pc'[c] = "lock" /\ Head(todo'[c]).op = "check"
      BY <1>12, <2>2, SnapshotEffect
    <3>2. StepOf(Op(c), pc[c])' BY <3>1 DEF StepOf, Op, KeyOps
    <3>3. (\A i \in DOMAIN todo[c] : Asked(c, todo[c][i]))' BY <3>1 DEF Asked
    <3>4. Fed(todo[c])' BY <3>1 DEF Fed, KeyOps
    <3> QED BY <2>2, <3>1, <3>2, <3>3, <3>4 DEF JobsAt, Asked, Plan, KeysOf, Op
  <2> QED BY <2>1, <2>2
<1> QED BY <1>7, <1>8, <1>9, <1>10, <1>11, <1>12, Transitions

\* Every step keeps every call to its jobs.
LEMMA JobsStep ==
    ASSUME StateTypes, JobsInv, SeenInv, [Next]_vars PROVE JobsInv'
<1>1. ASSUME NEW c \in Calls, Proceed(c) \/ Fail(c) PROVE JobsInv'
  <2> SUFFICES ASSUME NEW d \in Calls PROVE JobsAt(d)' BY DEF JobsInv
  <2>1. plan' = plan BY <1>1, CallEffect
  <2>2. CASE d = c BY <1>1, <2>1, <2>2, JobsStepOfCall
  <2>3. CASE d # c
    <3>1. todo'[d] = todo[d] /\ pc'[d] = pc[d] /\ value'[d] = value[d]
      BY <1>1, <2>3, ControlEffect, CallEffect
    <3> QED BY <2>1, <3>1, JobsStay DEF JobsInv
  <2> QED BY <2>2, <2>3
<1>2. ASSUME NEW c \in Calls, Begin(c) PROVE JobsInv'
  <2> SUFFICES ASSUME NEW d \in Calls PROVE JobsAt(d)' BY DEF JobsInv
  <2>1. plan' = plan /\ value' = value BY <1>2, BeginEffect
  <2>2. CASE d = c
    <3>1. /\ pc[c] = "idle" /\ Plan(c).kind # "none" /\ plan \in Plans
          /\ todo'[c] = Jobs(c) /\ Jobs(c) \in Seq(JobSet) /\ Jobs(c) # <<>>
          /\ Head(Jobs(c)) \in JobSet
          /\ pc'[c] = FirstStep(Head(Jobs(c)).op)
          /\ pc'[c] \notin {"idle", "done"}
      BY <1>2, BeginEffect DEF StateTypes
    <3>2. /\ \A i \in DOMAIN Jobs(c) : Asked(c, Jobs(c)[i])
          /\ Fed(Jobs(c))
          /\ Head(Jobs(c)).op \in {"write", "stream"} => Plan(c).kind \in {"set", "setStream"}
      BY <3>1, JobsOfCall
    <3>3. StepOf(Op(c), pc[c])' BY <3>1, FirstSteps DEF StepOf, Op
    <3>4. (\A i \in DOMAIN todo[c] : Asked(c, todo[c][i]))'
      BY <2>1, <3>1, <3>2 DEF Asked, Plan, KeysOf
    <3>5. Fed(todo[c])' BY <3>1, <3>2 DEF Fed
    <3>6. Head(todo'[c]).op \in {"write", "stream"} => value'[c] \in Values
      BY <2>1, <3>1, <3>2 DEF JobsInv, JobsAt, Values
    <3> QED
      BY <2>2, <3>1, <3>3, <3>4, <3>5, <3>6 DEF JobsAt, Asked, Plan, KeysOf, Op
  <2>3. CASE d # c
    <3>1. todo'[d] = todo[d] /\ pc'[d] = pc[d] BY <1>2, <2>3, BeginEffect
    <3> QED BY <2>1, <3>1, JobsStay DEF JobsInv
  <2> QED BY <2>2, <2>3
<1>3. CASE UNCHANGED <<todo, pc, value, plan>>
  <2>1. \A d \in Calls : JobsAt(d)' BY <1>3, JobsStay DEF JobsInv
  <2> QED BY <2>1 DEF JobsInv
<1> QED BY <1>1, <1>2, <1>3 DEF Next, Terminated, Expire, vars, control

----------------------------------------------------------------------------
(* locks *)

\* Nobody takes or releases the locks of others.
LEMMA OthersLocks ==
    ASSUME StateTypes, JobsInv, NEW c \in Calls, Proceed(c) \/ Fail(c),
           NEW d \in Calls, d # c
    PROVE  /\ \A k \in Keys : keyLock'[k] = d <=> keyLock[k] = d
           /\ regLock' = d <=> regLock = d
<1>0. d # None OBVIOUS
<1>1. CASE UNCHANGED <<keyLock, regLock>> BY <1>1
<1>2. CASE Unlock(c)
  <2>1. regLock = c => regLock' = None BY <1>2 DEF Unlock
  <2>2. regLock # c => regLock' = regLock BY <1>2 DEF Unlock
  <2>3. \A k \in Keys : /\ keyLock[k] = c => keyLock'[k] = None
                        /\ keyLock[k] # c => keyLock'[k] = keyLock[k]
    BY <1>2, UnlockEffect
  <2> QED BY <1>0, <2>1, <2>2, <2>3
<1>3. CASE LockKey(c)
  <2>1. /\ keyLock[Key(c)] = None /\ keyLock' = [keyLock EXCEPT ![Key(c)] = c]
        /\ regLock' = regLock
    BY <1>3 DEF LockKey
  <2> QED BY <1>0, <2>1 DEF StateTypes
<1>4. CASE LocksRegistry(c)
  BY <1>0, <1>4 DEF LocksRegistry
<1>5. ASSUME NEW next, Moves(c, next) PROVE UNCHANGED <<keyLock, regLock>>
  BY <1>5 DEF Moves, Goto, locks
<1>6. Snapshot(c) => UNCHANGED <<keyLock, regLock>> BY DEF Snapshot, locks
<1>7. Finish(c) => Unlock(c) BY DEF Finish
<1>8. \A result : End(c, result) => Unlock(c) BY DEF End
<1> QED BY <1>1, <1>2, <1>3, <1>4, <1>5, <1>6, <1>7, <1>8, Transitions

\* A call takes the lock of its key, and then that of the registry, where it is
\* free, and leaves both as it ends its job.
LEMMA OwnLocks ==
    ASSUME StateTypes, JobsInv, LocksInv, NEW c \in Calls, Proceed(c) \/ Fail(c)
    PROVE  LocksAt(c)'
<1>1. /\ pc[c] \notin {"idle", "done"}
      /\ pc[c] \notin {"clear", "snapshot"} => Key(c) \in Keys
      /\ LocksAt(c)
  BY Transitions, HeadJob DEF LocksInv
<1>2. ASSUME pc'[c] \notin Locked, \A k \in Keys : keyLock'[k] # c, regLock' # c
      PROVE  LocksAt(c)'
  BY <1>2 DEF LocksAt, Locked
<1>3. ASSUME Unlock(c), pc'[c] \in {"done", "observe", "lock", "commit", "clear", "snapshot"}
      PROVE  LocksAt(c)'
  <2>1. pc'[c] \notin Locked BY <1>3 DEF Locked
  <2> QED BY <1>2, <1>3, <2>1, UnlockEffect
<1>4. ASSUME NEW next, Moves(c, next) PROVE LocksAt(c)'
  <2>1. /\ pc'[c] = next /\ UNCHANGED <<keyLock, regLock, todo>>
        /\ pc[c] \in Locked <=> next \in Locked
        /\ pc[c] \notin {"saveAdd", "saveRemove"} /\ next \notin {"saveAdd", "saveRemove"}
    BY <1>4, GotoEffect DEF Moves, locks
  <2> QED BY <1>1, <2>1 DEF LocksAt, Key
<1>5. CASE Finish(c)
  <2>1. pc'[c] \in {"done", "observe", "lock", "commit", "clear", "snapshot"}
    BY <1>1, <1>5, FinishEffect
  <2> QED BY <1>3, <1>5, <2>1 DEF Finish
<1>6. ASSUME NEW result, End(c, result) PROVE LocksAt(c)'
  <2>1. pc'[c] = "done" BY <1>6, EndEffect
  <2> QED BY <1>3, <1>6, <2>1 DEF End
<1>7. CASE LockKey(c)
  <2>1. /\ pc[c] = "lock" /\ keyLock' = [keyLock EXCEPT ![Key(c)] = c]
        /\ UNCHANGED <<regLock, todo>> /\ pc'[c] \in {"sweep", "check"}
    BY <1>7 DEF LockKey, StateTypes
  <2>2. pc[c] \notin Locked BY <2>1 DEF Locked
  <2>3. \A k \in Keys : keyLock[k] # c BY <1>1, <2>2 DEF LocksAt
  <2>4. regLock # c BY <1>1, <2>1 DEF LocksAt
  <2>5. keyLock'[Key(c)] = c /\ \A k \in Keys : k # Key(c) => keyLock'[k] # c
    BY <1>1, <2>1, <2>3 DEF StateTypes
  <2> QED BY <2>1, <2>4, <2>5 DEF LocksAt, Key, Locked
<1>8. CASE LocksRegistry(c)
  <2>1. /\ pc[c] \in {"add", "remove"} /\ pc'[c] \in {"saveAdd", "saveRemove"}
        /\ regLock' = c /\ UNCHANGED <<keyLock, todo>>
    BY <1>8 DEF LocksRegistry, StateTypes
  <2> QED BY <1>1, <2>1 DEF LocksAt, Key, Locked
<1>9. CASE Snapshot(c)
  <2>1. pc[c] = "snapshot" /\ UNCHANGED <<keyLock, regLock>> BY <1>9 DEF Snapshot, locks
  <2>2. pc'[c] \in {"done", "observe", "lock"} BY <1>9, SnapshotEffect
  <2>3. \A k \in Keys : keyLock[k] # c BY <1>1, <2>1 DEF LocksAt, Locked
  <2>4. regLock # c BY <1>1, <2>1 DEF LocksAt
  <2> QED BY <1>2, <2>1, <2>2, <2>3, <2>4 DEF Locked
<1> QED BY <1>4, <1>5, <1>6, <1>7, <1>8, <1>9, Transitions

\* Every step keeps the locks with the calls at work under them.
LEMMA LocksStep ==
    ASSUME StateTypes, JobsInv, LocksInv, [Next]_vars PROVE LocksInv'
<1>1. ASSUME NEW c \in Calls, Proceed(c) \/ Fail(c) PROVE LocksInv'
  <2> SUFFICES ASSUME NEW d \in Calls PROVE LocksAt(d)' BY DEF LocksInv
  <2>1. CASE d = c BY <1>1, <2>1, OwnLocks
  <2>2. CASE d # c
    <3>1. todo'[d] = todo[d] /\ pc'[d] = pc[d] BY <1>1, <2>2, ControlEffect
    <3>2. /\ \A k \in Keys : keyLock'[k] = d <=> keyLock[k] = d
          /\ regLock' = d <=> regLock = d
      BY <1>1, <2>2, OthersLocks
    <3>3. pc[d] \in Locked => Key(d) \in Keys BY HeadJob DEF Locked
    <3> QED BY <3>1, <3>2, <3>3 DEF LocksInv, LocksAt, Key
  <2> QED BY <2>1, <2>2
<1>2. ASSUME NEW c \in Calls, Begin(c) PROVE LocksInv'
  <2> SUFFICES ASSUME NEW d \in Calls PROVE LocksAt(d)' BY DEF LocksInv
  <2>1. UNCHANGED <<keyLock, regLock>> /\ LocksAt(d) BY <1>2, BeginEffect DEF LocksInv
  <2>2. CASE d = c
    <3>1. /\ pc[c] = "idle"
          /\ pc'[c] \in {"observe", "lock", "commit", "clear", "snapshot"}
      BY <1>2, BeginEffect
    <3> QED BY <2>1, <2>2, <3>1 DEF LocksAt, Locked
  <2>3. CASE d # c
    <3>1. todo'[d] = todo[d] /\ pc'[d] = pc[d] BY <1>2, <2>3, BeginEffect
    <3> QED BY <2>1, <3>1 DEF LocksAt, Key
  <2> QED BY <2>2, <2>3
<1>3. CASE UNCHANGED <<todo, pc, keyLock, regLock>>
  BY <1>3 DEF LocksInv, LocksAt, Key
<1> QED BY <1>1, <1>2, <1>3 DEF Next, Terminated, Expire, vars, control

----------------------------------------------------------------------------
(* what the calls have seen *)

\* Between two jobs.
Between(c) ==
    \/ pc[c] \in {"done", "observe", "commit", "clear", "snapshot"}
    \/ pc[c] = "lock" /\ Op(c) \in {"write", "delete", "check"}

LEMMA BetweenJobs ==
    ASSUME StateTypes, JobsInv, NEW c \in Calls, pc[c] \notin {"idle", "done"},
           \/ Finish(c)
           \/ \E result : End(c, result)
           \/ Snapshot(c)
    PROVE  Between(c)'
<1>1. CASE Finish(c)
  <2>1. CASE Len(todo[c]) = 1 BY <1>1, <2>1, FinishEffect DEF Between
  <2>2. CASE Len(todo[c]) # 1
    <3>1. /\ todo[c][2] \in JobSet /\ Head(todo'[c]) = todo[c][2]
          /\ pc'[c] = FirstStep(todo[c][2].op)
      BY <1>1, <2>2, FinishEffect
    <3>2. /\ FirstStep(todo[c][2].op) \in {"observe", "lock", "commit", "clear", "snapshot"}
          /\ FirstStep(todo[c][2].op) = "lock" => todo[c][2].op \in {"write", "delete", "check"}
      BY <3>1 DEF FirstStep, JobSet, KeyOps
    <3> QED BY <3>1, <3>2 DEF Between, Op
  <2> QED BY <2>1, <2>2
<1>2. ASSUME NEW result, End(c, result) PROVE Between(c)'
  BY <1>2, EndEffect DEF Between
<1>3. CASE Snapshot(c)
  <2>1. CASE todo'[c] = <<>> BY <1>3, <2>1, SnapshotEffect DEF Between
  <2>2. CASE todo'[c] # <<>> BY <1>3, <2>2, SnapshotEffect DEF Between, Op
  <2> QED BY <2>1, <2>2
<1> QED BY <1>1, <1>2, <1>3

\* A call looks again at the key that it has locked before it writes.
LEMMA SeenStepOfCall ==
    ASSUME StateTypes, JobsInv, SeenInv, NEW c \in Calls, Proceed(c) \/ Fail(c)
    PROVE  SeenAt(c)'
<1>1. /\ pc[c] \notin {"idle", "done"} /\ StepOf(Op(c), pc[c]) /\ SeenAt(c)
  BY Transitions, HeadJob DEF SeenInv
<1>2. ASSUME Between(c)' PROVE SeenAt(c)'
  BY <1>2 DEF Between, SeenAt
<1>3. CASE \/ Finish(c)
           \/ \E result : End(c, result)
           \/ Snapshot(c)
  BY <1>1, <1>2, <1>3, BetweenJobs
<1>4. ASSUME NEW next \in Labels, Goto(c, next)
      PROVE  pc'[c] = next /\ Op(c)' = Op(c)
  BY <1>4, GotoEffect DEF Op
<1>5. ASSUME NEW next \in {"add", "remove"}, Goto(c, next) PROVE SeenAt(c)'
  BY <1>4, <1>5 DEF SeenAt, Labels, Locked
<1>6. CASE Observe(c)
  <2>1. seen'[c] = inner[Key(c)] BY <1>6 DEF Observe, StateTypes
  <2>2. CASE Goto(c, "lock") /\ (Op(c) \in {"read", "restore"} => inner[Key(c)].tomb)
    BY <1>4, <2>1, <2>2 DEF SeenAt, Labels
  <2> QED BY <1>3, <1>6, <2>2 DEF Observe
<1>7. CASE LockKey(c)
  <2>1. /\ pc[c] = "lock" /\ seen' = seen /\ todo' = todo
        /\ pc'[c] = IF Op(c) = "read" \/ (Op(c) = "purge" /\ seen[c].tomb)
                    THEN "sweep" ELSE "check"
    BY <1>7 DEF LockKey, StateTypes
  <2> QED BY <1>1, <2>1 DEF SeenAt, Op
<1>8. CASE Check(c)
  <2> DEFINE r == inner[Key(c)]
  <2>1. /\ pc[c] = "check" /\ Op(c) # "read"
        /\ seen'[c] = IF Op(c) = "restore" THEN seen[c] ELSE r
    BY <1>1, <1>8 DEF Check, StateTypes, StepOf
  <2>2. CASE Goto(c, "put") /\ \/ Op(c) = "write"
                               \/ Op(c) = "delete" /\ IsLive(r)
                               \/ Op(c) = "restore"
    BY <1>1, <1>4, <2>1, <2>2 DEF SeenAt, Labels, Locked, IsLive, Nothing
  <2>3. CASE Goto(c, "erase") /\ Op(c) = "delete"
    BY <1>4, <2>3 DEF SeenAt, Labels, Locked
  <2>4. CASE Goto(c, "sweep") /\ ((Op(c) \in {"delete", "check"} /\ r.tomb) \/ Op(c) = "restore")
    BY <1>1, <1>4, <2>1, <2>4 DEF SeenAt, Labels, Locked
  <2> QED
    BY <1>3, <1>5, <1>8, <2>2, <2>3, <2>4
    DEF Check, DeleteDecides, RestoreDecides, ListDecides
<1>9. CASE Sweep(c)
  <2>1. CASE Goto(c, "erase")
    <3>1. /\ pc[c] = "sweep" /\ (inner[Key(c)].tomb => seen'[c] = seen[c])
      BY <1>9 DEF Sweep, StateTypes
    <3>2. inner[Key(c)].tomb \/ SeenAt(c)' BY <1>3, <1>5, <1>9 DEF Sweep, AfterSweep
    <3> QED BY <1>1, <1>4, <2>1, <3>1, <3>2 DEF SeenAt, Labels, Locked
  <2> QED BY <1>3, <1>5, <1>9, <2>1 DEF Sweep, AfterSweep
<1>10. CASE Put(c) \/ Erase(c)
  BY <1>3, <1>5, <1>10 DEF Put, Erase
<1>11. CASE LoadRegistry(c)
  <2>1. CASE AfterRegistry(c) BY <1>3, <2>1 DEF AfterRegistry
  <2>2. CASE LocksRegistry(c)
    <3>1. pc'[c] \in {"saveAdd", "saveRemove"} BY <2>2 DEF LocksRegistry, StateTypes
    <3> QED BY <3>1 DEF SeenAt
  <2> QED BY <1>11, <2>1, <2>2 DEF LoadRegistry, LocksRegistry
<1>12. CASE SaveRegistry(c) BY <1>3, <1>12 DEF SaveRegistry, AfterRegistry
<1>13. CASE Commit(c)
  <2>1. pc[c] = "commit" /\ Op(c) = "stream" /\ Goto(c, "lock")
    BY <1>1, <1>13 DEF Commit, StepOf
  <2> QED BY <1>4, <2>1 DEF SeenAt, Labels
<1>14. CASE Clear(c) \/ Fail(c) BY <1>3, <1>14 DEF Clear, Fail
<1>15. CASE Snapshot(c) BY <1>3, <1>15
<1> QED
  BY <1>6, <1>7, <1>8, <1>9, <1>10, <1>11, <1>12, <1>13, <1>14, <1>15 DEF Proceed

LEMMA SeenStep ==
    ASSUME StateTypes, JobsInv, SeenInv, [Next]_vars PROVE SeenInv'
<1>1. ASSUME NEW c \in Calls, Proceed(c) \/ Fail(c) PROVE SeenInv'
  <2> SUFFICES ASSUME NEW d \in Calls PROVE SeenAt(d)' BY DEF SeenInv
  <2>1. CASE d = c BY <1>1, <2>1, SeenStepOfCall
  <2>2. CASE d # c
    <3>1. todo'[d] = todo[d] /\ pc'[d] = pc[d] /\ seen'[d] = seen[d]
      BY <1>1, <2>2, ControlEffect, CallEffect
    <3> QED BY <3>1 DEF SeenInv, SeenAt, Op, IsLive
  <2> QED BY <2>1, <2>2
<1>2. ASSUME NEW c \in Calls, Begin(c) PROVE SeenInv'
  <2> SUFFICES ASSUME NEW d \in Calls PROVE SeenAt(d)' BY DEF SeenInv
  <2>1. seen' = seen BY <1>2, BeginEffect
  <2>2. CASE d = c
    <3>1. /\ todo'[c] = Jobs(c) /\ Head(Jobs(c)) \in JobSet
          /\ pc'[c] = FirstStep(Head(Jobs(c)).op)
      BY <1>2, BeginEffect
    <3>2. Between(c)' BY <3>1 DEF Between, Op, FirstStep, JobSet, KeyOps
    <3> QED BY <2>2, <3>2 DEF Between, SeenAt
  <2>3. CASE d # c
    <3>1. todo'[d] = todo[d] /\ pc'[d] = pc[d] BY <1>2, <2>3, BeginEffect
    <3> QED BY <2>1, <3>1 DEF SeenInv, SeenAt, Op, IsLive
  <2> QED BY <2>2, <2>3
<1>3. CASE UNCHANGED <<todo, pc, seen>>
  BY <1>3 DEF SeenInv, SeenAt, Op, IsLive
<1> QED BY <1>1, <1>2, <1>3 DEF Next, Terminated, Expire, vars, control

----------------------------------------------------------------------------
(* what holds whatever the calls are *)

\* The registry lists the tombstones that there are initially, and they differ.
LEMMA Initially ==
    ASSUME Init
    PROVE  /\ inner \in [Keys -> Contents] /\ registry \in SUBSET Keys /\ lastId \in Nat
           /\ \A k \in Keys : k \in registry <=> inner[k].tomb
           /\ \A k, l \in Keys :
                 inner[k].tomb /\ inner[l].tomb /\ inner[k].id = inner[l].id => k = l
<1>1. lastId \in Nat BY FS_CardinalityType DEF Init
<1>2. PICK ids \in Injection(Keys, 1 .. Cardinality(Keys)) : \E deleted \in SUBSET Keys :
         /\ inner \in {f \in [Keys -> {Nothing, Live(Old)}
                                  \cup {Tombstone(ids[k], Old) : k \in deleted}] :
                          \A k \in Keys :
                             IF k \in deleted THEN f[k] = Tombstone(ids[k], Old)
                             ELSE ~f[k].tomb}
         /\ registry = deleted
  BY DEF Init
<1>3. /\ registry \in SUBSET Keys
      /\ inner \in [Keys -> {Nothing, Live(Old)}
                      \cup {Tombstone(ids[k], Old) : k \in registry}]
      /\ \A k \in Keys : IF k \in registry THEN inner[k] = Tombstone(ids[k], Old)
                         ELSE ~inner[k].tomb
  BY <1>2
<1>4. /\ ids \in [Keys -> 1 .. lastId]
      /\ \A k, l \in Keys : ids[k] = ids[l] => k = l
  <2>1. lastId = Cardinality(Keys) BY DEF Init
  <2>2. ids \in [Keys -> 1 .. lastId] /\ IsInjective(ids) BY <2>1 DEF Injection
  <2> QED BY <2>2 DEF IsInjective
<1>5. \A k \in Keys : /\ Tombstone(ids[k], Old) \in Contents
                      /\ Tombstone(ids[k], Old).tomb
                      /\ Tombstone(ids[k], Old).id = ids[k]
  BY <1>1, <1>4, ContentTypes DEF Values
<1>6. Nothing \in Contents /\ Live(Old) \in Contents BY <1>1, ContentTypes DEF Values
<1>7. inner \in [Keys -> Contents] BY <1>3, <1>5, <1>6
<1>8. \A k \in Keys : k \in registry <=> inner[k].tomb BY <1>3, <1>5
<1>9. \A k \in Keys : inner[k].tomb => inner[k].id = ids[k] BY <1>3, <1>5
<1> QED BY <1>1, <1>3, <1>4, <1>7, <1>8, <1>9

LEMMA InitTypes == Init => StateTypes /\ JobsInv /\ LocksInv /\ SeenInv
<1> SUFFICES ASSUME Init PROVE StateTypes /\ JobsInv /\ LocksInv /\ SeenInv OBVIOUS
<1>1. /\ inner \in [Keys -> Contents] /\ registry \in SUBSET Keys /\ lastId \in Nat
  BY Initially
<1>2. Nothing \in Contents BY <1>1, ContentTypes
<1>3. \A c \in Calls : pc[c] \in {"idle", "done"} /\ todo[c] = <<>> BY DEF Init
<1>4. todo \in [Calls -> Seq(JobSet)] BY DEF Init
<1>5. /\ keyLock \in [Keys -> Calls \cup {None}] /\ regLock = None
      /\ \A k \in Keys : keyLock[k] = None
      /\ pc \in [Calls -> Labels]
      /\ seen \in [Calls -> Contents]
      /\ value \in [Calls -> Values \cup {None}]
      /\ loaded \in [Calls -> SUBSET Keys]
      /\ count \in [Calls -> Nat]
      /\ claims = {} /\ untracked = {} /\ horizon = 0 /\ plan \in Plans
  BY <1>2 DEF Init, Labels, Locked, Values
<1>6. StateTypes BY <1>1, <1>4, <1>5 DEF StateTypes
<1>7. ASSUME NEW c \in Calls PROVE JobsAt(c)
  <2>1. pc[c] = "idle" => Plan(c).kind # "none" BY DEF Init
  <2>2. Plan(c).kind \in {"set", "setStream"} => value[c] = c BY DEF Init
  <2>3. DOMAIN todo[c] = {} BY <1>3
  <2> QED BY <1>3, <2>1, <2>2, <2>3 DEF JobsAt, Fed
<1>8. ASSUME NEW c \in Calls PROVE LocksAt(c) /\ SeenAt(c)
  BY <1>3, <1>5 DEF LocksAt, SeenAt, Locked
<1> QED BY <1>6, <1>7, <1>8 DEF JobsInv, LocksInv, SeenInv

WellFormed == StateTypes /\ JobsInv /\ LocksInv /\ SeenInv

LEMMA AlwaysWellFormed == Spec => []WellFormed
<1>1. Init => WellFormed BY InitTypes DEF WellFormed
<1>2. WellFormed /\ [Next]_vars => WellFormed'
  BY StateTypesStep, JobsStep, LocksStep, SeenStep DEF WellFormed
<1> QED BY <1>1, <1>2, PTL DEF Spec

\* The state of the wrapper is well formed, and a call is at work on a key, or on
\* the registry, only while it holds its lock: whatever the calls are, whatever
\* fails and whenever tombstones expire, no two calls mutate one of them at once
\* (SoftDelete: the locks per key and the lock of the registry).
THEOREM SoftDeleteTypes == Spec => []TypeOK
<1>1. WellFormed => TypeOK
  BY DEF WellFormed, StateTypes, LocksInv, LocksAt, Locked, TypeOK
<1> QED BY <1>1, AlwaysWellFormed, PTL

----------------------------------------------------------------------------
(* tombstones end once *)

\* A call that is about to write or to erase has just seen the content of its
\* key, under the lock of the key.
LEMMA AboutToEnd ==
    ASSUME StateTypes, JobsInv, SeenInv, NEW c \in Calls, Proceed(c) \/ Fail(c),
           pc'[c] \in {"put", "erase"}
    PROVE  /\ UNCHANGED <<inner, claims, lastId, todo, registry>>
           /\ pc[c] \in {"check", "sweep"}
           /\ seen'[c].tomb => inner[Key(c)].tomb /\ inner[Key(c)].id = seen'[c].id
           /\ pc'[c] = "erase" => ~IsLive(inner[Key(c)])
           /\ Op(c) = "restore" => ~IsLive(inner[Key(c)])
           /\ seen'[c].tomb <=> inner[Key(c)].tomb
           /\ Op(c) = "delete" /\ inner[Key(c)].tomb => IsExpired(inner[Key(c)])
<1>1. pc[c] \notin {"idle", "done"} /\ SeenAt(c) /\ StepOf(Op(c), pc[c])
  BY Transitions, HeadJob DEF SeenInv
<1>2. ~(Finish(c) \/ (\E result : End(c, result)) \/ Snapshot(c))
  BY <1>1, BetweenJobs DEF Between
<1>3. ~LocksRegistry(c) /\ ~LockKey(c)
  BY DEF LocksRegistry, LockKey, StateTypes
<1>4. ASSUME NEW next \in {"add", "remove", "lock"} PROVE ~Goto(c, next)
  BY <1>4, GotoEffect DEF Labels, Locked
<1>5. ASSUME NEW next \in Labels, Goto(c, next) PROVE todo' = todo /\ pc'[c] = next
  BY <1>5, GotoEffect
<1>6. ~(Observe(c) \/ LoadRegistry(c) \/ SaveRegistry(c) \/ Commit(c) \/ Clear(c) \/ Fail(c)
        \/ Put(c) \/ Erase(c))
  BY <1>2, <1>3, <1>4
  DEF Observe, LoadRegistry, LocksRegistry, SaveRegistry, AfterRegistry, Commit, Clear, Fail,
      Put, Erase
<1> DEFINE r == inner[Key(c)]
<1>7. CASE Check(c)
  <2>1. /\ pc[c] = "check" /\ UNCHANGED <<inner, claims, lastId, registry>>
        /\ seen'[c] = IF Op(c) = "restore" THEN seen[c] ELSE r
    BY <1>7 DEF Check, StateTypes, storage
  <2>2. \/ Goto(c, "put") /\ Op(c) = "write"
        \/ Goto(c, "put") /\ Op(c) = "delete" /\ IsLive(r)
        \/ Goto(c, "put") /\ Op(c) = "restore" /\ r.tomb /\ r.id = seen[c].id
        \/ Goto(c, "erase") /\ Op(c) = "delete" /\ r = Nothing
        \/ Goto(c, "sweep")
        \/ Goto(c, "add")
        \/ Goto(c, "remove")
    BY <1>2, <1>7 DEF Check, DeleteDecides, RestoreDecides, ListDecides
  <2>3. ~Goto(c, "sweep")
    BY <1>5 DEF Labels, Locked
  <2>4. Op(c) = "restore" => seen[c].tomb BY <1>1, <2>1 DEF SeenAt
  <2>5. \/ todo' = todo /\ pc'[c] = "put" /\ Op(c) = "write"
        \/ todo' = todo /\ pc'[c] = "put" /\ Op(c) = "delete" /\ IsLive(r)
        \/ todo' = todo /\ pc'[c] = "put" /\ Op(c) = "restore" /\ r.tomb /\ r.id = seen[c].id
        \/ todo' = todo /\ pc'[c] = "erase" /\ Op(c) = "delete" /\ r = Nothing
    BY <1>4, <1>5, <2>2, <2>3 DEF Labels, Locked
  <2> QED BY <2>1, <2>4, <2>5 DEF IsLive, Nothing
<1>8. CASE Sweep(c)
  <2>1. /\ pc[c] = "sweep" /\ UNCHANGED <<inner, claims, lastId, registry>>
        /\ seen'[c] = IF r.tomb THEN seen[c] ELSE Nothing
        /\ r.tomb /\ r.id = seen[c].id /\ (Op(c) = "purge" \/ IsExpired(r)) /\ Goto(c, "erase")
    BY <1>2, <1>4, <1>8 DEF Sweep, AfterSweep, StateTypes, storage
  <2>2. todo' = todo /\ pc'[c] = "erase" BY <1>5, <2>1 DEF Labels, Locked
  <2>3. seen[c].tomb BY <1>1, <2>1 DEF SeenAt
  <2>4. Op(c) # "restore" \/ ~IsLive(r) BY <2>1 DEF IsLive
  <2>5. Op(c) = "delete" => IsExpired(r) BY <2>1
  <2> QED BY <2>1, <2>2, <2>3, <2>4, <2>5 DEF IsLive
<1>9. ~Snapshot(c) /\ ~LockKey(c) BY <1>2, <1>3
<1> QED BY <1>6, <1>7, <1>8, <1>9 DEF Proceed

\* What a step of a call does to the tombstones and to the record of their ends.
LEMMA FateEffect ==
    ASSUME StateTypes, JobsInv, SeenInv, NEW c \in Calls, Proceed(c) \/ Fail(c)
    PROVE  /\ \A k \in Keys : \/ inner'[k] = inner[k]
                              \/ ~inner'[k].tomb
                              \/ k = Key(c) /\ inner'[k].id = lastId + 1
           /\ \/ claims' = claims
              \/ /\ Ends(c) /\ claims' = claims \cup {[id |-> seen[c].id, by |-> c]}
                 /\ ~inner'[Key(c)].tomb
<1>1. SeenAt(c) /\ ~Nothing.tomb BY DEF SeenInv, Nothing
<1>2. \A k \in Keys : \/ inner'[k] = inner[k]
                      \/ ~inner'[k].tomb
                      \/ k = Key(c) /\ inner'[k].id = lastId + 1
  <2> SUFFICES ASSUME NEW k \in Keys, pc[c] = "put", k = Key(c), inner'[k] = Written(c),
                      inner' # inner
               PROVE  ~inner'[k].tomb \/ inner'[k].id = lastId + 1
    BY <1>1, InnerEffect
  <2>1. lastId' = IF Op(c) = "delete" THEN lastId + 1 ELSE lastId BY InnerEffect
  <2> QED BY <2>1, WrittenType
<1>3. CASE Put(c)
  <2>1. /\ pc[c] = "put" /\ inner' = [inner EXCEPT ![Key(c)] = Written(c)]
        /\ lastId' = IF Op(c) = "delete" THEN lastId + 1 ELSE lastId
        /\ claims' = claims \cup Claim(c)
    BY <1>3 DEF Put
  <2>2. CASE ~seen[c].tomb
    <3>1. Claim(c) = {} BY <2>2 DEF Claim
    <3> QED BY <1>2, <2>1, <3>1
  <2>3. CASE seen[c].tomb
    <3>1. Claim(c) = {[id |-> seen[c].id, by |-> c]} BY <2>3 DEF Claim
    <3>2. Op(c) # "delete" BY <1>1, <2>1, <2>3 DEF SeenAt, IsLive
    <3>3. ~Written(c).tomb /\ Key(c) \in Keys BY <2>1, <3>2, WrittenType, HeadJob
    <3> QED BY <1>2, <2>1, <2>3, <3>1, <3>3 DEF Ends, StateTypes
  <2> QED BY <2>2, <2>3
<1>4. CASE Erase(c)
  <2>1. /\ pc[c] = "erase" /\ inner' = [inner EXCEPT ![Key(c)] = Nothing]
        /\ claims' = claims \cup Claim(c)
    BY <1>4 DEF Erase
  <2>2. CASE ~seen[c].tomb
    <3>1. Claim(c) = {} BY <2>2 DEF Claim
    <3> QED BY <1>2, <2>1, <3>1
  <2>3. CASE seen[c].tomb
    <3>1. Claim(c) = {[id |-> seen[c].id, by |-> c]} BY <2>3 DEF Claim
    <3>2. Key(c) \in Keys BY <2>1, HeadJob
    <3> QED BY <1>1, <1>2, <2>1, <2>3, <3>1, <3>2 DEF Ends, StateTypes
  <2> QED BY <2>2, <2>3
<1>5. CASE ~(Put(c) \/ Erase(c))
  <2>1. claims' = claims
    BY <1>5
    DEF Proceed, Observe, LockKey, Check, Sweep, LoadRegistry, SaveRegistry, Commit, Clear,
        Snapshot, Fail, storage
  <2> QED BY <1>2, <2>1
<1> QED BY <1>3, <1>4, <1>5

\* The step of a call.
LEMMA FateStepOfCall ==
    ASSUME WellFormed, WellFormed', FateInv, NEW c \in Calls, Proceed(c) \/ Fail(c)
    PROVE  FateInv'
<1> USE DEF WellFormed
<1>t. /\ lastId \in Nat /\ Claimed \subseteq 1 .. lastId
      /\ \A k \in Keys : inner[k].tomb => inner[k].id \in 1 .. lastId
      /\ \A d \in Calls : seen[d].tomb => seen[d].id \in 1 .. lastId
  BY ContentFacts DEF StateTypes, Claimed
<1>n. \A i \in 1 .. lastId : i # lastId + 1 BY <1>t
<1>1. \A k \in Keys : \/ inner'[k] = inner[k]
                      \/ ~inner'[k].tomb
                      \/ k = Key(c) /\ inner'[k].id = lastId + 1
  BY FateEffect
<1>2. \A d \in Calls : d # c => /\ seen'[d] = seen[d]
                                /\ todo'[d] = todo[d] /\ pc'[d] = pc[d]
                                /\ Ends(d)' <=> Ends(d)
                                /\ Key(d)' = Key(d)
  <2>1. \A d \in Calls : d # c => /\ seen'[d] = seen[d]
                                  /\ todo'[d] = todo[d] /\ pc'[d] = pc[d]
    BY ControlEffect, CallEffect
  <2> QED BY <2>1 DEF Ends, Key
<1>3. Ends(c)' => /\ UNCHANGED <<inner, claims>> /\ Key(c)' = Key(c) /\ Key(c) \in Keys
                  /\ inner[Key(c)].tomb /\ inner[Key(c)].id = seen'[c].id
                  /\ keyLock'[Key(c)] = c
  <2> SUFFICES ASSUME Ends(c)'
               PROVE  /\ UNCHANGED <<inner, claims>> /\ Key(c)' = Key(c) /\ Key(c) \in Keys
                      /\ inner[Key(c)].tomb /\ inner[Key(c)].id = seen'[c].id
                      /\ keyLock'[Key(c)] = c
    OBVIOUS
  <2>1. pc'[c] \in {"put", "erase"} /\ seen'[c].tomb BY DEF Ends
  <2>2. /\ UNCHANGED <<inner, claims, todo>> /\ pc[c] \in {"check", "sweep"}
        /\ inner[Key(c)].tomb /\ inner[Key(c)].id = seen'[c].id
    BY <2>1, AboutToEnd
  <2>3. Key(c)' = Key(c) BY <2>2 DEF Key
  <2>4. Key(c) \in Keys BY <2>2, HeadJob
  <2>5. keyLock'[Key(c)] = c BY <2>1, <2>3 DEF LocksInv, LocksAt, Locked
  <2> QED BY <2>2, <2>3, <2>4, <2>5
<1>4. \/ claims' = claims
      \/ /\ Ends(c) /\ claims' = claims \cup {[id |-> seen[c].id, by |-> c]}
         /\ ~inner'[Key(c)].tomb
  BY FateEffect
<1>5. \/ claims' = claims /\ Claimed' = Claimed
      \/ /\ Ends(c) /\ claims' = claims \cup {[id |-> seen[c].id, by |-> c]}
         /\ ~inner'[Key(c)].tomb /\ Claimed' = Claimed \cup {seen[c].id} /\ ~Ends(c)'
  <2>1. CASE claims' = claims BY <2>1 DEF Claimed
  <2>2. CASE /\ Ends(c) /\ claims' = claims \cup {[id |-> seen[c].id, by |-> c]}
             /\ ~inner'[Key(c)].tomb
    <3>1. Claimed' = Claimed \cup {seen[c].id}
      <4> DEFINE new == [id |-> seen[c].id, by |-> c]
      <4>1. new.id = seen[c].id OBVIOUS
      <4> HIDE DEF new
      <4>2. claims' = claims \cup {new} BY <2>2 DEF new
      <4> QED BY <4>1, <4>2 DEF Claimed
    <3>2. ~Ends(c)' BY <1>3, <2>2
    <3> QED BY <2>2, <3>1, <3>2
  <2> QED BY <1>4, <2>1, <2>2
<1>6. \A d \in Calls : Ends(d) => keyLock[Key(d)] = d /\ Key(d) \in Keys
  BY HeadJob DEF LocksInv, LocksAt, Ends, Locked
<1>61. \A d \in Calls : Ends(d)' => keyLock'[Key(d)'] = d
  BY DEF LocksInv, LocksAt, Ends, Locked
<1>7. ASSUME NEW k \in Keys, inner'[k].tomb PROVE inner'[k].id \notin Claimed'
  <2>1. CASE inner'[k] = inner[k]
    <3>1. inner[k].id \notin Claimed BY <1>7, <2>1 DEF FateInv
    <3>2. Ends(c) /\ inner[k].id = seen[c].id => k = Key(c) BY <1>7, <2>1 DEF FateInv
    <3> QED BY <1>5, <1>7, <2>1, <3>1, <3>2
  <2>2. CASE k = Key(c) /\ inner'[k].id = lastId + 1
    BY <1>t, <1>n, <1>5, <1>7, <2>2
  <2> QED BY <1>1, <1>7, <2>1, <2>2
<1>8. ASSUME NEW k \in Keys, NEW l \in Keys, inner'[k].tomb, inner'[l].tomb,
             inner'[k].id = inner'[l].id
      PROVE  k = l
  <2>1. CASE inner'[k] = inner[k] /\ inner'[l] = inner[l] BY <1>8, <2>1 DEF FateInv
  <2>2. CASE inner'[k] = inner[k] /\ l = Key(c) /\ inner'[l].id = lastId + 1
    BY <1>t, <1>n, <1>8, <2>2
  <2>3. CASE inner'[l] = inner[l] /\ k = Key(c) /\ inner'[k].id = lastId + 1
    BY <1>t, <1>n, <1>8, <2>3
  <2> QED BY <1>1, <1>8, <2>1, <2>2, <2>3
<1>9. ASSUME NEW d \in Calls, Ends(d)' PROVE seen'[d].id \notin Claimed'
  <2>1. CASE d = c
    <3>1. Claimed' = Claimed BY <1>5, <1>9, <2>1
    <3> QED BY <1>3, <1>9, <2>1, <3>1 DEF FateInv
  <2>2. CASE d # c
    <3>1. Ends(d) /\ seen'[d] = seen[d] BY <1>2, <1>9, <2>2
    <3>2. seen[d].id \notin Claimed BY <3>1 DEF FateInv
    <3>3. Ends(c) => seen[d].id # seen[c].id BY <2>2, <3>1 DEF FateInv
    <3> QED BY <1>5, <3>1, <3>2, <3>3
  <2> QED BY <2>1, <2>2
<1>10. ASSUME NEW d \in Calls, NEW k \in Keys, Ends(d)', inner'[k].tomb,
              inner'[k].id = seen'[d].id
       PROVE  k = Key(d)'
  <2>1. CASE d = c
    BY <1>3, <1>10, <2>1 DEF FateInv
  <2>2. CASE d # c
    <3>1. Ends(d) /\ seen'[d] = seen[d] /\ Key(d)' = Key(d) BY <1>2, <1>10, <2>2
    <3>2. seen[d].id \in 1 .. lastId BY <1>t, <3>1 DEF Ends
    <3>3. inner'[k] = inner[k] BY <1>1, <1>n, <1>10, <3>1, <3>2
    <3> QED BY <1>10, <3>1, <3>3 DEF FateInv
  <2> QED BY <2>1, <2>2
<1>11. ASSUME NEW d \in Calls, NEW e \in Calls, Ends(d)', Ends(e)', seen'[d].id = seen'[e].id
       PROVE  d = e
  <2>1. ASSUME NEW x \in Calls, x # c, Ends(c)', Ends(x)', seen'[c].id = seen'[x].id PROVE FALSE
    <3>1. Ends(x) /\ seen'[x] = seen[x] /\ Key(x)' = Key(x) BY <1>2, <2>1
    <3>2. Key(c) = Key(x) BY <1>3, <2>1, <3>1 DEF FateInv
    <3>3. keyLock'[Key(c)] = c /\ keyLock'[Key(x)] = x BY <1>3, <1>61, <2>1, <3>1
    <3> QED BY <2>1, <3>2, <3>3
  <2>2. CASE d # c /\ e # c
    <3>1. Ends(d) /\ Ends(e) /\ seen'[d] = seen[d] /\ seen'[e] = seen[e]
      BY <1>2, <1>11, <2>2
    <3> QED BY <1>11, <3>1 DEF FateInv
  <2> QED BY <1>11, <2>1, <2>2
<1>12. OneFatePerTombstone'
  <2>1. CASE claims' = claims BY <2>1 DEF FateInv, OneFatePerTombstone
  <2>2. CASE Ends(c) /\ claims' = claims \cup {[id |-> seen[c].id, by |-> c]}
    <3>1. \A q \in claims : q.id # seen[c].id BY <2>2 DEF FateInv, Claimed
    <3> DEFINE new == [id |-> seen[c].id, by |-> c]
    <3>2. new.id = seen[c].id OBVIOUS
    <3> HIDE DEF new
    <3>3. claims' = claims \cup {new} BY <2>2 DEF new
    <3> QED BY <3>1, <3>2, <3>3 DEF FateInv, OneFatePerTombstone
  <2> QED BY <1>5, <2>1, <2>2
<1> QED BY <1>7, <1>8, <1>9, <1>10, <1>11, <1>12 DEF FateInv

LEMMA FateStep ==
    ASSUME WellFormed, WellFormed', FateInv, [Next]_vars PROVE FateInv'
<1>1. ASSUME NEW c \in Calls, Begin(c) PROVE FateInv'
  <2>1. /\ UNCHANGED <<inner, claims, seen>>
        /\ \A d \in Calls : d # c => todo'[d] = todo[d] /\ pc'[d] = pc[d]
        /\ pc'[c] \notin {"put", "erase"}
    BY <1>1, BeginEffect DEF WellFormed
  <2>2. /\ \A d \in Calls : Ends(d)' => d # c /\ Ends(d) /\ Key(d)' = Key(d)
        /\ Claimed' = Claimed
    BY <2>1 DEF Ends, Key, Claimed
  <2> QED BY <2>1, <2>2 DEF FateInv, OneFatePerTombstone
<1>2. CASE UNCHANGED <<inner, claims, seen, todo, pc>>
  BY <1>2 DEF FateInv, OneFatePerTombstone, Ends, Key, Claimed
<1> QED BY <1>1, <1>2, FateStepOfCall DEF Next, Terminated, Expire, vars, control, storage

LEMMA AlwaysFate == Spec => []FateInv
<1>1. Init => FateInv
  <2> SUFFICES ASSUME Init PROVE FateInv OBVIOUS
  <2>1. \A c \in Calls : pc[c] \notin {"put", "erase"} BY DEF Init
  <2>2. claims = {} BY DEF Init
  <2> QED BY <2>1, <2>2, Initially DEF FateInv, Ends, Claimed, OneFatePerTombstone
<1>2. WellFormed /\ WellFormed' /\ FateInv /\ [Next]_vars => FateInv' BY FateStep
<1> QED BY <1>1, <1>2, AlwaysWellFormed, PTL DEF Spec

\* A tombstone is restored, swept or overwritten by one call: two calls that race
\* for it cannot both have it, however they interleave and whatever fails.
THEOREM TombstonesEndOnce == Spec => []OneFatePerTombstone
<1>1. FateInv => OneFatePerTombstone BY DEF FateInv
<1> QED BY <1>1, AlwaysFate, PTL

----------------------------------------------------------------------------
(* tombstones are listed *)

\* While a call holds the lock of its key the others change what is there only by
\* a commit or a clear, which take no lock.
LEMMA OthersKeys ==
    ASSUME WellFormed, NEW c \in Calls, Proceed(c) \/ Fail(c),
           NEW k \in Keys, keyLock[k] # c
    PROVE  \/ inner'[k] = inner[k]
           \/ pc[c] \in {"commit", "clear"} /\ ~inner'[k].tomb
<1>1. pc[c] \in {"put", "erase"} => k # Key(c)
  BY DEF WellFormed, LocksInv, LocksAt, Locked
<1> QED BY <1>1, InnerEffect DEF WellFormed

\* The registry changes when it is saved and when everything is cleared.
LEMMA RegistryStep ==
    ASSUME WellFormed, NEW c \in Calls, Proceed(c) \/ Fail(c)
    PROVE  \/ registry' = registry
           \/ pc[c] = "saveAdd" /\ registry' = loaded[c] \cup {Key(c)} /\ inner' = inner
           \/ pc[c] = "saveRemove" /\ registry' = loaded[c] \ {Key(c)} /\ inner' = inner
           \/ pc[c] = "clear" /\ registry' = {} /\ \A k \in Keys : ~inner'[k].tomb
<1>1. ~Nothing.tomb BY DEF Nothing
<1>2. CASE SaveRegistry(c) BY <1>2 DEF SaveRegistry
<1>3. CASE Clear(c) BY <1>1, <1>3 DEF Clear
<1>4. CASE Fail(c) BY <1>1, <1>4 DEF Fail
<1>5. CASE \/ Observe(c) \/ LockKey(c) \/ Check(c) \/ Sweep(c) \/ Put(c) \/ Erase(c)
           \/ LoadRegistry(c) \/ Commit(c) \/ Snapshot(c)
  BY <1>5
  DEF Observe, LockKey, Check, Sweep, Put, Erase, LoadRegistry, Commit, Snapshot, storage
<1> QED BY <1>2, <1>3, <1>4, <1>5 DEF Proceed

\* The history of failed deletes changes at the end of a delete.
LEMMA UntrackedStep ==
    ASSUME WellFormed, NEW c \in Calls, Proceed(c) \/ Fail(c)
    PROVE  \/ untracked \subseteq untracked'
           \/ Finish(c) /\ Op(c) = "delete" /\ pc[c] \in Locked
              /\ untracked' = untracked \ {Key(c)}
<1>1. CASE Finish(c)
  <2>1. CASE Op(c) = "delete"
    <3>1. pc[c] \in Locked \/ pc[c] = "lock"
      BY <2>1, Transitions, HeadJob DEF WellFormed, StepOf, Locked
    <3>2. pc[c] # "lock"
      <4>1. pc[c] = "lock" => LockKey(c)
        BY <1>1
        DEF Proceed, Fail, Observe, Check, Sweep, Put, Erase, LoadRegistry, SaveRegistry,
            Commit, Clear, Snapshot
      <4>2. LockKey(c) => pc'[c] \in {"sweep", "check"} BY DEF LockKey, WellFormed, StateTypes
      <4>3. Between(c)' BY <1>1, BetweenJobs, Transitions DEF WellFormed
      <4> QED BY <4>1, <4>2, <4>3 DEF Between
    <3> QED BY <1>1, <2>1, <3>1, <3>2 DEF Finish
  <2> QED BY <1>1, <2>1 DEF Finish
<1>2. ASSUME NEW result, End(c, result) PROVE untracked \subseteq untracked'
  BY <1>2 DEF End
<1>3. ASSUME NEW next, Moves(c, next) PROVE untracked' = untracked
  BY <1>3 DEF Moves, Goto
<1>4. CASE LockKey(c) \/ LocksRegistry(c) \/ Snapshot(c)
  BY <1>4 DEF LockKey, LocksRegistry, Snapshot
<1> QED BY <1>1, <1>2, <1>3, <1>4, Transitions DEF WellFormed

\* What a call needs while it works on the registry is kept by the others.
LEMMA TidyOthers ==
    ASSUME WellFormed, NEW c \in Calls, Proceed(c) \/ Fail(c),
           NEW d \in Calls, d # c, TidyAt(d)
    PROVE  TidyAt(d)'
<1> USE DEF WellFormed
<1>1. /\ todo'[d] = todo[d] /\ pc'[d] = pc[d] /\ seen'[d] = seen[d] /\ loaded'[d] = loaded[d]
      /\ horizon' = horizon
  BY ControlEffect, CallEffect
<1>2. pc[d] \in Locked => /\ keyLock[Key(d)] # c /\ Key(d) \in Keys
                          /\ \/ inner'[Key(d)] = inner[Key(d)]
                             \/ ~inner'[Key(d)].tomb
  <2>1. pc[d] \in Locked => keyLock[Key(d)] = d /\ Key(d) \in Keys
    BY HeadJob DEF LocksInv, LocksAt, Locked
  <2> QED BY <2>1, OthersKeys
<1>3. pc[d] \in {"saveAdd", "saveRemove"} => registry' = registry \/ registry' = {}
  <2>1. pc[d] \in {"saveAdd", "saveRemove"} => pc[c] \notin {"saveAdd", "saveRemove"}
    BY DEF LocksInv, LocksAt
  <2> QED BY <2>1, RegistryStep
<1> QED BY <1>1, <1>2, <1>3 DEF TidyAt, Key, Op, IsExpired, Locked

LEMMA TidyOwn ==
    ASSUME WellFormed, NEW c \in Calls, Proceed(c) \/ Fail(c), TidyAt(c)
    PROVE  TidyAt(c)'
<1> USE DEF WellFormed
<1>1. pc[c] \notin {"idle", "done"} /\ SeenAt(c) /\ StepOf(Op(c), pc[c])
  BY Transitions, HeadJob DEF SeenInv
<1>k. pc[c] \in Locked => Key(c) \in Keys BY HeadJob DEF Locked
<1>2. ASSUME pc'[c] \notin {"remove", "saveAdd", "saveRemove", "sweep"} PROVE TidyAt(c)'
  BY <1>2 DEF TidyAt
<1>3. CASE \/ Finish(c)
           \/ \E result : End(c, result)
           \/ Snapshot(c)
  <2>1. Between(c)' BY <1>1, <1>3, BetweenJobs
  <2> QED BY <1>2, <2>1 DEF Between
<1>4. ASSUME NEW next \in Labels, Goto(c, next)
      PROVE  pc'[c] = next /\ Op(c)' = Op(c) /\ Key(c)' = Key(c)
  BY <1>4, GotoEffect DEF Op, Key
<1>5. ASSUME NEW next \in {"lock", "put", "erase", "add"}, Goto(c, next) PROVE TidyAt(c)'
  BY <1>2, <1>4, <1>5 DEF Labels, Locked
<1>6. ASSUME Goto(c, "remove"), ~inner'[Key(c)].tomb PROVE TidyAt(c)'
  BY <1>4, <1>6 DEF TidyAt, Labels, Locked
<1>7. CASE Observe(c) BY <1>3, <1>5, <1>7 DEF Observe
<1>8. CASE LockKey(c)
  <2>1. /\ todo' = todo
        /\ pc'[c] = IF Op(c) = "read" \/ (Op(c) = "purge" /\ seen[c].tomb)
                    THEN "sweep" ELSE "check"
    BY <1>8 DEF LockKey, StateTypes
  <2>2. Op(c)' = Op(c) BY <2>1 DEF Op
  <2> QED BY <2>1, <2>2 DEF TidyAt
<1>9. CASE Check(c)
  <2> DEFINE r == inner[Key(c)]
  <2>1. /\ inner' = inner /\ horizon' = horizon
        /\ Op(c) = "delete" => seen'[c] = r
    BY <1>9 DEF Check, StateTypes, storage
  <2>2. CASE Goto(c, "remove") /\ ~r.tomb BY <1>6, <2>1, <2>2
  <2>3. CASE Goto(c, "sweep") /\ (Op(c) = "delete" => IsExpired(r))
    <3>1. pc'[c] = "sweep" /\ Op(c)' = Op(c) /\ Key(c)' = Key(c)
      BY <1>4, <2>3 DEF Labels, Locked
    <3>2. Op(c) = "delete" => IsExpired(seen[c])' BY <2>1, <2>3 DEF IsExpired
    <3> QED BY <2>1, <3>1, <3>2 DEF TidyAt
  <2> QED
    BY <1>3, <1>5, <1>9, <2>2, <2>3 DEF Check, DeleteDecides, RestoreDecides, ListDecides
<1>10. CASE Sweep(c)
  <2>1. inner' = inner BY <1>10 DEF Sweep, storage
  <2> QED BY <1>3, <1>5, <1>6, <1>10, <2>1 DEF Sweep, AfterSweep
<1>11. CASE Put(c)
  <2>1. pc[c] = "put" /\ inner' = [inner EXCEPT ![Key(c)] = Written(c)]
        /\ lastId' = IF Op(c) = "delete" THEN lastId + 1 ELSE lastId
    BY <1>11 DEF Put
  <2>2. Op(c) # "delete" => ~inner'[Key(c)].tomb
    BY <1>k, <2>1, WrittenType DEF StateTypes, Locked
  <2> QED BY <1>3, <1>5, <1>6, <1>11, <2>2 DEF Put
<1>12. CASE Erase(c)
  <2>1. pc[c] = "erase" /\ inner' = [inner EXCEPT ![Key(c)] = Nothing]
    BY <1>12 DEF Erase
  <2>2. ~inner'[Key(c)].tomb BY <1>k, <2>1 DEF StateTypes, Locked, Nothing
  <2> QED BY <1>3, <1>6, <1>12, <2>2 DEF Erase
<1>13. CASE LoadRegistry(c)
  <2>1. CASE AfterRegistry(c) BY <1>3, <2>1 DEF AfterRegistry
  <2>2. CASE LocksRegistry(c)
    <3>1. /\ UNCHANGED <<inner, registry>> /\ loaded'[c] = registry
      BY <1>13 DEF LoadRegistry, storage, StateTypes
    <3>2. /\ todo' = todo /\ pc[c] \in {"add", "remove"}
          /\ pc'[c] = IF pc[c] = "add" THEN "saveAdd" ELSE "saveRemove"
      BY <2>2 DEF LocksRegistry, StateTypes
    <3>3. Key(c)' = Key(c) BY <3>2 DEF Key
    <3>4. pc'[c] = "saveRemove" => ~inner[Key(c)].tomb
      <4>1. pc'[c] = "saveRemove" => pc[c] = "remove"
        <5>1. CASE pc[c] = "add" BY <3>2, <5>1
        <5>2. CASE pc[c] = "remove" BY <5>2
        <5> QED BY <3>2, <5>1, <5>2
      <4> QED BY <4>1 DEF TidyAt
    <3> QED BY <3>1, <3>2, <3>3, <3>4 DEF TidyAt
  <2> QED BY <1>13, <2>1, <2>2 DEF LoadRegistry, LocksRegistry
<1>14. CASE SaveRegistry(c) BY <1>3, <1>14 DEF SaveRegistry, AfterRegistry
<1>15. CASE Commit(c) BY <1>5, <1>15 DEF Commit
<1>16. CASE Clear(c) \/ Fail(c) BY <1>3, <1>16 DEF Clear, Fail
<1>17. CASE Snapshot(c) BY <1>3, <1>17
<1> QED
  BY <1>7, <1>8, <1>9, <1>10, <1>11, <1>12, <1>13, <1>14, <1>15, <1>16, <1>17 DEF Proceed

\* A call does not lose the entries of keys that it is not at work on.
LEMMA ListedElsewhere ==
    ASSUME WellFormed, NEW c \in Calls, Proceed(c) \/ Fail(c), TidyAt(c),
           NEW k \in Keys, ListedAt(k), keyLock[k] # c
    PROVE  ListedAt(k)'
<1> USE DEF WellFormed
<1> SUFFICES ASSUME inner'[k].tomb, k \notin untracked'
             PROVE  k \in registry' \/ Adding(k)'
  BY DEF ListedAt
<1>1. inner[k].tomb BY OthersKeys
<1>2. pc[c] \in Locked => k # Key(c) BY DEF LocksInv, LocksAt
<1>3. k \notin untracked BY <1>2, UntrackedStep
<1>4. CASE k \in registry
  BY <1>2, <1>4, RegistryStep DEF TidyAt, Locked
<1>5. CASE Adding(k)
  <2>1. PICK d \in Calls : keyLock[k] = d BY <1>5 DEF Adding, StateTypes
  <2>2. d # c /\ pc[d] \in {"add", "saveAdd"} BY <1>5, <2>1 DEF Adding
  <2>3. keyLock'[k] = d /\ pc'[d] = pc[d] BY <2>1, <2>2, OthersLocks, ControlEffect
  <2> QED BY <2>1, <2>2, <2>3 DEF Adding
<1> QED BY <1>1, <1>3, <1>4, <1>5 DEF ListedAt

\* A call that is at work on a key leaves its tombstone listed.
LEMMA ListedHere ==
    ASSUME WellFormed, NEW c \in Calls, Proceed(c) \/ Fail(c), TidyAt(c),
           NEW k \in Keys, ListedAt(k), keyLock[k] = c
    PROVE  ListedAt(k)'
<1> USE DEF WellFormed
<1>1. /\ pc[c] \in Locked /\ Key(c) = k /\ StepOf(Op(c), pc[c])
      /\ Adding(k) <=> pc[c] \in {"add", "saveAdd"}
  BY HeadJob DEF LocksInv, LocksAt, Locked, Adding
<1> SUFFICES ASSUME inner'[k].tomb, k \notin untracked'
             PROVE  k \in registry' \/ Adding(k)'
  BY DEF ListedAt
\* A step that goes on with the lock has something to say if it is to add.
<1>2. ASSUME Goto(c, "add") PROVE Adding(k)'
  <2>1. pc'[c] = "add" /\ keyLock' = keyLock
    BY <1>2, GotoEffect DEF Labels, Locked, locks
  <2> QED BY <2>1 DEF Adding
<1>3. ASSUME inner' = inner, registry' = registry, pc[c] \notin {"add", "saveAdd"},
             untracked \subseteq untracked'
      PROVE  k \in registry'
  BY <1>1, <1>3 DEF ListedAt
<1>4. ASSUME NEW next, Goto(c, next) PROVE untracked' = untracked BY <1>4 DEF Goto
<1>5. ASSUME NEW result, End(c, result) PROVE untracked \subseteq untracked' BY <1>5 DEF End
<1>6. Finish(c) /\ Op(c) # "delete" => untracked' = untracked BY DEF Finish
<1>7. CASE Observe(c) \/ LockKey(c) \/ Commit(c) \/ Clear(c) \/ Snapshot(c)
  BY <1>1, <1>7 DEF Observe, LockKey, Commit, Clear, Snapshot, Locked
<1>8. CASE Check(c)
  <2>1. pc[c] = "check" /\ inner' = inner /\ registry' = registry
    BY <1>8 DEF Check, storage
  <2>2. untracked \subseteq untracked' \/ Goto(c, "add")
    BY <1>4, <1>5, <1>6, <1>8 DEF Check, DeleteDecides, RestoreDecides, ListDecides
  <2> QED BY <1>2, <1>3, <2>1, <2>2
<1>9. CASE Sweep(c)
  <2>1. pc[c] = "sweep" /\ inner' = inner /\ registry' = registry
    BY <1>9 DEF Sweep, storage
  <2>2. ~(AfterSweep(c) /\ Op(c) = "delete")
    <3> SUFFICES ASSUME AfterSweep(c), Op(c) = "delete" PROVE FALSE OBVIOUS
    <3>1. Between(c)' BY <1>1, BetweenJobs DEF AfterSweep, Locked
    <3>2. ~Goto(c, "remove") /\ ~Goto(c, "erase")
      BY <3>1, GotoEffect DEF Between, Labels, Locked
    <3>3. inner[k].id = seen[c].id /\ IsExpired(seen[c]) BY <1>1, <2>1 DEF TidyAt
    <3>4. IsExpired(inner[k]) BY <3>3 DEF IsExpired
    <3>5. inner[k].id # seen[c].id \/ ~IsExpired(inner[k]) BY <1>1, <1>9, <3>2 DEF Sweep
    <3> QED BY <3>3, <3>4, <3>5
  <2>3. AfterSweep(c) => untracked \subseteq untracked'
    BY <1>5, <1>6, <2>2 DEF AfterSweep
  <2>4. untracked \subseteq untracked' BY <1>4, <1>9, <2>3 DEF Sweep
  <2> QED BY <1>3, <2>1, <2>4
<1>10. CASE Put(c)
  <2>1. pc[c] = "put" /\ inner' = [inner EXCEPT ![k] = Written(c)]
        /\ lastId' = IF Op(c) = "delete" THEN lastId + 1 ELSE lastId
    BY <1>1, <1>10 DEF Put
  <2>2. Op(c) = "delete" BY <2>1, WrittenType DEF StateTypes
  <2> QED BY <1>2, <1>10, <2>2 DEF Put
<1>11. CASE Erase(c)
  BY <1>1, <1>11 DEF Erase, StateTypes, Nothing
<1>12. CASE LoadRegistry(c)
  <2>1. inner' = inner /\ registry' = registry BY <1>12 DEF LoadRegistry, storage
  <2>2. CASE LocksRegistry(c)
    <3>1. /\ pc'[c] = IF pc[c] = "add" THEN "saveAdd" ELSE "saveRemove"
          /\ keyLock' = keyLock /\ untracked' = untracked
      BY <2>2 DEF LocksRegistry, StateTypes
    <3>2. pc[c] = "add" => Adding(k)' BY <3>1 DEF Adding
    <3>3. pc[c] = "remove" => k \in registry' BY <1>3, <2>1, <3>1
    <3> QED BY <2>2, <3>2, <3>3 DEF LocksRegistry
  <2>3. CASE Registered(c)
    <3>1. pc[c] = "remove" => ~inner[k].tomb BY <1>1 DEF TidyAt
    <3> QED BY <1>1, <2>1, <2>3, <3>1 DEF Registered
  <2> QED BY <1>12, <2>2, <2>3 DEF LoadRegistry, LocksRegistry
<1>13. CASE SaveRegistry(c)
  <2>1. inner' = inner /\ pc[c] \in {"saveAdd", "saveRemove"} BY <1>13 DEF SaveRegistry
  <2>2. pc[c] = "saveRemove" => ~inner[k].tomb BY <1>1 DEF TidyAt
  <2>3. pc[c] = "saveAdd" => registry' = loaded[c] \cup {k} BY <1>1, <1>13 DEF SaveRegistry
  <2> QED BY <2>1, <2>2, <2>3
<1>14. CASE Fail(c)
  <2>1. End(c, "error") BY <1>14 DEF Fail
  <2>2. ~(Op(c) = "delete" /\ pc[c] \in {"put", "add", "saveAdd"})
    BY <1>1, <2>1 DEF End
  <2>3. pc[c] \notin {"add", "saveAdd"} BY <1>1, <2>2 DEF StepOf
  <2>4. inner[k].tomb
    <3>1. pc[c] = "put" /\ inner'[k] = Written(c) /\ inner' # inner => ~inner'[k].tomb
      <4>1. pc[c] = "put" /\ inner' # inner =>
               lastId' = IF Op(c) = "delete" THEN lastId + 1 ELSE lastId
        BY InnerEffect
      <4> QED BY <2>2, <4>1, WrittenType
    <3>2. ~Nothing.tomb BY DEF Nothing
    <3> QED BY <1>1, <3>1, <3>2, InnerEffect
  <2>5. k \in registry BY <1>1, <1>5, <2>1, <2>3, <2>4 DEF ListedAt
  <2>6. pc[c] = "saveRemove" => ~inner[k].tomb BY <1>1 DEF TidyAt
  <2>7. pc[c] # "clear" BY <1>1 DEF Locked
  <2> QED BY <2>3, <2>4, <2>5, <2>6, <2>7, RegistryStep
<1> QED BY <1>7, <1>8, <1>9, <1>10, <1>11, <1>12, <1>13, <1>14 DEF Proceed

LEMMA ListedStep ==
    ASSUME WellFormed, ListedInv, [Next]_vars PROVE ListedInv'
<1> USE DEF WellFormed
<1>1. ASSUME NEW c \in Calls, Proceed(c) \/ Fail(c) PROVE ListedInv'
  <2>1. ASSUME NEW k \in Keys PROVE ListedAt(k)'
    BY <1>1, ListedElsewhere, ListedHere DEF ListedInv
  <2>2. ASSUME NEW d \in Calls PROVE TidyAt(d)'
    BY <1>1, TidyOthers, TidyOwn DEF ListedInv
  <2> QED BY <2>1, <2>2 DEF ListedInv
<1>2. ASSUME NEW c \in Calls, Begin(c) PROVE ListedInv'
  <2>1. /\ UNCHANGED <<inner, registry, untracked, keyLock, horizon, seen, loaded>>
        /\ \A d \in Calls : d # c => todo'[d] = todo[d] /\ pc'[d] = pc[d]
        /\ pc[c] = "idle"
        /\ pc'[c] \in {"observe", "lock", "commit", "clear", "snapshot"}
    BY <1>2, BeginEffect
  <2>2. ASSUME NEW k \in Keys PROVE ListedAt(k)'
    <3>1. Adding(k) => Adding(k)'
      <4> SUFFICES ASSUME Adding(k) PROVE Adding(k)' OBVIOUS
      <4>1. PICK d \in Calls : keyLock[k] = d BY DEF Adding, StateTypes
      <4>2. pc[d] \in {"add", "saveAdd"} BY <4>1 DEF Adding
      <4>3. pc'[d] = pc[d] /\ keyLock'[k] = d BY <2>1, <4>1, <4>2
      <4> QED BY <4>1, <4>2, <4>3 DEF Adding
    <3> QED BY <2>1, <3>1 DEF ListedInv, ListedAt
  <2>3. ASSUME NEW d \in Calls PROVE TidyAt(d)'
    <3>1. CASE d = c BY <2>1, <3>1 DEF TidyAt
    <3>2. CASE d # c BY <2>1, <3>2 DEF ListedInv, TidyAt, Key, Op, IsExpired
    <3> QED BY <3>1, <3>2
  <2> QED BY <2>2, <2>3 DEF ListedInv
<1>3. CASE Expire
  <2>1. /\ UNCHANGED <<inner, registry, untracked, keyLock, seen, loaded, todo, pc>>
        /\ horizon' = horizon + 1
    BY <1>3 DEF Expire, storage, control
  <2>2. \A d \in Calls : IsExpired(seen[d]) => IsExpired(seen[d])'
    <3> SUFFICES ASSUME NEW d \in Calls, seen[d].id <= horizon
                 PROVE  seen[d].id <= horizon + 1
      BY <2>1 DEF IsExpired
    <3>1. horizon \in Nat BY DEF StateTypes
    <3>2. seen[d].id \in Nat
      <4>1. \A r \in Contents : r.id \in Nat
        BY DEF Contents, Nothing, Live, Tombstone, StateTypes
      <4> QED BY <4>1 DEF StateTypes
    <3> QED BY <3>1, <3>2
  <2> QED BY <2>1, <2>2 DEF ListedInv, ListedAt, TidyAt, Adding, Key, Op
<1>4. CASE UNCHANGED vars
  BY <1>4 DEF vars, ListedInv, ListedAt, TidyAt, Adding, Key, Op, IsExpired
<1> QED BY <1>1, <1>2, <1>3, <1>4 DEF Next, Terminated

LEMMA AlwaysListed == Spec => []ListedInv
<1>1. Init => ListedInv
  <2> SUFFICES ASSUME Init PROVE ListedInv OBVIOUS
  <2>1. \A c \in Calls : pc[c] \notin {"remove", "saveRemove", "saveAdd", "sweep"} BY DEF Init
  <2> QED BY <2>1, Initially DEF ListedInv, ListedAt, TidyAt
<1>2. WellFormed /\ ListedInv /\ [Next]_vars => ListedInv' BY ListedStep
<1> QED BY <1>1, <1>2, AlwaysWellFormed, PTL DEF Spec

\* A tombstone whose key nobody works on is listed in the registry, except where a
\* delete has failed after it has written the tombstone and has not succeeded
\* since: whatever else fails, whoever clears or streams beside it, the registry
\* forgets no tombstone.
THEOREM RegistryForgetsNothing == Spec => []TombstonesAreListed
<1>1. ListedInv => TombstonesAreListed
  BY DEF ListedInv, ListedAt, Adding, TombstonesAreListed
<1> QED BY <1>1, AlwaysListed, PTL

----------------------------------------------------------------------------
(* what holds where nobody streams *)

\* Without streams and clears a call changes the key that it has locked.
LEMMA OnlyUnderLocks ==
    ASSUME WellFormed, NEW c \in Calls, Proceed(c) \/ Fail(c)
    PROVE  /\ Streamless' <=> Streamless
           /\ Clearless' <=> Clearless
           /\ Faulty' = Faulty
           /\ Streamless => pc[c] # "commit"
           /\ Clearless => pc[c] # "clear"
<1> USE DEF WellFormed
<1>1. plan' = plan BY CallEffect
<1>2. /\ StepOf(Op(c), pc[c]) /\ Asked(c, Head(todo[c])) BY Transitions, HeadJob
<1>3. pc[c] = "commit" => Plan(c).kind = "setStream" BY <1>2 DEF StepOf, Asked, Op, KeyOps
<1>4. pc[c] = "clear" => Plan(c).kind = "clear" BY <1>2 DEF StepOf, Asked, Op, KeyOps
<1> QED BY <1>1, <1>3, <1>4 DEF Streamless, Clearless, Plan, Faulty

\* While a call is about to write or to erase, the others only clear its key.
LEMMA OthersLeave ==
    ASSUME WellFormed, NEW c \in Calls, Proceed(c) \/ Fail(c), Streamless,
           NEW d \in Calls, d # c, pc[d] \in Locked
    PROVE  /\ \/ inner'[Key(d)] = inner[Key(d)]
              \/ inner'[Key(d)] = Nothing /\ pc[c] = "clear"
           /\ pc'[d] = pc[d] /\ Op(d)' = Op(d) /\ Key(d)' = Key(d) /\ seen'[d] = seen[d]
           /\ loaded'[d] = loaded[d]
           /\ Key(d) \in Keys
<1> USE DEF WellFormed
<1>1. keyLock[Key(d)] = d /\ Key(d) \in Keys BY HeadJob DEF LocksInv, LocksAt, Locked
<1>2. \/ inner'[Key(d)] = inner[Key(d)]
      \/ pc[c] = "clear" /\ inner' # inner
  BY <1>1, OthersKeys, OnlyUnderLocks
<1>3. pc[c] = "clear" /\ inner' # inner => inner'[Key(d)] = Nothing
  BY <1>1, InnerStep
<1>4. /\ pc'[d] = pc[d] /\ todo'[d] = todo[d] /\ seen'[d] = seen[d] /\ loaded'[d] = loaded[d]
  BY ControlEffect, CallEffect
<1> QED BY <1>1, <1>2, <1>3, <1>4 DEF Op, Key

LEMMA KeptStep ==
    ASSUME WellFormed, KeptInv, [Next]_vars PROVE KeptInv'
<1> USE DEF WellFormed
<1>n. ~IsLive(Nothing) BY DEF IsLive
<1>1. ASSUME NEW c \in Calls, Proceed(c) \/ Fail(c) PROVE KeptInv'
  <2> SUFFICES ASSUME Streamless', NEW d \in Calls,
                      (pc[d] = "erase" \/ (pc[d] = "put" /\ Op(d) = "restore"))'
               PROVE  ~IsLive(inner[Key(d)])'
    BY DEF KeptInv
  <2>1. Streamless BY <1>1, OnlyUnderLocks
  <2>2. CASE d = c
    <3>1. /\ inner' = inner /\ todo' = todo /\ pc'[c] \in {"put", "erase"}
          /\ pc'[c] = "erase" => ~IsLive(inner[Key(c)])
          /\ Op(c) = "restore" => ~IsLive(inner[Key(c)])
      BY <1>1, <2>2, AboutToEnd
    <3> QED BY <2>2, <3>1 DEF Op, Key, IsLive
  <2>3. CASE d # c
    <3>1. pc'[d] = pc[d] BY <1>1, <2>3, ControlEffect
    <3>2. pc[d] \in Locked BY <3>1 DEF Locked
    <3>3. /\ Op(d)' = Op(d) /\ Key(d)' = Key(d)
          /\ inner'[Key(d)] = inner[Key(d)] \/ inner'[Key(d)] = Nothing
      BY <1>1, <2>1, <2>3, <3>2, OthersLeave
    <3>4. ~IsLive(inner[Key(d)]) BY <2>1, <3>1, <3>3 DEF KeptInv
    <3> QED BY <1>n, <3>3, <3>4 DEF IsLive, Nothing
  <2> QED BY <2>2, <2>3
<1>2. ASSUME NEW c \in Calls, Begin(c) PROVE KeptInv'
  <2>1. /\ UNCHANGED <<plan, inner>>
        /\ \A d \in Calls : d # c => todo'[d] = todo[d] /\ pc'[d] = pc[d]
        /\ pc'[c] \notin {"put", "erase"}
    BY <1>2, BeginEffect
  <2> QED BY <2>1 DEF KeptInv, Streamless, Plan, Op, Key, IsLive
<1>3. CASE UNCHANGED <<plan, inner, todo, pc>>
  BY <1>3 DEF KeptInv, Streamless, Plan, Op, Key, IsLive
<1> QED BY <1>1, <1>2, <1>3 DEF Next, Terminated, Expire, vars, control, storage

LEMMA SureStep ==
    ASSUME WellFormed, SureInv, [Next]_vars PROVE SureInv'
<1> USE DEF WellFormed
<1>1. ASSUME NEW c \in Calls, Proceed(c) \/ Fail(c) PROVE SureInv'
  <2> SUFFICES ASSUME Streamless', Clearless', NEW d \in Calls, (pc[d] \in {"put", "erase"})'
               PROVE  (seen[d].tomb <=> inner[Key(d)].tomb)'
    BY DEF SureInv
  <2>1. Streamless /\ Clearless /\ pc[c] # "clear" BY <1>1, OnlyUnderLocks
  <2>2. CASE d = c
    <3>1. inner' = inner /\ todo' = todo /\ (seen'[c].tomb <=> inner[Key(c)].tomb)
      BY <1>1, <2>2, AboutToEnd
    <3> QED BY <2>2, <3>1 DEF Key
  <2>3. CASE d # c
    <3>1. pc'[d] = pc[d] BY <1>1, <2>3, ControlEffect
    <3>2. pc[d] \in Locked BY <3>1 DEF Locked
    <3>3. /\ Key(d)' = Key(d) /\ seen'[d] = seen[d] /\ inner'[Key(d)] = inner[Key(d)]
      BY <1>1, <2>1, <2>3, <3>2, OthersLeave
    <3> QED BY <2>1, <3>1, <3>3 DEF SureInv
  <2> QED BY <2>2, <2>3
<1>2. ASSUME NEW c \in Calls, Begin(c) PROVE SureInv'
  <2>1. /\ UNCHANGED <<plan, inner, seen>>
        /\ \A d \in Calls : d # c => todo'[d] = todo[d] /\ pc'[d] = pc[d]
        /\ pc'[c] \notin {"put", "erase"}
    BY <1>2, BeginEffect
  <2> QED BY <2>1 DEF SureInv, Streamless, Clearless, Plan, Key
<1>3. CASE UNCHANGED <<plan, inner, seen, todo, pc>>
  BY <1>3 DEF SureInv, Streamless, Clearless, Plan, Key
<1> QED BY <1>1, <1>2, <1>3 DEF Next, Terminated, Expire, vars, control, storage

LEMMA AlwaysKept == Spec => []KeptInv
<1>1. Init => KeptInv BY DEF Init, KeptInv
<1>2. WellFormed /\ KeptInv /\ [Next]_vars => KeptInv' BY KeptStep
<1> QED BY <1>1, <1>2, AlwaysWellFormed, PTL DEF Spec

LEMMA AlwaysSure == Spec => []SureInv
<1>1. Init => SureInv BY DEF Init, SureInv
<1>2. WellFormed /\ SureInv /\ [Next]_vars => SureInv' BY SureStep
<1> QED BY <1>1, <1>2, AlwaysWellFormed, PTL DEF Spec

\* A call moves on as it writes, erases or clears.
LEMMA MovesOn ==
    ASSUME WellFormed, NEW c \in Calls, Proceed(c) \/ Fail(c),
           pc[c] \in {"put", "erase", "clear"}
    PROVE  pc'[c] # pc[c]
<1> USE DEF WellFormed
<1>1. CASE pc[c] \in {"put", "erase"}
  BY <1>1, AboutToEnd
<1>2. CASE pc[c] = "clear"
  <2>1. Clear(c) \/ Fail(c)
    BY <1>2
    DEF Proceed, Observe, LockKey, Check, Sweep, Put, Erase, LoadRegistry, SaveRegistry,
        Commit, Snapshot
  <2>2. Fail(c) => pc'[c] = "done" BY EndEffect DEF Fail
  <2>3. ASSUME Finish(c) PROVE pc'[c] # "clear"
    <3>1. CASE Len(todo[c]) = 1 BY <1>2, <2>3, <3>1, FinishEffect
    <3>2. CASE Len(todo[c]) # 1
      <4>1. /\ pc'[c] = FirstStep(todo[c][2].op) /\ todo[c][2] \in JobSet /\ Len(todo[c]) > 1
        BY <1>2, <2>3, <3>2, FinishEffect
      <4>2. 2 \in DOMAIN todo[c] /\ 2 > 1 BY <1>2, <4>1, HeadJob
      <4>3. todo[c][2].op \in KeyOps BY <4>2 DEF JobsInv, JobsAt, Fed
      <4> QED BY <4>1, <4>3 DEF FirstStep, KeyOps
    <3> QED BY <3>1, <3>2
  <2> QED BY <1>2, <2>1, <2>2, <2>3 DEF Clear
<1> QED BY <1>1, <1>2

\* A value is changed by the calls of the pipeline on its key and by nobody else:
\* restore, purge, listTombstones and the sweep of expired tombstones leave it
\* alone, whatever they race with.  A stream that commits beside them is left
\* out: it takes no lock, and a purge can erase what it has written.
THEOREM ValuesAreKept ==
    ASSUME \A p \in Plans : \A c \in Calls : p.request[c].kind # "setStream"
    PROVE  Spec => LiveValuesAreKept
<1> DEFINE Step ==
       \A k \in Keys : IsLive(inner[k]) /\ inner'[k] # inner[k] =>
          \E c \in Calls : /\ Plan(c).kind \in Pipeline /\ k \in KeysOf(c)
                           /\ pc[c] \in {"put", "commit", "clear"} /\ pc'[c] # pc[c]
<1>1. ASSUME WellFormed, KeptInv, Next PROVE Step
  <2> SUFFICES ASSUME NEW k \in Keys, IsLive(inner[k]), inner'[k] # inner[k]
               PROVE  \E c \in Calls :
                         /\ Plan(c).kind \in Pipeline /\ k \in KeysOf(c)
                         /\ pc[c] \in {"put", "commit", "clear"} /\ pc'[c] # pc[c]
    OBVIOUS
  <2>1. Streamless BY <1>1 DEF WellFormed, StateTypes, Streamless, Plan
  <2>2. PICK c \in Calls : Proceed(c) \/ Fail(c)
    <3>1. \A c \in Calls : Begin(c) => inner' = inner BY DEF Begin, storage
    <3>2. Expire \/ Terminated => inner' = inner BY DEF Expire, Terminated, storage, vars
    <3> QED BY <1>1, <3>1, <3>2 DEF Next
  <2>3. Asked(c, Head(todo[c])) /\ StepOf(Op(c), pc[c])
    BY <1>1, <2>2, Transitions, HeadJob DEF WellFormed
  <2>4. pc[c] # "commit" BY <1>1, <2>1, <2>2, OnlyUnderLocks
  <2>5. CASE pc[c] \in {"put", "erase"} /\ k = Key(c)
    <3>1. ~(pc[c] = "erase" \/ (pc[c] = "put" /\ Op(c) = "restore"))
      BY <1>1, <2>1, <2>5 DEF KeptInv
    <3>2. pc[c] = "put" /\ Op(c) \in {"write", "delete"} BY <2>3, <2>5, <3>1 DEF StepOf
    <3>3. Plan(c).kind \in Pipeline /\ k \in KeysOf(c)
      BY <2>3, <2>5, <3>2 DEF Asked, Op, Key
    <3> QED BY <1>1, <2>2, <3>2, <3>3, MovesOn
  <2>6. CASE pc[c] = "clear"
    <3>1. Plan(c).kind = "clear" BY <2>3, <2>6 DEF StepOf, Asked, Op, KeyOps
    <3>2. Plan(c).kind \in Pipeline /\ k \in KeysOf(c) BY <3>1 DEF Pipeline, Transfers, KeysOf
    <3> QED BY <1>1, <2>2, <2>6, <3>2, MovesOn
  <2> QED BY <1>1, <2>2, <2>4, <2>5, <2>6, InnerEffect DEF WellFormed
<1>2. WellFormed /\ KeptInv /\ [Next]_vars => [Step]_vars BY <1>1
<1>3. Spec => [][Step]_vars BY <1>2, AlwaysWellFormed, AlwaysKept, PTL DEF Spec
<1> QED BY <1>3 DEF LiveValuesAreKept

\* What maintenance removes is a tombstone, and what purge says to have removed is
\* what it has removed.  A clear is left out too: it takes no lock either, and a
\* purge counts the tombstone that a clear has removed under its hands.
THEOREM PurgesAreTrue ==
    ASSUME \A p \in Plans : \A c \in Calls : p.request[c].kind \notin {"setStream", "clear"}
    PROVE  Spec => OnlyTombstonesArePurged
<1> DEFINE Step ==
       \A c \in Calls : count'[c] # count[c] =>
          inner[Key(c)].tomb /\ inner'[Key(c)] = Nothing
<1>1. ASSUME WellFormed, SureInv, Next PROVE Step
  <2> SUFFICES ASSUME NEW d \in Calls, count'[d] # count[d]
               PROVE  inner[Key(d)].tomb /\ inner'[Key(d)] = Nothing
    OBVIOUS
  <2>1. Streamless /\ Clearless
    BY <1>1 DEF WellFormed, StateTypes, Streamless, Clearless, Plan
  <2>2. PICK c \in Calls : Proceed(c) \/ Fail(c)
    <3>1. \A c \in Calls : Begin(c) => count' = count BY DEF Begin, results
    <3>2. Expire \/ Terminated => count' = count BY DEF Expire, Terminated, vars
    <3> QED BY <1>1, <3>1, <3>2 DEF Next
  <2>3. d = c BY <1>1, <2>2, CallEffect DEF WellFormed
  <2>4. Erase(c)
    BY <2>2, <2>3
    DEF Proceed, Observe, LockKey, Check, Sweep, Put, LoadRegistry, SaveRegistry, Commit,
        Clear, Snapshot, Fail, results
  <2>5. /\ pc[c] = "erase" /\ inner' = [inner EXCEPT ![Key(c)] = Nothing]
        /\ Op(c) = "purge"
    BY <1>1, <2>3, <2>4 DEF Erase, WellFormed, StateTypes
  <2>6. Key(c) \in Keys /\ seen[c].tomb
    BY <1>1, <2>5, HeadJob DEF WellFormed, SeenInv, SeenAt
  <2>7. inner[Key(c)].tomb BY <1>1, <2>1, <2>5, <2>6 DEF SureInv
  <2> QED BY <1>1, <2>3, <2>5, <2>6, <2>7 DEF WellFormed, StateTypes
<1>2. WellFormed /\ SureInv /\ [Next]_vars => [Step]_vars BY <1>1
<1>3. Spec => [][Step]_vars BY <1>2, AlwaysWellFormed, AlwaysSure, PTL DEF Spec
<1>4. Spec => LiveValuesAreKept BY ValuesAreKept
<1> QED BY <1>3, <1>4 DEF OnlyTombstonesArePurged, PurgeCountsRemovals

----------------------------------------------------------------------------
(* the registry is exact where nobody streams or clears and nothing fails *)

\* A call leaves the keys of the others, and their entries, as they are.
LEMMA ExactElsewhere ==
    ASSUME WellFormed, Undisturbed, NEW c \in Calls, Proceed(c) \/ Fail(c), PreciseAt(c),
           NEW k \in Keys, ExactAt(k), keyLock[k] # c
    PROVE  ExactAt(k)'
<1> USE DEF WellFormed, Undisturbed
<1>1. pc[c] \notin {"commit", "clear"} BY OnlyUnderLocks
<1>2. inner'[k] = inner[k] BY <1>1, OthersKeys
<1>3. pc[c] \in Locked => k # Key(c) BY DEF LocksInv, LocksAt
<1>4. k \in registry' <=> k \in registry
  BY <1>1, <1>3, RegistryStep DEF PreciseAt, Locked
<1>5. Changing(k) => Changing(k)'
  <2> SUFFICES ASSUME Changing(k) PROVE Changing(k)' OBVIOUS
  <2>1. PICK d \in Calls : keyLock[k] = d BY DEF Changing, StateTypes
  <2>2. d # c /\ pc[d] \in {"add", "saveAdd", "remove", "saveRemove"} BY <2>1 DEF Changing
  <2>3. keyLock'[k] = d /\ pc'[d] = pc[d] BY <2>1, <2>2, OthersLocks, ControlEffect
  <2> QED BY <2>1, <2>2, <2>3 DEF Changing
<1> QED BY <1>2, <1>4, <1>5 DEF ExactAt

\* Under the lock of a key the tombstone and its entry come and go together.
LEMMA ExactHere ==
    ASSUME WellFormed, Undisturbed, NEW c \in Calls, Proceed(c) \/ Fail(c),
           SureInv, TidyAt(c), PreciseAt(c),
           NEW k \in Keys, ExactAt(k), keyLock[k] = c
    PROVE  ExactAt(k)'
<1> USE DEF WellFormed, Undisturbed
<1>1. /\ pc[c] \in Locked /\ Key(c) = k /\ StepOf(Op(c), pc[c])
      /\ Changing(k) <=> pc[c] \in {"add", "saveAdd", "remove", "saveRemove"}
  BY HeadJob DEF LocksInv, LocksAt, Locked, Changing
<1>2. ASSUME NEW next \in {"add", "remove"}, Goto(c, next) PROVE ExactAt(k)'
  <2>1. pc'[c] = next /\ keyLock' = keyLock
    BY <1>2, GotoEffect DEF Labels, Locked, locks
  <2> QED BY <2>1 DEF ExactAt, Changing
<1>3. CASE \/ Observe(c) \/ LockKey(c) \/ Commit(c) \/ Clear(c) \/ Snapshot(c) \/ Fail(c)
  BY <1>1, <1>3 DEF Observe, LockKey, Commit, Clear, Snapshot, Fail, Locked
<1>4. CASE Check(c) \/ Sweep(c)
  <2>1. pc[c] \in {"check", "sweep"} /\ UNCHANGED <<inner, registry>>
    BY <1>4 DEF Check, Sweep, storage
  <2> QED BY <1>1, <2>1 DEF ExactAt
<1>5. CASE Put(c)
  <2>1. pc[c] = "put" /\ inner' = [inner EXCEPT ![k] = Written(c)] /\ registry' = registry
        /\ lastId' = IF Op(c) = "delete" THEN lastId + 1 ELSE lastId
    BY <1>1, <1>5 DEF Put
  <2>2. CASE Op(c) = "write" /\ ~seen[c].tomb
    <3>1. ~inner[k].tomb BY <1>1, <2>1, <2>2 DEF SureInv
    <3>2. ~inner'[k].tomb BY <2>1, <2>2, WrittenType DEF StateTypes
    <3> QED BY <1>1, <2>1, <3>1, <3>2 DEF ExactAt
  <2>3. CASE ~(Op(c) = "write" /\ ~seen[c].tomb)
    BY <1>2, <1>5, <2>3 DEF Put
  <2> QED BY <2>2, <2>3
<1>6. CASE Erase(c)
  <2>1. pc[c] = "erase" /\ inner' = [inner EXCEPT ![k] = Nothing] /\ registry' = registry
    BY <1>1, <1>6 DEF Erase
  <2>2. CASE ~seen[c].tomb
    <3>1. ~inner[k].tomb BY <1>1, <2>1, <2>2 DEF SureInv
    <3>2. ~inner'[k].tomb BY <2>1 DEF StateTypes, Nothing
    <3> QED BY <1>1, <2>1, <3>1, <3>2 DEF ExactAt
  <2>3. CASE Goto(c, "remove") BY <1>2, <2>3
  <2> QED BY <1>6, <2>2, <2>3 DEF Erase
<1>7. CASE LoadRegistry(c)
  <2>1. inner' = inner /\ registry' = registry BY <1>7 DEF LoadRegistry, storage
  <2>2. CASE LocksRegistry(c)
    <3>1. pc'[c] \in {"saveAdd", "saveRemove"} /\ keyLock' = keyLock
      BY <2>2 DEF LocksRegistry, StateTypes
    <3> QED BY <3>1 DEF ExactAt, Changing
  <2>3. CASE Registered(c)
    <3>1. pc[c] = "remove" => ~inner[k].tomb BY <1>1 DEF TidyAt
    <3>2. pc[c] = "add" => inner[k].tomb BY <1>1 DEF PreciseAt
    <3> QED BY <1>1, <2>1, <2>3, <3>1, <3>2 DEF Registered, ExactAt
  <2> QED BY <1>7, <2>2, <2>3 DEF LoadRegistry, LocksRegistry
<1>8. CASE SaveRegistry(c)
  <2>1. inner' = inner /\ pc[c] \in {"saveAdd", "saveRemove"}
        /\ registry' = IF pc[c] = "saveAdd" THEN loaded[c] \cup {k} ELSE loaded[c] \ {k}
    BY <1>1, <1>8 DEF SaveRegistry
  <2>2. pc[c] = "saveRemove" => ~inner[k].tomb BY <1>1 DEF TidyAt
  <2>3. pc[c] = "saveAdd" => inner[k].tomb BY <1>1 DEF PreciseAt
  <2>4. CASE pc[c] = "saveAdd" BY <2>1, <2>3, <2>4 DEF ExactAt
  <2>5. CASE pc[c] = "saveRemove" BY <2>1, <2>2, <2>5 DEF ExactAt
  <2> QED BY <2>1, <2>4, <2>5
<1> QED BY <1>3, <1>4, <1>5, <1>6, <1>7, <1>8 DEF Proceed

LEMMA PreciseOthers ==
    ASSUME WellFormed, Undisturbed, NEW c \in Calls, Proceed(c) \/ Fail(c),
           NEW d \in Calls, d # c, PreciseAt(d)
    PROVE  PreciseAt(d)'
<1> USE DEF WellFormed, Undisturbed
<1>1. pc'[d] = pc[d] /\ pc[c] # "clear" BY ControlEffect, OnlyUnderLocks
<1>2. pc[d] \in Locked => /\ inner'[Key(d)] = inner[Key(d)]
                          /\ Key(d)' = Key(d) /\ loaded'[d] = loaded[d]
  BY <1>1, OthersLeave
<1>3. pc[d] \in {"saveAdd", "saveRemove"} => registry' = registry
  <2>1. pc[d] \in {"saveAdd", "saveRemove"} => pc[c] \notin {"saveAdd", "saveRemove"}
    BY DEF LocksInv, LocksAt
  <2> QED BY <1>1, <2>1, RegistryStep
<1> QED BY <1>1, <1>2, <1>3 DEF PreciseAt, Locked

LEMMA PreciseOwn ==
    ASSUME WellFormed, Undisturbed, NEW c \in Calls, Proceed(c) \/ Fail(c), PreciseAt(c)
    PROVE  PreciseAt(c)'
<1> USE DEF WellFormed, Undisturbed
<1>1. pc[c] \notin {"idle", "done"} /\ StepOf(Op(c), pc[c]) BY Transitions, HeadJob
<1>2. ASSUME pc'[c] \notin {"add", "saveAdd", "saveRemove"} PROVE PreciseAt(c)'
  BY <1>2 DEF PreciseAt
<1>3. CASE \/ Finish(c)
           \/ \E result : End(c, result)
           \/ Snapshot(c)
  <2>1. Between(c)' BY <1>1, <1>3, BetweenJobs
  <2> QED BY <1>2, <2>1 DEF Between
<1>4. ASSUME NEW next \in Labels, Goto(c, next)
      PROVE  pc'[c] = next /\ Key(c)' = Key(c)
  BY <1>4, GotoEffect DEF Key
<1>5. ASSUME NEW next \in {"lock", "put", "erase", "remove", "sweep"}, Goto(c, next)
      PROVE PreciseAt(c)'
  BY <1>2, <1>4, <1>5 DEF Labels, Locked
<1>6. ASSUME Goto(c, "add"), inner'[Key(c)].tomb PROVE PreciseAt(c)'
  BY <1>4, <1>6 DEF PreciseAt, Labels, Locked
<1>7. CASE Observe(c) BY <1>3, <1>5, <1>7 DEF Observe
<1>8. CASE LockKey(c) BY <1>2, <1>8 DEF LockKey, StateTypes
<1>9. CASE Check(c)
  <2>1. inner' = inner BY <1>9 DEF Check, storage
  <2> QED
    BY <1>3, <1>5, <1>6, <1>9, <2>1 DEF Check, DeleteDecides, RestoreDecides, ListDecides
<1>10. CASE Sweep(c) BY <1>3, <1>5, <1>10 DEF Sweep, AfterSweep
<1>11. CASE Put(c)
  <2>1. pc[c] = "put" /\ inner' = [inner EXCEPT ![Key(c)] = Written(c)]
        /\ lastId' = IF Op(c) = "delete" THEN lastId + 1 ELSE lastId
    BY <1>11 DEF Put
  <2>2. Key(c) \in Keys BY <2>1, HeadJob
  <2>3. Op(c) = "delete" => inner'[Key(c)].tomb BY <2>1, <2>2, WrittenType DEF StateTypes
  <2> QED BY <1>3, <1>5, <1>6, <1>11, <2>3 DEF Put
<1>12. CASE Erase(c) BY <1>3, <1>5, <1>12 DEF Erase
<1>13. CASE LoadRegistry(c)
  <2>1. CASE AfterRegistry(c) BY <1>3, <2>1 DEF AfterRegistry
  <2>2. CASE LocksRegistry(c)
    <3>1. /\ UNCHANGED <<inner, registry>> /\ loaded'[c] = registry
      BY <1>13 DEF LoadRegistry, storage, StateTypes
    <3>2. /\ todo' = todo /\ pc[c] \in {"add", "remove"}
          /\ pc'[c] = IF pc[c] = "add" THEN "saveAdd" ELSE "saveRemove"
      BY <2>2 DEF LocksRegistry, StateTypes
    <3>3. Key(c)' = Key(c) BY <3>2 DEF Key
    <3>4. CASE pc[c] = "add" BY <3>1, <3>2, <3>3, <3>4 DEF PreciseAt
    <3>5. CASE pc[c] = "remove" BY <3>1, <3>2, <3>3, <3>5 DEF PreciseAt
    <3> QED BY <3>2, <3>4, <3>5
  <2> QED BY <1>13, <2>1, <2>2 DEF LoadRegistry, LocksRegistry
<1>14. CASE SaveRegistry(c) BY <1>3, <1>14 DEF SaveRegistry, AfterRegistry
<1>15. CASE Commit(c) BY <1>5, <1>15 DEF Commit
<1>16. CASE Clear(c) \/ Fail(c) BY <1>3, <1>16 DEF Clear, Fail
<1>17. CASE Snapshot(c) BY <1>3, <1>17
<1> QED
  BY <1>7, <1>8, <1>9, <1>10, <1>11, <1>12, <1>13, <1>14, <1>15, <1>16, <1>17 DEF Proceed

LEMMA ExactStep ==
    ASSUME WellFormed, SureInv, ListedInv, ExactInv, [Next]_vars PROVE ExactInv'
<1> USE DEF WellFormed
<1>1. ASSUME NEW c \in Calls, Proceed(c) \/ Fail(c) PROVE ExactInv'
  <2> SUFFICES ASSUME Undisturbed'
               PROVE  ((\A k \in Keys : ExactAt(k)) /\ (\A d \in Calls : PreciseAt(d)))'
    BY DEF ExactInv
  <2>1. Undisturbed BY <1>1, OnlyUnderLocks DEF Undisturbed
  <2>2. ASSUME NEW k \in Keys PROVE ExactAt(k)'
    BY <1>1, <2>1, ExactElsewhere, ExactHere DEF ExactInv, ListedInv, Undisturbed
  <2>3. ASSUME NEW d \in Calls PROVE PreciseAt(d)'
    BY <1>1, <2>1, PreciseOthers, PreciseOwn DEF ExactInv, Undisturbed
  <2> QED BY <2>2, <2>3
<1>2. ASSUME NEW c \in Calls, Begin(c) PROVE ExactInv'
  <2>1. /\ UNCHANGED <<plan, inner, registry, keyLock, loaded>>
        /\ \A d \in Calls : d # c => todo'[d] = todo[d] /\ pc'[d] = pc[d]
        /\ pc[c] = "idle"
        /\ pc'[c] \in {"observe", "lock", "commit", "clear", "snapshot"}
    BY <1>2, BeginEffect
  <2>2. ASSUME NEW k \in Keys, ExactAt(k) PROVE ExactAt(k)'
    <3>1. Changing(k) => Changing(k)'
      <4> SUFFICES ASSUME Changing(k) PROVE Changing(k)' OBVIOUS
      <4>1. PICK d \in Calls : keyLock[k] = d BY DEF Changing, StateTypes
      <4>2. pc[d] \in {"add", "saveAdd", "remove", "saveRemove"} BY <4>1 DEF Changing
      <4>3. pc'[d] = pc[d] /\ keyLock'[k] = d BY <2>1, <4>1, <4>2
      <4> QED BY <4>1, <4>2, <4>3 DEF Changing
    <3> QED BY <2>1, <2>2, <3>1 DEF ExactAt
  <2>3. ASSUME NEW d \in Calls, PreciseAt(d) PROVE PreciseAt(d)'
    <3>1. CASE d = c BY <2>1, <3>1 DEF PreciseAt
    <3>2. CASE d # c BY <2>1, <2>3, <3>2 DEF PreciseAt, Key
    <3> QED BY <3>1, <3>2
  <2>4. Undisturbed' <=> Undisturbed
    BY <2>1 DEF Undisturbed, Streamless, Clearless, Plan, Faulty
  <2> QED BY <2>2, <2>3, <2>4 DEF ExactInv
<1>3. CASE UNCHANGED <<plan, inner, registry, keyLock, loaded, todo, pc>>
  BY <1>3
  DEF ExactInv, ExactAt, PreciseAt, Changing, Key, Undisturbed, Streamless, Clearless,
      Plan, Faulty
<1> QED BY <1>1, <1>2, <1>3 DEF Next, Terminated, Expire, vars, control, storage

LEMMA AlwaysExact == Spec => []ExactInv
<1>1. Init => ExactInv
  <2> SUFFICES ASSUME Init PROVE ExactInv OBVIOUS
  <2>1. \A c \in Calls : pc[c] \notin {"add", "saveRemove", "saveAdd"} BY DEF Init
  <2> QED BY <2>1, Initially DEF ExactInv, ExactAt, PreciseAt
<1>2. WellFormed /\ SureInv /\ ListedInv /\ ExactInv /\ [Next]_vars => ExactInv'
  BY ExactStep
<1> QED BY <1>1, <1>2, AlwaysWellFormed, AlwaysSure, AlwaysListed, PTL DEF Spec

\* The registry and the tombstones do not drift apart: where nothing fails and
\* nobody clears it lists exactly the tombstones of the keys that nobody works on,
\* it forgets none whatever happens, and each of them ends once.  Streams are left
\* out: they take no lock when they commit.
THEOREM TombstonesAreKeptTrackOf ==
    ASSUME \A p \in Plans : \A c \in Calls : p.request[c].kind # "setStream"
    PROVE  Spec => []TombstonesAreTracked
<1>1. WellFormed /\ ExactInv => RegistryIsExact
  <2> SUFFICES ASSUME WellFormed, ExactInv, Faulty = {},
                      \A c \in Calls : Plan(c).kind # "clear",
                      NEW k \in Keys, keyLock[k] = None
               PROVE  k \in registry <=> inner[k].tomb
    BY DEF RegistryIsExact
  <2>1. Streamless BY DEF WellFormed, StateTypes, Streamless, Plan
  <2>2. Clearless BY DEF Clearless
  <2> QED BY <2>1, <2>2 DEF ExactInv, ExactAt, Changing, Undisturbed
<1> QED
  BY <1>1, AlwaysWellFormed, AlwaysExact, RegistryForgetsNothing, TombstonesEndOnce, PTL
  DEF TombstonesAreTracked
=============================================================================
