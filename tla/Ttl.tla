-------------------------------- MODULE Ttl --------------------------------
(***************************************************************************)
(* The middleware of @unikvs/ttl in front of one storage.  The time when a *)
(* plain value expires is stored around it, in an envelope; the time when  *)
(* a stream expires is only known to a record in memory.  The record also  *)
(* answers, before the storage is asked, for values that have an envelope. *)
(*                                                                         *)
(* A call runs the middleware's use or encode, waits for its key locks,    *)
(* works on the storage and, if it writes, settles the records in afterUse *)
(* before its locks are released.  get decodes after it released its lock. *)
(*                                                                         *)
(* The storage has calls of its own for copy and move, and a call of it    *)
(* that fails has no effect.  A value is the call that wrote it, or Old.   *)
(***************************************************************************)
EXTENDS Naturals, FiniteSets

CONSTANTS
    Keys,
    Calls,
    Old,      \* the value that keys have initially
    None,     \* no value
    Never,    \* no time at which a value expires
    MaxTime,  \* the clock stops there
    Plans,    \* what the calls are, when the value Old expires, and whether
              \* the process restarts
    Careful   \* no get of a key runs while the key is written

VARIABLES
    now,      \* the clock
    stored,   \* stored[k]: the value under k and the time in its envelope
    record,   \* record[k]: the time when k expires, as the middleware recalls it
    pc,       \* pc[c]: the step of call c
    dead,     \* dead[c]: c asks for a key that does not exist
    staged,   \* staged[c]: when the value that c writes expires
    hand,     \* hand[c]: what c has read
    answer,   \* answer[c]: what c has returned
    settled,  \* history: settled[k] is the value of k for the last settled write
    due,      \* history: due[v] is when v expires
    missed,   \* history: c could have found nothing at some moment
    plan      \* which of the plans this is, and whether a restart is left

vars == <<now, stored, record, pc, dead, staged, hand, answer, settled, due,
          missed, plan>>

Request(c) == plan.request[c]
Kind(c) == Request(c).kind
Key(c) == Request(c).key
Dest(c) == Request(c).dest

Reads == {"get", "stream", "has"}
Transfers == {"copy", "move"}
Sets == {"set", "setStream"}

Time == Nat \cup {Never}

Requests ==
    [kind : Sets, key : Keys, ttl : Time]
    \cup [kind : Reads \cup {"delete"}, key : Keys]
    \cup [kind : Transfers, key : Keys, dest : Keys]
    \cup [kind : {"clear", "none"}]

\* The values of a plan are plain, or they are streams.
IsPlain(p) == \A c \in Calls : p.request[c].kind \notin {"setStream", "stream"}
IsStreaming(p) ==
    p.old = Never /\ \A c \in Calls : p.request[c].kind \notin {"set", "get"}

\* What the constants are.
Admitted ==
    /\ Old \notin Calls /\ None \notin Calls \cup {Old}
    /\ Never \notin Nat /\ MaxTime \in Nat
    /\ \A p \in Plans : /\ p \in [old : Time, restart : BOOLEAN, request : [Calls -> Requests]]
                       /\ (IsPlain(p) \/ IsStreaming(p))

Content(v, seal) == [value |-> v, seal |-> seal]
Nothing == Content(None, Never)

IsExpired(e) == e # Never /\ now >= e

\* By its last settled write, k has no value now.
Gone(k) == settled[k] = None \/ (due[settled[k]] # Never /\ now >= due[settled[k]])

Init ==
    /\ plan \in Plans
    /\ now = 0
    /\ due = [v \in Calls \cup {Old} |-> IF v = Old THEN plan.old ELSE Never]
    /\ settled \in [Keys -> {None, Old}]
    /\ stored = [k \in Keys |-> IF settled[k] = None THEN Nothing ELSE Content(Old, due[Old])]
    /\ record = [k \in Keys |-> Never]
    /\ pc = [c \in Calls |-> IF Kind(c) = "none" THEN "done" ELSE "idle"]
    /\ dead = [c \in Calls |-> FALSE]
    /\ staged = [c \in Calls |-> Never]
    /\ hand = [c \in Calls |-> Nothing]
    /\ answer = [c \in Calls |-> "none"]
    /\ missed = [c \in Calls |-> FALSE]

----------------------------------------------------------------------------
(* the locks of the client *)

KeysOf(c) ==
    CASE Kind(c) = "clear" -> Keys
      [] Kind(c) \in Transfers -> {Key(c), Dest(c)}
      [] OTHER -> {Key(c)}

Written(c) ==
    CASE Kind(c) \in Reads -> {}
      [] Kind(c) = "copy" -> {Dest(c)}
      [] OTHER -> KeysOf(c)

Running(c) == pc[c] \notin {"idle", "done"}
Locked(c) == pc[c] \in {"io", "open", "settle"}

CanLock(c) ==
    \A d \in Calls : Locked(d) /\ KeysOf(c) \cap KeysOf(d) # {} =>
                        {Kind(c), Kind(d)} \subseteq Reads

MayStart(c) ==
    Careful => \A d \in Calls : Running(d) =>
                  /\ Kind(c) = "get" => Key(c) \notin Written(d)
                  /\ Kind(d) = "get" => Key(d) \notin Written(c)

----------------------------------------------------------------------------
(* the steps of a call *)

Goto(c, step) == pc' = [pc EXCEPT ![c] = step] /\ UNCHANGED answer
End(c, result) == pc' = [pc EXCEPT ![c] = "done"] /\ answer' = [answer EXCEPT ![c] = result]

\* use: whoever asks for what has expired is sent to a key that does not exist.
Use(c) ==
    /\ pc[c] = "idle" /\ Kind(c) \notin Sets /\ MayStart(c)
    /\ dead' = [dead EXCEPT ![c] = Kind(c) \in Reads \cup Transfers /\ IsExpired(record[Key(c)])]
    /\ Goto(c, "lock")
    /\ UNCHANGED <<now, stored, record, staged, hand, settled, due, plan>>

Lifetime(c) == IF Request(c).ttl = Never THEN Never ELSE now + Request(c).ttl

\* Mutant: the time is recorded before it is known whether the write succeeds.
Encode_Recorded(c) ==
    /\ pc[c] = "idle" /\ Kind(c) \in Sets /\ MayStart(c)
    /\ staged' = [staged EXCEPT ![c] = Lifetime(c)]
    /\ due' = [due EXCEPT ![c] = Lifetime(c)]
    /\ record' = [record EXCEPT ![Key(c)] = Lifetime(c)]
    /\ Goto(c, "lock")
    /\ UNCHANGED <<now, stored, dead, hand, settled, plan>>

\* encode and encodeStream: the time is staged, and recorded only in afterUse.
Encode(c) ==
    /\ pc[c] = "idle" /\ Kind(c) \in Sets /\ MayStart(c)
    /\ staged' = [staged EXCEPT ![c] = Lifetime(c)]
    /\ due' = [due EXCEPT ![c] = Lifetime(c)]
    /\ Goto(c, "lock")
    /\ UNCHANGED <<now, stored, record, dead, hand, settled, plan>>

Lock(c) ==
    /\ pc[c] = "lock" /\ CanLock(c)
    /\ Goto(c, "io")
    /\ UNCHANGED <<now, stored, record, dead, staged, hand, settled, due, plan>>

\* What c finds under its key.
Found(c) == IF dead[c] THEN Nothing ELSE stored[Key(c)]

\* has, get and stream on the storage.
Read(c) ==
    /\ pc[c] = "io" /\ Kind(c) \in Reads
    /\ hand' = [hand EXCEPT ![c] = Found(c)]
    /\ \/ Found(c) = Nothing /\ End(c, "notFound")
       \/ Found(c) # Nothing /\ Kind(c) = "has" /\ End(c, "exists")
       \/ Found(c) # Nothing /\ Kind(c) = "get" /\ Goto(c, "decode")
       \/ Found(c) # Nothing /\ Kind(c) = "stream" /\ Goto(c, "open")
    /\ UNCHANGED <<now, stored, record, dead, staged, settled, due, plan>>

\* set, delete, clear, copy and move on the storage.
Write(c) ==
    /\ pc[c] = "io" /\ Kind(c) \notin Reads
    /\ Kind(c) \in Transfers => Found(c) # Nothing
    /\ stored' =
         CASE Kind(c) = "set" -> [stored EXCEPT ![Key(c)] = Content(c, staged[c])]
           [] Kind(c) = "setStream" -> [stored EXCEPT ![Key(c)] = Content(c, Never)]
           [] Kind(c) = "delete" -> [stored EXCEPT ![Key(c)] = Nothing]
           [] Kind(c) = "clear" -> [k \in Keys |-> Nothing]
           [] Kind(c) = "copy" -> [stored EXCEPT ![Dest(c)] = stored[Key(c)]]
           [] Kind(c) = "move" -> [stored EXCEPT ![Key(c)] = Nothing,
                                                 ![Dest(c)] = stored[Key(c)]]
    /\ Goto(c, "settle")
    /\ UNCHANGED <<now, record, dead, staged, hand, settled, due, plan>>

\* A transfer finds nothing; afterUse leaves the records alone.
NothingToTransfer(c) ==
    /\ pc[c] = "io" /\ Kind(c) \in Transfers /\ Found(c) = Nothing
    /\ End(c, "notFound")
    /\ UNCHANGED <<now, stored, record, dead, staged, hand, settled, due, plan>>

\* The call is aborted, or the storage fails; afterUse leaves the records alone.
Fail(c) ==
    /\ pc[c] \in {"lock", "io"}
    /\ End(c, "failed")
    /\ UNCHANGED <<now, stored, record, dead, staged, hand, settled, due, plan>>

\* Mutant: the time of a copy is not carried over.
Recorded_NoCarry(c) ==
    CASE Kind(c) \in Sets -> [record EXCEPT ![Key(c)] = staged[c]]
      [] Kind(c) = "delete" -> [record EXCEPT ![Key(c)] = Never]
      [] Kind(c) = "clear" -> [k \in Keys |-> Never]
      [] Kind(c) = "copy" -> record
      [] Kind(c) = "move" -> [record EXCEPT ![Key(c)] = Never,
                                            ![Dest(c)] = record[Key(c)]]

\* Mutant: a write that has no time to live leaves the record alone.
Recorded_KeepsOld(c) ==
    CASE Kind(c) \in Sets -> [record EXCEPT ![Key(c)] = IF staged[c] = Never THEN @
                                                        ELSE staged[c]]
      [] Kind(c) = "delete" -> [record EXCEPT ![Key(c)] = Never]
      [] Kind(c) = "clear" -> [k \in Keys |-> Never]
      [] Kind(c) = "copy" -> [record EXCEPT ![Dest(c)] = record[Key(c)]]
      [] Kind(c) = "move" -> [record EXCEPT ![Key(c)] = Never,
                                            ![Dest(c)] = record[Key(c)]]

\* The records after c.
Recorded(c) ==
    CASE Kind(c) \in Sets -> [record EXCEPT ![Key(c)] = staged[c]]
      [] Kind(c) = "delete" -> [record EXCEPT ![Key(c)] = Never]
      [] Kind(c) = "clear" -> [k \in Keys |-> Never]
      [] Kind(c) = "copy" -> [record EXCEPT ![Dest(c)] = record[Key(c)]]
      [] Kind(c) = "move" -> [record EXCEPT ![Key(c)] = Never,
                                            ![Dest(c)] = record[Key(c)]]

\* afterUse of a call whose write is done, even if it is aborted by now; copying
\* or moving a key to itself changes nothing.
Settle(c) ==
    /\ pc[c] = "settle"
    /\ record' = IF Kind(c) \in Transfers /\ Key(c) = Dest(c) THEN record ELSE Recorded(c)
    /\ settled' = [k \in Keys |-> IF k \in KeysOf(c) THEN stored[k].value ELSE settled[k]]
    /\ \E result \in {"ok", "aborted"} : End(c, result)
    /\ UNCHANGED <<now, stored, dead, staged, hand, due, plan>>

\* When what c has read expires.
Expiry(c) == IF hand[c].seal # Never THEN hand[c].seal ELSE record[Key(c)]

\* decode: the envelope, or else the record, says whether the value is served;
\* the record is restored from the envelope, or dropped.
Decode(c) ==
    /\ pc[c] = "decode"
    /\ \/ /\ IsExpired(Expiry(c))
          /\ record' = [record EXCEPT ![Key(c)] = Never]
          /\ End(c, "notFound")
       \/ /\ ~IsExpired(Expiry(c))
          /\ record' = [record EXCEPT ![Key(c)] = Expiry(c)]
          /\ End(c, "served")
    /\ UNCHANGED <<now, stored, dead, staged, hand, settled, due, plan>>

\* decodeStream: the record decides, and stays.
DecodeStream(c) ==
    /\ pc[c] = "open"
    /\ End(c, IF IsExpired(record[Key(c)]) THEN "notFound" ELSE "served")
    /\ UNCHANGED <<now, stored, record, dead, staged, hand, settled, due, plan>>

----------------------------------------------------------------------------
(* the clock and the process *)

Tick ==
    /\ now < MaxTime
    /\ now' = now + 1
    /\ UNCHANGED <<stored, record, pc, dead, staged, hand, answer, settled, due, plan>>

IsStream(k) == stored[k] # Nothing /\ stored[k].seal = Never

\* The process ends in the middle of its calls and another one goes on.  The
\* records are lost; a stream that had a time to live has none any more.
Restart ==
    /\ plan.restart
    /\ plan' = [plan EXCEPT !.restart = FALSE]
    /\ record' = [k \in Keys |-> Never]
    /\ pc' = [c \in Calls |-> IF Running(c) THEN "done" ELSE pc[c]]
    /\ answer' = [c \in Calls |-> IF Running(c) THEN "crashed" ELSE answer[c]]
    /\ settled' = [k \in Keys |-> stored[k].value]
    /\ due' = [v \in DOMAIN due |-> IF \E k \in Keys : IsStream(k) /\ stored[k].value = v
                                    THEN Never ELSE due[v]]
    /\ UNCHANGED <<now, stored, dead, staged, hand>>

\* What a running call could have found is noted before every step.
Note ==
    missed' = [c \in Calls |->
        CASE pc[c] = "idle" -> Kind(c) # "clear" /\ Gone(Key(c))
          [] pc[c] = "done" -> missed[c]
          [] OTHER -> missed[c] \/ (Kind(c) # "clear" /\ Gone(Key(c)))]

Finished == (\A c \in Calls : pc[c] = "done") /\ UNCHANGED vars

Step ==
    \/ \E c \in Calls :
          \/ Use(c) \/ Encode(c) \/ Lock(c) \/ Read(c) \/ Write(c)
          \/ NothingToTransfer(c) \/ Fail(c) \/ Settle(c)
          \/ Decode(c) \/ DecodeStream(c)
    \/ Tick
    \/ Restart

Next == (Step /\ Note) \/ Finished

Spec == Init /\ [][Next]_vars

----------------------------------------------------------------------------
(* properties *)

\* Every variable has its type (the fields of Ttl and of its envelope).
TypeOK ==
    /\ now \in 0 .. MaxTime
    /\ record \in [Keys -> Nat \cup {Never}]
    /\ stored \in [Keys -> [value : Calls \cup {Old, None}, seal : Nat \cup {Never}]]
    /\ pc \in [Calls -> {"idle", "lock", "io", "decode", "open", "settle", "done"}]
    /\ answer \in [Calls -> {"none", "notFound", "exists", "served", "ok", "aborted",
                             "failed", "crashed"}]

\* A value that has expired by its envelope or, for a stream, by its record is
\* not served by decode or decodeStream, in whatever order it was copied, moved,
\* overwritten and, if it has an envelope, kept over a restart.
ExpiredIsNotServed ==
    [][\A c \in Calls : answer[c] # "served" /\ answer'[c] = "served" =>
          LET e == due[hand[c].value] IN e = Never \/ now < e]_vars

\* A call that reports a missing key was right at some moment while it ran: the
\* record that use trusts before the storage is asked never hides a value that
\* has not expired.
LiveIsServed ==
    \A c \in Calls : answer[c] = "notFound" => missed[c]

\* The record of a key that no write is about to settle is the time when the
\* value under that key expires; only for a value with an envelope it may be
\* missing.
RecordsAreExact ==
    \A k \in Keys :
        (\A c \in Calls : pc[c] = "settle" => k \notin Written(c)) =>
            LET v == stored[k].value
            IN  /\ record[k] # Never => v # None /\ record[k] = due[v]
                /\ IsStream(k) => record[k] = due[v]

\* What the record says has expired has expired: no value that lives is hidden
\* by the record of a value that is no longer there.
NoValueIsHidden ==
    \A k \in Keys :
        (\A c \in Calls : pc[c] = "settle" => k \notin Written(c)) =>
            (IsExpired(record[k]) => Gone(k))

=============================================================================
