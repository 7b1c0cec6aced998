------------------------------ MODULE KVStore ------------------------------
(***************************************************************************)
(* What a UniKVS client promises its callers: every call takes effect at   *)
(* once, on one map, however its storages work in parallel.                *)
(*                                                                         *)
(* kv[x] is the set of what the storages hold for key x.  A call that      *)
(* succeeds makes them agree; a call that fails may leave some of them     *)
(* with the new value and some with the old one, and a later read may      *)
(* return either.                                                          *)
(***************************************************************************)
EXTENDS FiniteSets

CONSTANTS
    Keys,
    Values,
    None,      \* nothing is stored
    Calls,     \* calls of the client's methods
    Requests   \* what a call may ask for: kind, key, to (destination), value

VARIABLES
    kv,        \* kv[x]: what the storages hold for key x
    request,   \* request[k]: what call k asked for
    result,    \* result[k]: how call k was answered
    data       \* data[k]: the value a read returned

storeVars == <<kv, request, result, data>>

Contents == Values \cup {None}

Some(S) == (SUBSET S) \ {{}}

Init ==
    /\ kv \in [Keys -> Some(Contents)]
    /\ request = [k \in Calls |-> None]
    /\ result = [k \in Calls |-> "none"]
    /\ data = [k \in Calls |-> None]

Ask(k, r) ==
    /\ result[k] = "none"
    /\ request' = [request EXCEPT ![k] = r]
    /\ result' = [result EXCEPT ![k] = "pending"]
    /\ UNCHANGED <<kv, data>>

Is(k, kinds) == result[k] = "pending" /\ request[k].kind \in kinds

Answer(k, answer) ==
    /\ result' = [result EXCEPT ![k] = answer]
    /\ UNCHANGED request

Keep(k, answer) == Answer(k, answer) /\ UNCHANGED <<kv, data>>

Change(k, answer, x, S) ==
    /\ Answer(k, answer)
    /\ kv' = [kv EXCEPT ![x] = S]
    /\ UNCHANGED data

Set(k) ==
    LET x == request[k].key
        v == request[k].value
    IN  /\ Is(k, {"set"})
        /\ \/ Change(k, "ok", x, {v})
           \/ \E S \in Some(kv[x] \cup {v}) : Change(k, "failed", x, S)

Delete(k) ==
    LET x == request[k].key
    IN  /\ Is(k, {"delete"})
        /\ \/ Change(k, "ok", x, {None})
           \/ \E S \in Some(kv[x] \cup {None}) : Change(k, "failed", x, S)

Clear(k) ==
    /\ Is(k, {"clear"})
    /\ UNCHANGED data
    /\ \/ Answer(k, "ok") /\ kv' = [x \in Keys |-> {None}]
       \/ /\ Answer(k, "failed")
          /\ kv' \in [Keys -> Some(Contents)]
          /\ \A x \in Keys : kv'[x] \subseteq kv[x] \cup {None}

\* A value that a read returns is one that some storage holds.  "not found"
\* means that no storage has the key; a read of which some storage failed and
\* none had the key is "unknown".  A read may fill in the storages without it.
Read(k) ==
    LET x == request[k].key
    IN  /\ Is(k, {"get", "getRepair", "stream", "streamRepair", "has"})
        /\ UNCHANGED kv \/ kv' = [kv EXCEPT ![x] = @ \ {None}]
        /\ \/ /\ kv[x] # {None}
              /\ Answer(k, "ok")
              /\ \/ request[k].kind = "has" /\ UNCHANGED data
                 \/ \E v \in kv[x] \ {None} : data' = [data EXCEPT ![k] = v]
           \/ kv[x] = {None} /\ Keep(k, "notFound")
           \/ Answer(k, "unknown") /\ UNCHANGED data
           \/ Answer(k, "failed") /\ UNCHANGED data

\* The repair of a stream goes on after the stream was returned.
Heal(x) ==
    /\ kv[x] # {None}
    /\ kv' = [kv EXCEPT ![x] = @ \ {None}]
    /\ UNCHANGED <<request, result, data>>

\* Every storage that has the source overwrites the destination; one that
\* does not have it keeps its destination.  A move empties the source, and
\* whatever fails, no value of the source is lost.
Transfer(k) ==
    LET x == request[k].key
        y == request[k].to
        source == kv[x] \ {None}
    IN  /\ Is(k, {"copy", "move"})
        /\ \/ kv[x] = {None} /\ Keep(k, "notFound")
           \/ Keep(k, "unknown")
           \/ x = y /\ source # {} /\ Keep(k, "ok")
           \/ x = y /\ Keep(k, "failed")
           \/ /\ x # y
              /\ source # {}
              /\ Answer(k, "ok")
              /\ UNCHANGED data
              /\ \E kept \in SUBSET (IF None \in kv[x] THEN kv[y] ELSE {}) :
                    kv' = [kv EXCEPT ![x] = IF request[k].kind = "copy" THEN @ ELSE {None},
                                     ![y] = source \cup kept]
           \/ /\ x # y
              /\ Answer(k, "failed")
              /\ UNCHANGED data
              /\ \E S \in Some(kv[x] \cup {None}), T \in Some(kv[y] \cup source) :
                    /\ request[k].kind = "copy" => S = kv[x]
                    /\ source \subseteq S \cup T
                    /\ kv' = [kv EXCEPT ![x] = S, ![y] = T]

Next ==
    \/ \E k \in Calls, r \in Requests : Ask(k, r)
    \/ \E k \in Calls : Set(k) \/ Delete(k) \/ Clear(k) \/ Read(k) \/ Transfer(k)
    \/ \E x \in Keys : Heal(x)

Spec == Init /\ [][Next]_storeVars
=============================================================================
