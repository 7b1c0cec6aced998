---------------------------- MODULE MCOperations ----------------------------
(* Instances of UniKvsOperations for TLC. *)
EXTENDS UniKvsOperations, TLC

CONSTANTS v1, v2

Ask(kind, key, to, value) == [kind |-> kind, key |-> key, to |-> to, value |-> value]

\* One key: every operation that reads or writes it, beside each other.
OneKeyRequests ==
    {Ask(kind, 1, 1, v2) : kind \in {"set", "getRepair", "streamRepair", "stream", "delete", "clear"}}

\* Two keys: transfers in both directions, and what can come between.
TransferRequests ==
    {Ask("copy", 1, 2, v1), Ask("move", 2, 1, v1), Ask("set", 1, 1, v2)}

\* Every kind of call, to be made alone.
SingleRequests ==
    {Ask(kind, 1, 1, v1) : kind \in Kinds} \cup {Ask(kind, 1, 2, v1) : kind \in Transfers}

AllRequests == OneKeyRequests \cup TransferRequests \cup SingleRequests

\* Bounds: the calls are of one of these groups, and of the values only v2 is
\* under key 2 at first, which matters to transfers alone.
Asked == {request[k] : k \in Calls} \ {None}
OneScenario ==
    /\ Asked = {} => \A l \in Leaves : store[l][2] # v1
    /\ \/ Asked \subseteq OneKeyRequests /\ \A l \in Leaves : store[l][2] = None
       \/ Asked \subseteq TransferRequests
       \/ Cardinality({k \in Calls : request[k] # None}) <= 1

RepairRequests ==
    {Ask(kind, 1, 1, v2) : kind \in {"getRepair", "streamRepair", "delete"}}

LiveRequests ==
    {Ask("copy", 1, 2, v1), Ask("move", 2, 1, v1), Ask("clear", 1, 1, v1),
     Ask("stream", 1, 1, v1)}

CallSymmetry == Permutations(Calls)
=============================================================================
