---------------------------- MODULE MCConnection ----------------------------
(***************************************************************************)
(* Two clients for UniKvsConnection.  Client a has a plugin of its own and *)
(* one that it shares with client b.                                       *)
(***************************************************************************)
EXTENDS UniKvsConnection, TLC

CONSTANTS
    a, b,                 \* clients
    own, shared,          \* plugins
    aOwn, aShared, bShared,  \* slots
    a1, a2, b1,           \* opens
    ca1, ca2, cb1,        \* closes
    ua1                   \* an operation

MCClients == {a, b}
MCPlugins == {own, shared}
MCSlotClient == [s \in Slots |-> IF s = bShared THEN b ELSE a]
MCSlotPlugin == [s \in Slots |-> IF s = aOwn THEN own ELSE shared]
MCCallClient ==
    [k \in Calls |-> IF k \in {b1, cb1} THEN b ELSE a]
MCSymmetry == Permutations({a1, a2} \cap OpenCalls) \cup Permutations({ca1, ca2} \cap CloseCalls)

\* Bound: client a either reconnects, or has an operation beside a close of b.
Called(S) == Cardinality({k \in S \cap Calls : pc[k] # "ready"})
OneScenario == Called({ua1, cb1}) = 0 \/ (Called({a1, a2}) <= 1 /\ Called({ca1, ca2}) <= 1)
=============================================================================
