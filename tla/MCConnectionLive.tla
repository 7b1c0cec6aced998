-------------------------- MODULE MCConnectionLive --------------------------
(***************************************************************************)
(* Three clients for the liveness of UniKvsConnection, on a smaller        *)
(* instance than the safety runs have.  Clients a and b share a plugin     *)
(* that their opens and closes call; client f, with a plugin that the      *)
(* application had opened, connects again and closes twice at once under   *)
(* an operation that may never end.                                        *)
(***************************************************************************)
EXTENDS UniKvsConnection

CONSTANTS
    a, b, f,                    \* clients
    shared, foreign,            \* plugins
    aShared, bShared, fForeign, \* slots
    a1, b1, f1, f2,             \* opens
    ca1, cb1, cf1, cf2,         \* closes
    uf1                         \* an operation

MCClients == {a, b, f}
MCPlugins == {shared, foreign}
MCSlotClient == [s \in Slots |->
    CASE s = aShared -> a
      [] s = bShared -> b
      [] s = fForeign -> f]
MCSlotPlugin == [s \in Slots |-> IF s = fForeign THEN foreign ELSE shared]
MCCallClient == [k \in Calls |->
    CASE k \in {a1, ca1} -> a
      [] k \in {b1, cb1} -> b
      [] k \in {f1, f2, cf1, cf2, uf1} -> f]

\* Bound: client f shares nothing with the others, and runs without them; only
\* when it has connected and closed twice they follow, one call at a time, so
\* that there are behaviours in which all calls end.
Of(c) == {k \in Calls : CallClient[k] = c}
Called(c) == \E k \in Of(c) : pc[k] # "ready"
Reconnected ==
    /\ \A k \in Of(f) : pc[k] = "done" /\ ~aborted[k]
    /\ conn[cf1] = f1 /\ conn[cf2] = f2 /\ conn[uf1] = f1
InTurn(S) ==
    /\ \A k \in S : ~aborted[k]
    /\ \A j, k \in S : j = k \/ {pc[j], pc[k]} \cap {"ready", "done"} # {}
OneGroup == Called(f) /\ (Called(a) \/ Called(b)) => Reconnected /\ InTurn(Of(a) \cup Of(b))
=============================================================================
