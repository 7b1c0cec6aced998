--------------------------- MODULE MCSoftDelete ---------------------------
(* Calls of the soft-delete wrapper for TLC. *)
EXTENDS SoftDelete

CONSTANTS k1, k2, a, b, c, d

On(kind, k) == [kind |-> kind, key |-> k]
Over(kind) == [kind |-> kind]
Transfer(kind, k, l) == [kind |-> kind, key |-> k, dest |-> l]
NoCall == Over("none")

Requests(ra, rb, rc, rd) ==
    [x \in Calls |-> CASE x = a -> ra [] x = b -> rb [] x = c -> rc [] x = d -> rd]

Scenario(requests, faulty, retention) ==
    [request |-> requests, faulty |-> faulty, retention |-> retention]

\* One key: a delete and a write in turn, beside restore and purge.
OneKey == Scenario(Requests(On("delete", k1), On("set", k1), On("restore", k1),
                            On("purge", k1)), {}, TRUE)

\* Two keys and everything that goes through the registry.
TwoKeys == Scenario(Requests(Transfer("move", k1, k2), On("delete", k2),
                             Over("purgeAll"), NoCall), {}, TRUE)

\* listTombstones, which tidies as it goes, beside a delete, a get and a copy.
Listing == Scenario(Requests(Over("list"), On("delete", k1), On("get", k2),
                             Transfer("copy", k2, k1)), {}, TRUE)

\* Calls that fail: a delete that is repeated, beside all that has no lock.
Again == Scenario(Requests(On("delete", k1), On("delete", k1), On("setStream", k1),
                           Over("clear")), Calls, FALSE)

AllPlans == {OneKey, TwoKeys, Listing, Again}

\* A stream, which does not take the lock of the key when it commits.
Streams == {Scenario(Requests(On("setStream", k1), On("purge", k1), On("delete", k1),
                              NoCall), {}, TRUE)}

\* The plans of one key leave the other one empty.
OneScenario == plan \in {OneKey, Again} \cup Streams => inner[k2] = Nothing
=============================================================================
