---------------------------- MODULE RuntimeCache ----------------------------
(***************************************************************************)
(* The storage vercel-runtime-cache: values that expire, in a backend or,  *)
(* without one, in a map of the process.  link.index is what the storage   *)
(* tracks, oldest first; link.expired the contents whose time is over.     *)
(* With a backend, an eviction is two steps of the service, and calls for  *)
(* other keys go on in between.                                            *)
(***************************************************************************)
EXTENDS StorageCall, SequencesExt

CacheOps == {"write", "read", "exists", "delete", "clear", "setStream", "getStream"}

\* Bound: how many entries are kept.
MaxEntries == 1

Expired(content) == content \in link.expired
Untracked(index, k) == SelectSeq(index, LAMBDA e : e.key # k)
Tracked(index, k, content) == Append(Untracked(index, k), [key |-> k, content |-> content])
Oldest == Head(link.index).key

\* The time of a value is over.
Ages(c) ==
    /\ UnderWay(c)
    /\ \E k \in Keys : held[k] # None /\ ~Expired(held[k])
                       /\ link' = [link EXCEPT !.expired = @ \cup {held[k]}]
    /\ UNCHANGED <<held, at>>

Refusal(c) == Refuses(c, CacheOps)

----------------------------------------------------------------------------
(* with a backend *)

\* A value is put, and tracked when that is known.
PutsToBackend(c, content) == SendsAndGoes(c, Put(Key(c), content), "tracking")
WriteValue(c) == Begins(c, "write") /\ PutsToBackend(c, Value(c))
TrackBackendKey(c) ==
    /\ at[c].pc = "tracking"
    /\ link' = [link EXCEPT !.index = Tracked(@, Key(c), Value(c))]
    /\ Goes(c, "purging") /\ UNCHANGED held

\* Expired entries are removed from the front; the call has in `left` the one whose removal it
\* has sent.
Chooses(c, label) ==
    /\ at' = [at EXCEPT ![c].pc = label, ![c].left = {Oldest}, ![c].late = Late(c)]
    /\ UNCHANGED <<held, link>>
PurgeExpiredBackend(c) ==
    /\ at[c].pc = "purging"
    /\ IF link.index # <<>> /\ Expired(Head(link.index).content)
       THEN Chooses(c, "deleting")
       ELSE Goes(c, "evicting") /\ UNCHANGED <<held, link>>

\* Mutant: one entry more than the limit is kept.
EvictBackendIfNeeded_OffByOne(c) ==
    /\ at[c].pc = "evicting"
    /\ IF Len(link.index) > MaxEntries + 1 THEN Chooses(c, "removing") ELSE Quits(c, "ok")

EvictBackendIfNeeded(c) ==
    /\ at[c].pc = "evicting"
    /\ IF Len(link.index) > MaxEntries THEN Chooses(c, "removing") ELSE Quits(c, "ok")

\* What is removed from the backend is no longer tracked when that is known.
DeleteRaw(c, next) ==
    \/ /\ at[c].pc \in {"deleting", "removing"}
       /\ \/ held' = Without(at[c].left)
             /\ Goes(c, IF at[c].pc = "deleting" THEN "deleted" ELSE "removed")
          \/ held' \in {held, Without(at[c].left)} /\ Ends(c, "failed")
       /\ UNCHANGED link
    \/ /\ at[c].pc \in {"deleted", "removed"}
       /\ link' = [link EXCEPT !.index = SelectSeq(@, LAMBDA e : e.key \notin at[c].left)]
       /\ next /\ UNCHANGED held
WriteDeletes(c) ==
    /\ Op(c) \in {"write", "setStream"}
    /\ DeleteRaw(c, Goes(c, IF at[c].pc = "deleted" THEN "purging" ELSE "evicting"))

\* An expired value that is found is removed at once, and so is one that is to be deleted.
Drops(c) ==
    /\ \/ at' = [at EXCEPT ![c].pc = "deleting", ![c].left = {Key(c)}, ![c].hand = held[Key(c)]]
       \/ Ends(c, "failed")
    /\ UNCHANGED <<held, link>>
HasExpired(c) == held[Key(c)] # None /\ Expired(held[Key(c)])
ReadValue(c) == IF HasExpired(c) THEN Drops(c) ELSE Fetches(c)
Read(c) == Begins(c, "read") /\ ReadValue(c)
GetReadable(c) == Begins(c, "getStream") /\ ReadValue(c)
Exists(c) == Begins(c, "exists") /\ (IF HasExpired(c) THEN Drops(c) ELSE Looks(c, "no", "yes"))
ReadDeletes(c) ==
    /\ Op(c) \in {"read", "getStream", "exists"}
    /\ DeleteRaw(c, Ends(c, IF Op(c) = "exists" THEN "no" ELSE "notFound"))
DeleteValue(c) ==
    /\ Begins(c, "delete")
    /\ IF held[Key(c)] = None THEN Quits(c, "notFound") ELSE Drops(c)
DeleteDeletes(c) ==
    /\ Op(c) = "delete"
    /\ DeleteRaw(c, Ends(c, IF Expired(at[c].hand) THEN "notFound" ELSE "ok"))

\* A clear removes the backend's values by one command, or what is tracked, one by one.
ClearBackend(c) ==
    \/ Begins(c, "clear") /\ SendsAndGoes(c, Without(Names), "cleared")
    \/ /\ at[c].pc = "cleared" /\ link' = [link EXCEPT !.index = <<>>]
       /\ Ends(c, "ok") /\ UNCHANGED held
    \/ /\ Begins(c, "clear") \/ at[c].pc = "clearing"
       /\ IF link.index = <<>> THEN Quits(c, "ok")
          ELSE IF at[c].signal THEN Quits(c, "aborted") ELSE Chooses(c, "deleting")
    \/ Op(c) = "clear" /\ DeleteRaw(c, Goes(c, "clearing"))

StreamsToBackend(c) ==
    \/ Begins(c, "setStream") /\ Opens(c)
    \/ ~at[c].signal /\ Buffers(c)
    \/ ~at[c].signal /\ Streaming(c) /\ IsComplete(c) /\ PutsToBackend(c, Received(c))
    \/ Notices(c)
    \/ GivesUp(c)

Backend(c) ==
    \/ Ages(c) \/ Refusal(c) \/ WriteValue(c) \/ TrackBackendKey(c)
    \/ PurgeExpiredBackend(c) \/ EvictBackendIfNeeded(c) \/ WriteDeletes(c)
    \/ Read(c) \/ GetReadable(c) \/ Exists(c) \/ ReadDeletes(c) \/ DeleteValue(c) \/ DeleteDeletes(c)
    \/ ClearBackend(c) \/ StreamsToBackend(c)

----------------------------------------------------------------------------
(* without a backend, a call runs to its end at once *)

\* The oldest entries are evicted.
EvictFallbackIfNeeded(index) ==
    SubSeq(index, 1 + Len(index) - Min({Len(index), MaxEntries}), Len(index))
Holding(index) ==
    [n \in Names |-> IF \E i \in DOMAIN index : index[i].key = n THEN held[n] ELSE None]
StoresInFallback(c, content) ==
    /\ link' = [link EXCEPT !.index = EvictFallbackIfNeeded(Tracked(@, Key(c), content))]
    /\ held' = [Holding(link'.index) EXCEPT ![Key(c)] = content]
    /\ Ends(c, "ok")
Forgotten(c) ==
    /\ held' = Put(Key(c), None) /\ link' = [link EXCEPT !.index = Untracked(@, Key(c))]

FallbackWrite(c) == Begins(c, "write") /\ StoresInFallback(c, Value(c))

\* A value that is read becomes the youngest; an expired one is removed.
ReadFallback(c) ==
    /\ Begins(c, "read") \/ Begins(c, "getStream")
    /\ \/ held[Key(c)] = None /\ Quits(c, "notFound")
       \/ held[Key(c)] # None /\ Expired(held[Key(c)]) /\ Forgotten(c) /\ Ends(c, "notFound")
       \/ /\ held[Key(c)] # None /\ ~Expired(held[Key(c)])
          /\ at' = [at EXCEPT ![c].pc = "ended", ![c].answer = "value", ![c].hand = held[Key(c)]]
          /\ link' = [link EXCEPT !.index = Tracked(@, Key(c), held[Key(c)])]
          /\ UNCHANGED held
FallbackExists(c) ==
    /\ Begins(c, "exists")
    /\ IF held[Key(c)] # None /\ Expired(held[Key(c)]) THEN Forgotten(c) /\ Ends(c, "no")
       ELSE Quits(c, IF held[Key(c)] = None THEN "no" ELSE "yes")
FallbackDelete(c) ==
    /\ Begins(c, "delete")
    /\ IF held[Key(c)] = None THEN Quits(c, "notFound")
       ELSE Forgotten(c) /\ Ends(c, IF Expired(held[Key(c)]) THEN "notFound" ELSE "ok")
FallbackClear(c) ==
    /\ Begins(c, "clear")
    /\ held' = Without(Names) /\ link' = [link EXCEPT !.index = <<>>] /\ Ends(c, "ok")
FallbackGetWritable(c) ==
    \/ Begins(c, "setStream") /\ Opens(c)
    \/ ~at[c].signal /\ Buffers(c)
    \/ ~at[c].signal /\ Streaming(c) /\ IsComplete(c) /\ StoresInFallback(c, Received(c))
    \/ Notices(c)
    \/ GivesUp(c)

Fallback(c) ==
    \/ Ages(c) \/ Refusal(c) \/ FallbackWrite(c) \/ ReadFallback(c) \/ FallbackExists(c)
    \/ FallbackDelete(c) \/ FallbackClear(c) \/ FallbackGetWritable(c)

----------------------------------------------------------------------------
(* property *)

\* When calls come one after another and none has failed, what is tracked is what is held, and
\* no more is held than may be.
KeepsWithinLimit ==
    plan.serial /\ (\A c \in Calls : ~UnderWay(c) /\ at[c].answer # "failed") =>
        /\ {k \in Keys : held[k] # None} = {e.key : e \in ToSet(link.index)}
        /\ Len(link.index) <= MaxEntries
=============================================================================
