------------------------------ MODULE LruCache ------------------------------
(***************************************************************************)
(* The storage of @unikvs/lru-cache.  Every call is synchronous and so one *)
(* step; only a writable stream stays open between calls and commits when  *)
(* it is closed, whatever the cache has become by then.                    *)
(*                                                                         *)
(* A value is represented by its size.  A call that throws changes nothing *)
(* and is left out, as is exists, which is no use of a key.                *)
(***************************************************************************)
EXTENDS Naturals, Sequences, FiniteSets, SequencesExt

CONSTANTS
    Keys,
    Sizes,       \* the sizes of values and of chunks
    MaxSize,     \* the size up to which a stream buffers chunks
    Streams,     \* the writable streams, each opened once
    Unlimited,   \* no limit
    Limits       \* [entries, bytes]: the limits a cache may be made with

VARIABLES
    limits,      \* the limits of this cache; they never change
    opened,      \* whether the cache is open
    order,       \* the keys in the map, the oldest first
    sizes,       \* the recorded size of every key that has one
    totalBytes,  \* the total of the recorded sizes
    stream,      \* stream[s]: where stream s is, its key and what it buffers
    recent       \* history: all keys ever used, the least recently used first

vars == <<limits, opened, order, sizes, totalBytes, stream, recent>>

map == <<order, sizes, totalBytes>>

NoFunction == [k \in {} |-> 0]

Init ==
    /\ limits \in Limits
    /\ opened = FALSE
    /\ order = <<>>
    /\ sizes = NoFunction
    /\ totalBytes = 0
    /\ stream = [s \in Streams |-> [state |-> "new"]]
    /\ recent = <<>>

----------------------------------------------------------------------------
(* the map; m is a record of order, sizes and totalBytes *)

Map == [order |-> order, sizes |-> sizes, totalBytes |-> totalBytes]

LastOf(s, k) == Append(Remove(s, k), k)

Tracked == limits.bytes # Unlimited

WithoutEntries(m, S) ==
    [order |-> SelectSeq(m.order, LAMBDA k : k \notin S),
     sizes |-> Restrict(m.sizes, DOMAIN m.sizes \ S),
     totalBytes |-> m.totalBytes - SumFunctionOnSet(m.sizes, S \cap DOMAIN m.sizes)]

\* Mutant: the bytes of the value that is overwritten still count.
WithEntry_Counted(m, k, n) ==
    IF Tracked THEN [order |-> LastOf(m.order, k),
                     sizes |-> [x \in DOMAIN m.sizes \cup {k} |->
                                   IF x = k THEN n ELSE m.sizes[x]],
                     totalBytes |-> m.totalBytes + n]
    ELSE [m EXCEPT !.order = LastOf(@, k)]

\* m with k as its newest entry, of size n.
WithEntry(m, k, n) ==
    LET rest == WithoutEntries(m, {k})
    IN  IF Tracked THEN [order |-> Append(rest.order, k),
                         sizes |-> [x \in DOMAIN rest.sizes \cup {k} |->
                                       IF x = k THEN n ELSE rest.sizes[x]],
                         totalBytes |-> rest.totalBytes + n]
        ELSE [m EXCEPT !.order = LastOf(@, k)]

\* m without its i oldest entries.
WithoutOldest(m, i) == WithoutEntries(m, {m.order[j] : j \in 1 .. i})

\* Mutant: one entry too many is let stay.
TooManyEntries_OffByOne(m, k) ==
    limits.entries # Unlimited /\ Len(m.order) > limits.entries + 1

TooManyEntries(m, k) == limits.entries # Unlimited /\ Len(m.order) > limits.entries

\* Mutant: the value just written is evicted too.
TooManyBytes_All(m, k) == Tracked /\ m.totalBytes > limits.bytes

\* The bytes are too many and there is an entry older than k to evict.
TooManyBytes(m, k) == Tracked /\ m.totalBytes > limits.bytes /\ Head(m.order) # k

\* The oldest entries go until there are few enough of them.
EvictEntries(m, k) ==
    WithoutOldest(m, Min({i \in 0 .. Len(m.order) : ~TooManyEntries(WithoutOldest(m, i), k)}))

\* The oldest entries go until the bytes are few enough or k is the oldest.
EvictBytes(m, k) ==
    WithoutOldest(m, Min({i \in 0 .. Len(m.order) : ~TooManyBytes(WithoutOldest(m, i), k)}))

Committed(k, n) == EvictBytes(EvictEntries(WithEntry(Map, k, n), k), k)

Commit(k, n) ==
    /\ \E m \in {Committed(k, n)} :
          order' = m.order /\ sizes' = m.sizes /\ totalBytes' = m.totalBytes
    /\ recent' = LastOf(recent, k)

Reset ==
    /\ order' = <<>>
    /\ sizes' = NoFunction
    /\ totalBytes' = 0

----------------------------------------------------------------------------
(* the calls *)

Open ==
    /\ ~opened
    /\ opened' = TRUE
    /\ UNCHANGED <<limits, map, stream, recent>>

Close ==
    /\ opened
    /\ Reset
    /\ opened' = FALSE
    /\ UNCHANGED <<limits, stream, recent>>

Write(k, n) ==
    /\ opened
    /\ Commit(k, n)
    /\ UNCHANGED <<limits, opened, stream>>

\* Mutant: reading a key does not count as using it.
Read_Untouched(k) ==
    /\ opened /\ Contains(order, k)
    /\ recent' = LastOf(recent, k)
    /\ UNCHANGED <<limits, opened, map, stream>>

\* read and getReadable.
Read(k) ==
    /\ opened /\ Contains(order, k)
    /\ order' = LastOf(order, k)
    /\ recent' = LastOf(recent, k)
    /\ UNCHANGED <<limits, opened, sizes, totalBytes, stream>>

Delete(k) ==
    /\ opened /\ Contains(order, k)
    /\ LET m == WithoutEntries(Map, {k})
       IN  order' = m.order /\ sizes' = m.sizes /\ totalBytes' = m.totalBytes
    /\ UNCHANGED <<limits, opened, stream, recent>>

\* clear does not ask whether the cache is open.
Clear ==
    /\ Reset
    /\ UNCHANGED <<limits, opened, stream, recent>>

GetWritable(s, k) ==
    /\ opened /\ stream[s].state = "new"
    /\ stream' = [stream EXCEPT ![s] = [state |-> "open", key |-> k, size |-> 0]]
    /\ UNCHANGED <<limits, opened, map, recent>>

Chunk(s, n) ==
    /\ stream[s].state = "open" /\ stream[s].size + n <= MaxSize
    /\ stream' = [stream EXCEPT ![s].size = @ + n]
    /\ UNCHANGED <<limits, opened, map, recent>>

\* Mutant: a stream commits into a cache that is closed.
CloseStream_Late(s) ==
    /\ stream[s].state = "open"
    /\ stream' = [stream EXCEPT ![s] = [state |-> "done"]]
    /\ Commit(stream[s].key, stream[s].size)
    /\ UNCHANGED <<limits, opened>>

\* A stream commits if the cache is open then, be it open again.
CloseStream(s) ==
    /\ stream[s].state = "open"
    /\ stream' = [stream EXCEPT ![s] = [state |-> "done"]]
    /\ \/ opened /\ Commit(stream[s].key, stream[s].size)
       \/ ~opened /\ UNCHANGED <<map, recent>>
    /\ UNCHANGED <<limits, opened>>

AbortStream(s) ==
    /\ stream[s].state = "open"
    /\ stream' = [stream EXCEPT ![s] = [state |-> "done"]]
    /\ UNCHANGED <<limits, opened, map, recent>>

Next ==
    \/ Open \/ Close \/ Clear
    \/ \E k \in Keys :
          \/ Read(k) \/ Delete(k)
          \/ \E n \in Sizes : Write(k, n)
          \/ \E s \in Streams : GetWritable(s, k)
    \/ \E s \in Streams :
          \/ CloseStream(s) \/ AbortStream(s)
          \/ \E n \in Sizes : Chunk(s, n)

Spec == Init /\ [][Next]_vars

----------------------------------------------------------------------------
(* properties *)

\* Every variable has its type (the private fields of LruCache).
TypeOK ==
    /\ opened \in BOOLEAN
    /\ IsInjective(order) /\ ToSet(order) \subseteq Keys
    /\ DOMAIN sizes \subseteq Keys /\ Range(sizes) \subseteq Nat
    /\ totalBytes \in Nat

\* The total that eviction relies on is the sum of what the map holds, however
\* entries were overwritten, evicted, deleted or committed by a late stream; a
\* cache that is closed holds nothing, even if streams outlive it.
BytesAreExact ==
    /\ DOMAIN sizes = IF Tracked THEN ToSet(order) ELSE {}
    /\ totalBytes = SumFunction(sizes)
    /\ ~opened => order = <<>>

IsOver(m) ==
    \/ limits.entries # Unlimited /\ Len(m.order) > limits.entries
    \/ Tracked /\ m.totalBytes > limits.bytes

\* The cache keeps within its limits; only a value that is too large on its own
\* stays, alone.
WithinLimits ==
    /\ limits.entries # Unlimited => Len(order) <= limits.entries
    /\ Tracked => totalBytes <= limits.bytes \/ Len(order) = 1

\* What a write leaves is the entries that were used last, by write or by read,
\* and as many of them as fit: with one more, the map would be over one of its
\* limits.  The value that is written stays unless the cache may not have any.
KeepsTheRecent ==
    [][\A k \in Keys, n \in Sizes :
          Write(k, n) =>
             LET full == WithEntry(Map, k, n)
                 byUse == SelectSeq(recent', LAMBDA x : Contains(full.order, x))
                 kept == Len(order')
                 next == WithoutOldest(full, Len(full.order) - kept - 1)
             IN  /\ IsSuffix(order', byUse)
                 /\ limits.entries # 0 => kept > 0
                 /\ kept < Len(full.order) => IsOver(next)]_vars

=============================================================================
