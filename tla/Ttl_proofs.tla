----------------------------- MODULE Ttl_proofs -----------------------------
(***************************************************************************)
(* Theorems about Ttl, for any keys, calls, plans and clock: no expired    *)
(* value is served, no living one is hidden, and the records are exact, if *)
(* no get of a key runs while the key is written.                          *)
(*                                                                         *)
(* A record is exact for the value that the last settled write has left,   *)
(* which is the stored one until the next write; that only one write is    *)
(* between the two comes from the locks, and that no get carries what it   *)
(* has read past a write comes from Careful.                               *)
(***************************************************************************)
EXTENDS Ttl, TLAPS

Plain == IsPlain(plan)

Entries == [value : Calls \cup {Old, None}, seal : Time]

Types ==
    /\ now \in Nat
    /\ TypeOK
    /\ dead \in [Calls -> BOOLEAN]
    /\ staged \in [Calls -> Time]
    /\ hand \in [Calls -> Entries]
    /\ settled \in [Keys -> Calls \cup {Old, None}]
    /\ due \in [Calls \cup {Old} -> Time]
    /\ missed \in [Calls -> BOOLEAN]
    /\ plan \in [old : Time, restart : BOOLEAN, request : [Calls -> Requests]]
    /\ Plain \/ IsStreaming(plan)

\* A write of k is done and not yet settled.
Unsettled(k) == \E c \in Calls : pc[c] = "settle" /\ k \in Written(c)

\* Where a call is says what it is, what it has staged and what it has found.
CallOK(c) ==
    /\ pc[c] # "done" => Kind(c) # "none" /\ answer[c] = "none"
    /\ pc[c] = "decode" => Kind(c) = "get"
    /\ pc[c] = "open" => Kind(c) = "stream"
    /\ pc[c] = "settle" => Kind(c) \notin Reads
    /\ pc[c] \in {"lock", "io", "settle"} /\ Kind(c) \in Sets => staged[c] = due[c]
    /\ dead[c] => pc[c] # "idle" /\ missed[c]
    /\ answer[c] = "notFound" => missed[c]
    /\ pc[c] \in {"decode", "open"} => hand[c] = stored[Key(c)] /\ hand[c] # Nothing

CallsOK == \A c \in Calls : CallOK(c)

\* Calls that hold a common key only read.
LocksOK ==
    \A c, d \in Calls : c # d /\ Locked(c) /\ Locked(d) /\ KeysOf(c) \cap KeysOf(d) # {} =>
                            Kind(c) \in Reads /\ Kind(d) \in Reads

\* No get of a key runs while the key is written.
CarefulOK ==
    \A c, d \in Calls : Running(c) /\ Running(d) /\ Kind(c) = "get" => Key(c) \notin Written(d)

\* Plain values have their time in the envelope, and streams have none; a key
\* without an unsettled write has the value of its last settled one.
StoredOK ==
    \A k \in Keys :
        /\ stored[k].value = None => stored[k] = Nothing
        /\ stored[k].value # None =>
              stored[k].seal = IF Plain THEN due[stored[k].value] ELSE Never
        /\ \A c \in {stored[k].value, settled[k]} : c \in Calls => pc[c] # "idle"
        /\ ~Unsettled(k) => settled[k] = stored[k].value

\* A record is that of the last settled value, and only a plain one may have none.
RecordsOK ==
    \A k \in Keys :
        /\ record[k] # Never => settled[k] # None /\ record[k] = due[settled[k]]
        /\ ~Plain /\ settled[k] # None => record[k] = due[settled[k]]

\* What a write has left, before it is settled.
WriteOK(c) ==
    /\ Kind(c) \in Sets => stored[Key(c)].value = c
    /\ Kind(c) \in {"delete", "clear"} => \A k \in Written(c) : stored[k] = Nothing
    /\ Kind(c) \in Transfers =>
          /\ settled[Key(c)] # None /\ stored[Dest(c)].value = settled[Key(c)]
          /\ Kind(c) = "move" /\ Key(c) # Dest(c) => stored[Key(c)] = Nothing

WritesOK == \A c \in Calls : pc[c] = "settle" => WriteOK(c)

IInv == Types /\ CallsOK /\ LocksOK /\ CarefulOK /\ StoredOK /\ RecordsOK /\ WritesOK

----------------------------------------------------------------------------
(* the requests *)

\* What a request has depends on its kind, and on the plan.
LEMMA Requested ==
    ASSUME Types, NEW c \in Calls
    PROVE  /\ Kind(c) \in Reads \cup Transfers \cup Sets \cup {"delete", "clear", "none"}
           /\ Kind(c) \notin {"clear", "none"} => Key(c) \in Keys
           /\ Kind(c) \in Transfers => Dest(c) \in Keys
           /\ Kind(c) \in Sets => Request(c).ttl \in Time
           /\ Plain => Kind(c) \notin {"setStream", "stream"}
           /\ ~Plain => Kind(c) \notin {"set", "get"}
<1>1. plan.request[c] \in Requests
  BY DEF Types
<1>2. Plain => Kind(c) \notin {"setStream", "stream"}
  BY DEF Plain, IsPlain, Kind, Request
<1>3. ~Plain => Kind(c) \notin {"set", "get"}
  BY DEF Types, IsStreaming, Kind, Request
<1> QED
  BY <1>1, <1>2, <1>3 DEF Requests, Kind, Key, Dest, Request, Reads, Transfers, Sets

LEMMA KeysHeld ==
    ASSUME Types, NEW c \in Calls, Kind(c) # "none"
    PROVE  /\ KeysOf(c) \subseteq Keys
           /\ Written(c) \subseteq KeysOf(c)
           /\ Kind(c) # "clear" => Key(c) \in KeysOf(c)
           /\ Kind(c) \in Sets \cup {"delete"} => Written(c) = {Key(c)}
           /\ Kind(c) = "clear" => Written(c) = Keys
           /\ Kind(c) = "copy" => Written(c) = {Dest(c)}
           /\ Kind(c) = "move" => Written(c) = {Key(c), Dest(c)}
           /\ Kind(c) \in Reads => Written(c) = {}
           /\ Kind(c) \notin Reads \cup Transfers => Written(c) = KeysOf(c)
           /\ Kind(c) \in Transfers => KeysOf(c) = {Key(c), Dest(c)}
  BY Requested DEF KeysOf, Written, Reads, Transfers, Sets

SameRequests == plan'.request = plan.request /\ plan'.old = plan.old

\* No step changes a request.
LEMMA RequestsKept ==
    ASSUME SameRequests
    PROVE  /\ Plain' = Plain
           /\ \A c : /\ Kind(c)' = Kind(c) /\ Key(c)' = Key(c) /\ Dest(c)' = Dest(c)
                     /\ KeysOf(c)' = KeysOf(c) /\ Written(c)' = Written(c)
<1>1. \A c : Kind(c)' = Kind(c) /\ Key(c)' = Key(c) /\ Dest(c)' = Dest(c)
  BY DEF SameRequests, Kind, Key, Dest, Request
<1>2. Plain' = Plain
  BY DEF SameRequests, Plain, IsPlain
<1>3. \A c : KeysOf(c)' = KeysOf(c)
  BY <1>1 DEF KeysOf
<1>4. \A c : Written(c)' = Written(c)
  BY <1>1, <1>3 DEF Written
<1> QED
  BY <1>1, <1>2, <1>3, <1>4

----------------------------------------------------------------------------
(* what the locks and Careful give *)

\* Nobody is about to settle a key that c holds.
LEMMA HeldIsSettled ==
    ASSUME Types, CallsOK, LocksOK, NEW c \in Calls, NEW k \in KeysOf(c),
           pc[c] \in {"io", "open"}
    PROVE  ~Unsettled(k)
<1> SUFFICES ASSUME NEW d \in Calls, pc[d] = "settle", k \in Written(d)
             PROVE  FALSE
  BY DEF Unsettled
<1>1. Kind(d) # "none" /\ Kind(d) \notin Reads
  BY DEF CallsOK, CallOK
<1>2. k \in KeysOf(d)
  BY <1>1, KeysHeld
<1> QED
  BY <1>1, <1>2 DEF LocksOK, Locked

\* A writer that holds k holds it alone.
LEMMA WriterIsAlone ==
    ASSUME LocksOK, NEW c \in Calls, NEW d \in Calls, c # d, Locked(c), Locked(d),
           Kind(c) \notin Reads
    PROVE  KeysOf(c) \cap KeysOf(d) = {}
  BY DEF LocksOK

\* What a running get reads is settled.
LEMMA ReadIsSettled ==
    ASSUME Types, CallsOK, CarefulOK, NEW c \in Calls, pc[c] = "decode"
    PROVE  ~Unsettled(Key(c))
  BY DEF Unsettled, CallsOK, CallOK, CarefulOK, Running

\* What a reader or a transfer finds is the value of the last settled write.
LEMMA FoundIsSettled ==
    ASSUME IInv, NEW c \in Calls, pc[c] \in {"io", "open", "decode"},
           Kind(c) \in Reads \cup Transfers
    PROVE  settled[Key(c)] = stored[Key(c)].value
<1>1. Kind(c) \notin {"clear", "none"}
  BY DEF Reads, Transfers
<1>2. Key(c) \in Keys /\ Key(c) \in KeysOf(c)
  BY <1>1, Requested, KeysHeld DEF IInv
<1>3. ~Unsettled(Key(c))
  BY <1>2, HeldIsSettled, ReadIsSettled DEF IInv
<1> QED
  BY <1>2, <1>3 DEF IInv, StoredOK

----------------------------------------------------------------------------
(* what could have been missed *)

LEMMA GoneIsBoolean ==
    ASSUME NEW k
    PROVE  Gone(k) \in BOOLEAN
  BY DEF Gone

\* What a step notes stays noted while the call runs.
LEMMA Noted ==
    ASSUME Types, Note
    PROVE  /\ missed' \in [Calls -> BOOLEAN]
           /\ \A c \in Calls : pc[c] # "idle" /\ missed[c] => missed'[c]
           /\ \A c \in Calls : pc[c] # "done" /\ Kind(c) # "clear" /\ Gone(Key(c)) => missed'[c]
<1> DEFINE M(c) == CASE pc[c] = "idle" -> Kind(c) # "clear" /\ Gone(Key(c))
                     [] pc[c] = "done" -> missed[c]
                     [] OTHER -> missed[c] \/ (Kind(c) # "clear" /\ Gone(Key(c)))
<1>1. missed' = [c \in Calls |-> M(c)]
  BY DEF Note
<1>2. \A c \in Calls : M(c) \in BOOLEAN
  <2> SUFFICES ASSUME NEW c \in Calls
               PROVE  M(c) \in BOOLEAN
    OBVIOUS
  <2>1. missed[c] \in BOOLEAN
    BY DEF Types
  <2> QED
    BY <2>1
<1>3. \A c \in Calls : pc[c] # "idle" /\ missed[c] => M(c)
  OBVIOUS
<1>4. \A c \in Calls : pc[c] # "done" /\ Kind(c) # "clear" /\ Gone(Key(c)) => M(c)
  OBVIOUS
<1>5. \A c \in Calls : missed'[c] = M(c)
  BY <1>1
<1> HIDE DEF M
<1> QED
  BY <1>1, <1>2, <1>3, <1>4, <1>5

----------------------------------------------------------------------------
(* the initial states *)

LEMMA IInvAtFirst ==
    ASSUME Admitted, Init
    PROVE  IInv
<1>1. /\ plan \in [old : Time, restart : BOOLEAN, request : [Calls -> Requests]]
      /\ Plain \/ IsStreaming(plan)
  BY DEF Admitted, Init, Plain
<1>2. \A k \in Keys : settled[k] \in {None, Old}
  BY DEF Init
<1>3. \A k \in Keys : stored[k] = IF settled[k] = None THEN Nothing ELSE Content(Old, due[Old])
  BY DEF Init
<1>4. due[Old] = plan.old /\ due \in [Calls \cup {Old} -> Time]
  BY <1>1 DEF Init, Time
<1>5. \A c \in Calls : pc[c] \in {"idle", "done"} /\ (Kind(c) = "none" => pc[c] = "done")
                       /\ (Kind(c) # "none" => pc[c] = "idle")
  BY DEF Init
<1>6. Types
  <2>1. stored \in [Keys -> Entries]
    <3>1. Nothing \in Entries /\ Content(Old, due[Old]) \in Entries
      BY <1>1, <1>4 DEF Nothing, Content, Entries, Time
    <3> QED
      BY <1>3, <3>1 DEF Init
  <2>2. TypeOK
    BY <2>1, <1>5 DEF Init, TypeOK, Admitted, Entries, Time
  <2>3. hand \in [Calls -> Entries] /\ staged \in [Calls -> Time]
    BY DEF Init, Nothing, Content, Entries, Time
  <2> QED
    BY <1>1, <1>4, <2>2, <2>3 DEF Types, Init
<1>7. CallsOK
  BY <1>5 DEF CallsOK, CallOK, Init
<1>8. LocksOK /\ CarefulOK /\ WritesOK
  BY <1>5 DEF LocksOK, Locked, CarefulOK, Running, WritesOK
<1>9. StoredOK
  <2> SUFFICES ASSUME NEW k \in Keys
               PROVE  /\ stored[k].value = None => stored[k] = Nothing
                      /\ stored[k].value # None =>
                            stored[k].seal = IF Plain THEN due[stored[k].value] ELSE Never
                      /\ settled[k] = stored[k].value
                      /\ settled[k] \notin Calls
    BY DEF StoredOK
  <2>1. settled[k] \in {None, Old} /\ None # Old /\ None \notin Calls /\ Old \notin Calls
    BY <1>2 DEF Admitted
  <2>2. ~Plain => plan.old = Never
    BY <1>1 DEF IsStreaming
  <2> QED
    BY <1>3, <1>4, <2>1, <2>2 DEF Nothing, Content
<1>10. RecordsOK
  <2> SUFFICES ASSUME NEW k \in Keys
               PROVE  /\ record[k] = Never
                      /\ ~Plain /\ settled[k] # None => due[settled[k]] = Never
    BY DEF RecordsOK
  <2>1. record[k] = Never
    BY DEF Init
  <2>2. ~Plain => plan.old = Never
    BY <1>1 DEF IsStreaming
  <2> QED
    BY <1>2, <1>4, <2>1, <2>2
<1> QED
  BY <1>6, <1>7, <1>8, <1>9, <1>10 DEF IInv

----------------------------------------------------------------------------
(* what a step leaves as it is *)

\* A call whose own variables stay is as it was.
LEMMA CallKept ==
    ASSUME Types, CallsOK, SameRequests, Note, NEW c \in Calls,
           pc'[c] = pc[c], answer'[c] = answer[c], dead'[c] = dead[c],
           staged'[c] = staged[c], hand'[c] = hand[c],
           pc[c] # "idle" => due'[c] = due[c],
           pc[c] \in {"decode", "open"} => stored'[Key(c)] = stored[Key(c)]
    PROVE  CallOK(c)'
<1>1. CallOK(c)
  BY DEF CallsOK
<1>2. pc[c] # "idle" /\ missed[c] => missed'[c]
  BY Noted
<1>3. answer[c] = "notFound" => pc[c] = "done"
  BY <1>1 DEF CallOK
<1>4. Nothing' = Nothing
  BY DEF Nothing, Content
<1> QED
  BY <1>1, <1>2, <1>3, <1>4, RequestsKept DEF CallOK

LEMMA LocksKept ==
    ASSUME LocksOK, SameRequests, \A c \in Calls : Locked(c)' => Locked(c)
    PROVE  LocksOK'
  BY RequestsKept DEF LocksOK

LEMMA CarefulKept ==
    ASSUME CarefulOK, SameRequests, \A c \in Calls : Running(c)' => Running(c)
    PROVE  CarefulOK'
  BY RequestsKept DEF CarefulOK

\* An idle call may stage what it likes: nobody has its value yet.
LEMMA StoredKept ==
    ASSUME Types, StoredOK, SameRequests, stored' = stored, settled' = settled,
           \A c \in Calls : pc'[c] = "idle" => pc[c] = "idle",
           \A c \in Calls : pc[c] = "settle" => pc'[c] = "settle",
           \A v \in Calls \cup {Old} : (v \in Calls => pc[v] # "idle") => due'[v] = due[v]
    PROVE  StoredOK'
<1> SUFFICES ASSUME NEW k \in Keys
             PROVE  (/\ stored[k].value = None => stored[k] = Nothing
                     /\ stored[k].value # None =>
                           stored[k].seal = IF Plain THEN due[stored[k].value] ELSE Never
                     /\ \A c \in {stored[k].value, settled[k]} : c \in Calls => pc[c] # "idle"
                     /\ ~Unsettled(k) => settled[k] = stored[k].value)'
  BY DEF StoredOK
<1>1. Unsettled(k) => Unsettled(k)'
  BY RequestsKept DEF Unsettled
<1>2. stored[k].value \in Calls \cup {Old, None}
  BY DEF Types, TypeOK
<1>3. stored[k].value # None => due'[stored[k].value] = due[stored[k].value]
  BY <1>2 DEF StoredOK
<1> QED
  BY <1>1, <1>2, <1>3, RequestsKept DEF StoredOK, Nothing, Content

LEMMA RecordsKept ==
    ASSUME Types, StoredOK, RecordsOK, SameRequests, record' = record, settled' = settled,
           \A v \in Calls \cup {Old} : (v \in Calls => pc[v] # "idle") => due'[v] = due[v]
    PROVE  RecordsOK'
<1> SUFFICES ASSUME NEW k \in Keys
             PROVE  /\ record[k] # Never => settled[k] # None /\ record[k] = due'[settled[k]]
                    /\ ~Plain /\ settled[k] # None => record[k] = due'[settled[k]]
  BY RequestsKept DEF RecordsOK
<1>1. settled[k] \in Calls \cup {Old, None}
  BY DEF Types
<1>2. settled[k] # None => due'[settled[k]] = due[settled[k]]
  BY <1>1 DEF StoredOK
<1> QED
  BY <1>2 DEF RecordsOK

LEMMA WritesKept ==
    ASSUME WritesOK, SameRequests, stored' = stored, settled' = settled,
           \A c \in Calls : pc'[c] = "settle" => pc[c] = "settle"
    PROVE  WritesOK'
<1>1. Nothing' = Nothing
  BY DEF Nothing, Content
<1> QED
  BY <1>1, RequestsKept DEF WritesOK, WriteOK

----------------------------------------------------------------------------
(* the start of a call *)

LEMMA StartIsCareful ==
    ASSUME Careful, Types, CarefulOK, SameRequests, NEW c \in Calls, MayStart(c), pc[c] = "idle",
           pc' = [pc EXCEPT ![c] = "lock"]
    PROVE  CarefulOK'
<1> SUFFICES ASSUME NEW d \in Calls, NEW e \in Calls, Running(d)', Running(e)', Kind(d) = "get"
             PROVE  Key(d) \notin Written(e)
  BY RequestsKept DEF CarefulOK
<1>1. \A x \in Calls : x # c => (Running(x)' <=> Running(x))
  BY DEF Running, Types, TypeOK
<1>2. Kind(c) = "get" => Written(c) = {}
  BY DEF Written, Reads
<1>3. CASE d # c /\ e # c
  BY <1>1, <1>3 DEF CarefulOK
<1>4. CASE d = c /\ e # c
  BY <1>1, <1>4 DEF MayStart
<1>5. CASE d # c /\ e = c
  BY <1>1, <1>5 DEF MayStart
<1>6. CASE d = c /\ e = c
  BY <1>2, <1>6
<1> QED
  BY <1>3, <1>4, <1>5, <1>6

\* Whose record has expired is gone.
LEMMA ExpiredIsGone ==
    ASSUME RecordsOK, NEW k \in Keys, IsExpired(record[k])
    PROVE  Gone(k)
  BY DEF RecordsOK, IsExpired, Gone

LEMMA UseKeeps ==
    ASSUME Admitted, Careful, IInv, NEW c \in Calls, Use(c), Note
    PROVE  IInv'
<1>1. SameRequests /\ pc[c] = "idle" /\ pc' = [pc EXCEPT ![c] = "lock"] /\ answer' = answer
  BY DEF Use, Goto, SameRequests
<1>2. \A d \in Calls : d # c => pc'[d] = pc[d] /\ dead'[d] = dead[d]
  BY <1>1 DEF Use, IInv, Types, TypeOK
<1>3. pc'[c] = "lock"
  BY <1>1 DEF IInv, Types, TypeOK
<1>4. dead'[c] = (Kind(c) \in Reads \cup Transfers /\ IsExpired(record[Key(c)]))
  BY DEF Use, IInv, Types
<1>5. Types'
  <2>1. (Kind(c) \in Reads \cup Transfers /\ IsExpired(record[Key(c)])) \in BOOLEAN
    BY DEF IsExpired
  <2>2. dead' \in [Calls -> BOOLEAN]
    BY <2>1 DEF Use, IInv, Types
  <2> QED
    BY <1>1, <2>2, Noted, RequestsKept DEF Use, IInv, Types, TypeOK, Entries
<1>6. CallsOK'
  <2>1. CallOK(c)'
    <3>1. CallOK(c) /\ Kind(c) \notin Sets
      BY DEF IInv, CallsOK, Use
    <3>2. dead'[c] => missed'[c]
      <4> SUFFICES ASSUME dead'[c]
                   PROVE  missed'[c]
        OBVIOUS
      <4>1. Kind(c) \in Reads \cup Transfers /\ IsExpired(record[Key(c)])
        BY <1>4
      <4>2. Kind(c) \notin {"clear", "none"} /\ Key(c) \in Keys
        BY <4>1, Requested DEF IInv, Reads, Transfers
      <4>3. Gone(Key(c))
        BY <4>1, <4>2, ExpiredIsGone DEF IInv
      <4> QED
        BY <1>1, <4>2, <4>3, Noted DEF IInv
    <3> QED
      BY <1>1, <1>3, <3>1, <3>2, RequestsKept DEF CallOK
  <2>2. ASSUME NEW d \in Calls, d # c
        PROVE  CallOK(d)'
    BY <1>1, <1>2, <2>2, CallKept DEF IInv, Use
  <2> QED
    BY <2>1, <2>2 DEF CallsOK
<1>7. LocksOK'
  BY <1>1, <1>2, <1>3, LocksKept DEF IInv, Locked
<1>8. CarefulOK'
  BY <1>1, StartIsCareful DEF IInv, Use
<1>9. StoredOK'
  BY <1>1, <1>2, <1>3, StoredKept DEF IInv, Use
<1>10. RecordsOK'
  BY <1>1, RecordsKept DEF IInv, Use
<1>11. WritesOK'
  BY <1>1, <1>2, <1>3, WritesKept DEF IInv, Use
<1> QED
  BY <1>5, <1>6, <1>7, <1>8, <1>9, <1>10, <1>11 DEF IInv

LEMMA EncodeKeeps ==
    ASSUME Admitted, Careful, IInv, NEW c \in Calls, Encode(c), Note
    PROVE  IInv'
<1>1. SameRequests /\ pc[c] = "idle" /\ pc' = [pc EXCEPT ![c] = "lock"] /\ answer' = answer
  BY DEF Encode, Goto, SameRequests
<1>2. \A d \in Calls : d # c => pc'[d] = pc[d] /\ staged'[d] = staged[d]
  BY <1>1 DEF Encode, IInv, Types, TypeOK
<1>3. pc'[c] = "lock" /\ staged'[c] = Lifetime(c) /\ due'[c] = Lifetime(c)
  BY <1>1 DEF Encode, IInv, Types, TypeOK
<1>4. \A v \in Calls \cup {Old} : v # c => due'[v] = due[v]
  BY DEF Encode, IInv, Types
<1>5. Types'
  <2>1. Lifetime(c) \in Time
    <3>1. Request(c).ttl \in Time /\ now \in Nat
      BY Requested DEF IInv, Types, Encode
    <3> QED
      BY <3>1 DEF Lifetime, Time
  <2>2. staged' \in [Calls -> Time] /\ due' \in [Calls \cup {Old} -> Time]
    BY <2>1 DEF Encode, IInv, Types
  <2> QED
    BY <1>1, <2>2, Noted, RequestsKept DEF Encode, IInv, Types, TypeOK, Entries
<1>6. CallsOK'
  <2>1. CallOK(c)'
    BY <1>1, <1>3, RequestsKept DEF IInv, CallsOK, CallOK, Encode
  <2>2. ASSUME NEW d \in Calls, d # c
        PROVE  CallOK(d)'
    BY <1>1, <1>2, <1>4, <2>2, CallKept DEF IInv, Encode
  <2> QED
    BY <2>1, <2>2 DEF CallsOK
<1>7. LocksOK'
  BY <1>1, <1>2, <1>3, LocksKept DEF IInv, Locked
<1>8. CarefulOK'
  BY <1>1, StartIsCareful DEF IInv, Encode
<1>9. StoredOK'
  BY <1>1, <1>2, <1>3, <1>4, StoredKept DEF IInv, Encode
<1>10. RecordsOK'
  BY <1>1, <1>4, RecordsKept DEF IInv, Encode
<1>11. WritesOK'
  BY <1>1, <1>2, <1>3, WritesKept DEF IInv, Encode
<1> QED
  BY <1>5, <1>6, <1>7, <1>8, <1>9, <1>10, <1>11 DEF IInv

----------------------------------------------------------------------------
(* the steps that only move a call on *)

\* What such a step leaves as it is.
Quiet ==
    /\ UNCHANGED <<now, stored, record, dead, staged, settled, due, plan>>
    /\ \A c \in Calls : /\ pc'[c] = "idle" => pc[c] = "idle"
                        /\ pc[c] = "settle" <=> pc'[c] = "settle"
                        /\ Running(c)' => Running(c)

\* Only a lock needs to be looked at besides the call itself.
LEMMA QuietKeeps ==
    ASSUME IInv, Quiet
    PROVE  SameRequests /\ CarefulOK' /\ StoredOK' /\ RecordsOK' /\ WritesOK'
<1>1. SameRequests
  BY DEF Quiet, SameRequests
<1> QED
  BY <1>1, CarefulKept, StoredKept, RecordsKept, WritesKept DEF IInv, Quiet

LEMMA LockKeeps ==
    ASSUME IInv, NEW c \in Calls, Lock(c), Note
    PROVE  IInv'
<1>1. pc[c] = "lock" /\ pc' = [pc EXCEPT ![c] = "io"] /\ answer' = answer
  BY DEF Lock, Goto
<1>2. pc'[c] = "io" /\ \A d \in Calls : d # c => pc'[d] = pc[d]
  BY <1>1 DEF IInv, Types, TypeOK
<1>3. Quiet
  BY <1>1, <1>2 DEF Lock, Quiet, Running
<1>4. SameRequests /\ CarefulOK' /\ StoredOK' /\ RecordsOK' /\ WritesOK'
  BY <1>3, QuietKeeps
<1>5. Types'
  BY <1>1, <1>4, Noted, RequestsKept DEF Lock, IInv, Types, TypeOK, Entries
<1>6. CallsOK'
  <2>1. CallOK(c)'
    BY <1>1, <1>2, <1>4, Noted, RequestsKept DEF IInv, CallsOK, CallOK, Lock
  <2>2. ASSUME NEW d \in Calls, d # c
        PROVE  CallOK(d)'
    BY <1>1, <1>2, <1>4, <2>2, CallKept DEF IInv, Lock
  <2> QED
    BY <2>1, <2>2 DEF CallsOK
<1>7. LocksOK'
  <2> SUFFICES ASSUME NEW d \in Calls, NEW e \in Calls, d # e, Locked(d)', Locked(e)',
                      KeysOf(d) \cap KeysOf(e) # {}
               PROVE  Kind(d) \in Reads /\ Kind(e) \in Reads
    BY <1>4, RequestsKept DEF LocksOK
  <2>1. \A x \in Calls : x # c /\ Locked(x)' => Locked(x)
    BY <1>2 DEF Locked
  <2>2. CASE d # c /\ e # c
    BY <2>1, <2>2 DEF IInv, LocksOK
  <2>3. CASE d = c \/ e = c
    BY <2>1, <2>3 DEF Lock, CanLock
  <2> QED
    BY <2>2, <2>3
<1> QED
  BY <1>4, <1>5, <1>6, <1>7 DEF IInv

\* A call that finds nothing was right to.
LEMMA NothingFoundIsMissed ==
    ASSUME Admitted, IInv, Note, NEW c \in Calls, pc[c] = "io", Kind(c) \in Reads \cup Transfers,
           Found(c) = Nothing
    PROVE  missed'[c]
<1>1. Kind(c) \notin {"clear", "none"} /\ Key(c) \in Keys
  BY Requested DEF IInv, Reads, Transfers
<1>2. CASE dead[c]
  BY <1>2, Noted DEF IInv, CallsOK, CallOK
<1>3. CASE ~dead[c]
  <2>1. stored[Key(c)].value = None
    BY <1>3 DEF Found, Nothing, Content
  <2>2. Gone(Key(c))
    BY <2>1, FoundIsSettled DEF Gone
  <2> QED
    BY <1>1, <2>2, Noted DEF IInv
<1> QED
  BY <1>2, <1>3

LEMMA ReadKeeps ==
    ASSUME Admitted, IInv, NEW c \in Calls, Read(c), Note
    PROVE  IInv'
<1>1. /\ pc[c] = "io" /\ Kind(c) \in Reads
      /\ \/ Found(c) = Nothing /\ End(c, "notFound")
         \/ Found(c) # Nothing /\ Kind(c) = "has" /\ End(c, "exists")
         \/ Found(c) # Nothing /\ Kind(c) = "get" /\ Goto(c, "decode")
         \/ Found(c) # Nothing /\ Kind(c) = "stream" /\ Goto(c, "open")
  BY DEF Read
<1>2. /\ \A d \in Calls : d # c => pc'[d] = pc[d] /\ answer'[d] = answer[d] /\ hand'[d] = hand[d]
      /\ pc'[c] \in {"done", "decode", "open"}
  BY <1>1 DEF Read, End, Goto, IInv, Types, TypeOK
<1>3. /\ pc'[c] = "decode" => Kind(c) = "get" /\ Found(c) # Nothing
      /\ pc'[c] = "open" => Kind(c) = "stream" /\ Found(c) # Nothing
      /\ answer'[c] = "notFound" => Found(c) = Nothing
      /\ pc'[c] # "done" => answer'[c] = "none"
  BY <1>1 DEF End, Goto, IInv, Types, TypeOK, CallsOK, CallOK
<1>4. hand'[c] = Found(c)
  BY DEF Read, IInv, Types
<1>5. Quiet
  BY <1>1, <1>2 DEF Read, Quiet, Running
<1>6. SameRequests /\ CarefulOK' /\ StoredOK' /\ RecordsOK' /\ WritesOK'
  BY <1>5, QuietKeeps
<1>7. Types'
  <2>1. Found(c) \in Entries
    <3>1. Nothing \in Entries
      BY DEF Nothing, Content, Entries, Time
    <3>2. Key(c) \in Keys
      BY <1>1, Requested DEF IInv, Reads
    <3> QED
      BY <3>1, <3>2 DEF Found, IInv, Types, TypeOK, Entries, Time
  <2>2. hand' \in [Calls -> Entries]
    BY <2>1 DEF Read, IInv, Types
  <2>3. /\ pc' \in [Calls -> {"idle", "lock", "io", "decode", "open", "settle", "done"}]
        /\ answer' \in [Calls -> {"none", "notFound", "exists", "served", "ok", "aborted",
                                  "failed", "crashed"}]
    BY <1>1 DEF End, Goto, IInv, Types, TypeOK
  <2> QED
    BY <1>6, <2>2, <2>3, Noted, RequestsKept DEF Read, IInv, Types, TypeOK, Entries
<1>8. CallsOK'
  <2>1. CallOK(c)'
    <3>1. CallOK(c) /\ Kind(c) \notin Sets
      BY <1>1 DEF IInv, CallsOK, Reads, Sets
    <3>2. dead'[c] => missed'[c]
      BY <1>1, <3>1, Noted DEF Read, IInv, CallOK
    <3>3. Found(c) # Nothing => Found(c) = stored[Key(c)]
      BY DEF Found
    <3>4. stored' = stored /\ dead' = dead /\ Nothing' = Nothing
      BY DEF Read, Nothing, Content
    <3>5. answer'[c] = "notFound" => missed'[c]
      BY <1>1, <1>3, NothingFoundIsMissed
    <3>6. pc[c] # "idle" /\ pc[c] # "done"
      BY <1>1
    <3> QED
      BY <1>2, <1>3, <1>4, <1>6, <3>1, <3>2, <3>3, <3>4, <3>5, <3>6, RequestsKept DEF CallOK
  <2>2. ASSUME NEW d \in Calls, d # c
        PROVE  CallOK(d)'
    BY <1>2, <1>6, <2>2, CallKept DEF IInv, Read
  <2> QED
    BY <2>1, <2>2 DEF CallsOK
<1>9. LocksOK'
  BY <1>1, <1>2, <1>6, LocksKept DEF IInv, Locked
<1> QED
  BY <1>6, <1>7, <1>8, <1>9 DEF IInv

\* A call that ends, and changes nothing but its answer.
LEMMA EndKeeps ==
    ASSUME IInv, Note, NEW c \in Calls, pc[c] \in {"lock", "io", "open"},
           NEW result \in {"notFound", "served", "failed"}, End(c, result),
           result = "notFound" => missed'[c],
           UNCHANGED <<now, stored, record, dead, staged, hand, settled, due, plan>>
    PROVE  IInv'
<1>1. /\ \A d \in Calls : d # c => pc'[d] = pc[d] /\ answer'[d] = answer[d]
      /\ pc'[c] = "done" /\ answer'[c] = result
  BY DEF End, IInv, Types, TypeOK
<1>2. Quiet
  BY <1>1 DEF Quiet, Running
<1>3. SameRequests /\ CarefulOK' /\ StoredOK' /\ RecordsOK' /\ WritesOK'
  BY <1>2, QuietKeeps
<1>4. Types'
  BY <1>3, Noted, RequestsKept DEF End, IInv, Types, TypeOK, Entries
<1>5. CallsOK'
  <2>1. CallOK(c)'
    BY <1>1, <1>3, Noted, RequestsKept DEF IInv, CallsOK, CallOK
  <2>2. ASSUME NEW d \in Calls, d # c
        PROVE  CallOK(d)'
    BY <1>1, <1>3, <2>2, CallKept DEF IInv
  <2> QED
    BY <2>1, <2>2 DEF CallsOK
<1>6. LocksOK'
  BY <1>1, <1>3, LocksKept DEF IInv, Locked
<1> QED
  BY <1>3, <1>4, <1>5, <1>6 DEF IInv

LEMMA NothingToTransferKeeps ==
    ASSUME Admitted, IInv, NEW c \in Calls, NothingToTransfer(c), Note
    PROVE  IInv'
<1>1. missed'[c]
  BY NothingFoundIsMissed DEF NothingToTransfer
<1> QED
  BY <1>1, EndKeeps DEF NothingToTransfer

LEMMA FailKeeps ==
    ASSUME IInv, NEW c \in Calls, Fail(c), Note
    PROVE  IInv'
  BY EndKeeps DEF Fail

LEMMA DecodeStreamKeeps ==
    ASSUME Admitted, IInv, NEW c \in Calls, DecodeStream(c), Note
    PROVE  IInv'
<1>1. CASE IsExpired(record[Key(c)])
  <2>1. Kind(c) \notin {"clear", "none"} /\ Key(c) \in Keys
    BY Requested DEF DecodeStream, IInv, CallsOK, CallOK
  <2>2. Gone(Key(c))
    BY <1>1, <2>1, ExpiredIsGone DEF IInv
  <2>3. missed'[c]
    BY <2>1, <2>2, Noted DEF DecodeStream, IInv
  <2> QED
    BY <1>1, <2>3, EndKeeps DEF DecodeStream
<1>2. CASE ~IsExpired(record[Key(c)])
  BY <1>2, EndKeeps DEF DecodeStream
<1> QED
  BY <1>1, <1>2

LEMMA TickKeeps ==
    ASSUME Admitted, IInv, Tick, Note
    PROVE  IInv'
<1>1. /\ UNCHANGED <<stored, record, pc, dead, staged, hand, answer, settled, due, plan>>
      /\ now' = now + 1 /\ now < MaxTime
  BY DEF Tick
<1>2. SameRequests
  BY <1>1 DEF SameRequests
<1>3. Types'
  <2>1. now' \in 0 .. MaxTime /\ now' \in Nat
    BY <1>1 DEF Admitted, IInv, Types
  <2> QED
    BY <1>1, <1>2, <2>1, Noted, RequestsKept DEF IInv, Types, TypeOK, Entries
<1>4. CallsOK'
  BY <1>1, <1>2, CallKept DEF IInv, CallsOK
<1>5. LocksOK' /\ CarefulOK'
  BY <1>1, <1>2, LocksKept, CarefulKept DEF IInv, Locked, Running
<1>6. StoredOK' /\ RecordsOK' /\ WritesOK'
  BY <1>1, <1>2, StoredKept, RecordsKept, WritesKept DEF IInv
<1> QED
  BY <1>3, <1>4, <1>5, <1>6 DEF IInv

\* A read of what is stored: its envelope has the time when it expires, and the
\* record has nothing else.
LEMMA ExpiryIsDue ==
    ASSUME Admitted, IInv, NEW c \in Calls, pc[c] = "decode"
    PROVE  /\ Plain /\ Kind(c) = "get" /\ Key(c) \in Keys
           /\ hand[c].value = settled[Key(c)] /\ settled[Key(c)] # None
           /\ Expiry(c) = due[hand[c].value] /\ Expiry(c) \in Time
<1>1. Kind(c) = "get" /\ hand[c] = stored[Key(c)] /\ hand[c] # Nothing
  BY DEF IInv, CallsOK, CallOK
<1>2. Plain /\ Key(c) \in Keys
  BY <1>1, Requested DEF IInv
<1>3. settled[Key(c)] = stored[Key(c)].value
  BY <1>1, FoundIsSettled DEF Reads
<1>4. stored[Key(c)].value # None /\ hand[c].seal = due[hand[c].value]
  BY <1>1, <1>2 DEF IInv, StoredOK
<1>5. record[Key(c)] # Never => record[Key(c)] = due[settled[Key(c)]]
  BY <1>2 DEF IInv, RecordsOK
<1>6. Expiry(c) = due[hand[c].value]
  BY <1>1, <1>3, <1>4, <1>5 DEF Expiry
<1>7. due[hand[c].value] \in Time
  BY <1>1, <1>2, <1>4 DEF IInv, Types, TypeOK
<1> QED
  BY <1>1, <1>2, <1>3, <1>4, <1>6, <1>7

LEMMA DecodeKeeps ==
    ASSUME Admitted, IInv, NEW c \in Calls, Decode(c), Note
    PROVE  IInv'
<1>1. pc[c] = "decode"
  BY DEF Decode
<1>2. PICK e \in {Never, Expiry(c)}, result \in {"notFound", "served"} :
        /\ record' = [record EXCEPT ![Key(c)] = e]
        /\ End(c, result)
        /\ result = "notFound" => IsExpired(Expiry(c))
  BY DEF Decode
<1>3. UNCHANGED <<now, stored, dead, staged, hand, settled, due, plan>> /\ SameRequests
  BY DEF Decode, SameRequests
<1>4. /\ \A d \in Calls : d # c => pc'[d] = pc[d] /\ answer'[d] = answer[d]
      /\ pc'[c] = "done" /\ answer'[c] = result
  BY <1>2 DEF End, IInv, Types, TypeOK
<1>5. Types'
  <2>1. e \in Time
    BY <1>1, ExpiryIsDue DEF Time
  <2>2. record' \in [Keys -> Time]
    BY <1>2, <2>1 DEF IInv, Types, TypeOK, Time
  <2>3. /\ pc' \in [Calls -> {"idle", "lock", "io", "decode", "open", "settle", "done"}]
        /\ answer' \in [Calls -> {"none", "notFound", "exists", "served", "ok", "aborted",
                                  "failed", "crashed"}]
    BY <1>2 DEF End, IInv, Types, TypeOK
  <2> QED
    BY <1>3, <2>2, <2>3, Noted, RequestsKept DEF IInv, Types, TypeOK, Entries, Time
<1>6. CallsOK'
  <2>1. CallOK(c)'
    <3>1. result = "notFound" => missed'[c]
      <4> SUFFICES ASSUME result = "notFound"
                   PROVE  missed'[c]
        OBVIOUS
      <4>1. Gone(Key(c)) /\ Kind(c) = "get"
        BY <1>1, <1>2, ExpiryIsDue DEF IsExpired, Gone
      <4> QED
        BY <1>1, <4>1, Noted DEF IInv
    <3>2. dead'[c] => missed'[c]
      BY <1>1, <1>3, Noted DEF IInv, CallsOK, CallOK
    <3> QED
      BY <1>3, <1>4, <3>1, <3>2, RequestsKept DEF CallOK
  <2>2. ASSUME NEW d \in Calls, d # c
        PROVE  CallOK(d)'
    BY <1>3, <1>4, <2>2, CallKept DEF IInv
  <2> QED
    BY <2>1, <2>2 DEF CallsOK
<1>7. LocksOK' /\ CarefulOK'
  BY <1>1, <1>3, <1>4, LocksKept, CarefulKept DEF IInv, Locked, Running
<1>8. StoredOK' /\ WritesOK'
  BY <1>1, <1>3, <1>4, StoredKept, WritesKept DEF IInv
<1>9. RecordsOK'
  <2> SUFFICES ASSUME NEW k \in Keys
               PROVE  record'[k] # Never => settled[k] # None /\ record'[k] = due[settled[k]]
    BY <1>1, <1>3, ExpiryIsDue, RequestsKept DEF RecordsOK
  <2>1. CASE k = Key(c)
    BY <1>1, <1>2, <2>1, ExpiryIsDue DEF IInv, Types, TypeOK
  <2>2. CASE k # Key(c)
    BY <1>2, <2>2 DEF IInv, Types, TypeOK, RecordsOK
  <2> QED
    BY <2>1, <2>2
<1> QED
  BY <1>5, <1>6, <1>7, <1>8, <1>9 DEF IInv

----------------------------------------------------------------------------
(* a write, and its settling *)

\* A write changes nothing but the keys that it writes.
LEMMA WriteIsLocal ==
    ASSUME IInv, NEW c \in Calls, Write(c)
    PROVE  /\ stored' \in [Keys -> Entries]
           /\ \A k \in Keys : k \notin Written(c) => stored'[k] = stored[k]
<1>1. /\ Kind(c) \in Sets \cup Transfers \cup {"delete", "clear"}
      /\ Kind(c) # "clear" => Key(c) \in Keys
      /\ Kind(c) \in Transfers => Dest(c) \in Keys
  BY Requested DEF Write, IInv, CallsOK, CallOK
<1>2. stored \in [Keys -> Entries] /\ staged[c] \in Time /\ Never \in Time
  BY DEF IInv, Types, TypeOK, Entries, Time
<1>3. Nothing \in Entries /\ Content(c, Never) \in Entries /\ Content(c, staged[c]) \in Entries
  BY <1>2 DEF Nothing, Content, Entries
<1>4. CASE Kind(c) \in Sets \cup {"delete"}
  <2>1. Written(c) = {Key(c)} /\ Key(c) \in Keys
    BY <1>1, <1>4, KeysHeld DEF IInv, Sets
  <2>2. \E e \in Entries : stored' = [stored EXCEPT ![Key(c)] = e]
    BY <1>3, <1>4 DEF Write, Sets
  <2> QED
    BY <1>2, <2>1, <2>2
<1>5. CASE Kind(c) = "clear"
  <2>1. Written(c) = Keys
    BY <1>5, KeysHeld DEF IInv
  <2>2. stored' = [k \in Keys |-> Nothing]
    BY <1>5 DEF Write
  <2> QED
    BY <1>3, <2>1, <2>2
<1>6. CASE Kind(c) = "copy"
  <2>1. Written(c) = {Dest(c)} /\ Key(c) \in Keys /\ Dest(c) \in Keys
    BY <1>1, <1>6, KeysHeld DEF IInv, Transfers
  <2>2. stored' = [stored EXCEPT ![Dest(c)] = stored[Key(c)]]
    BY <1>6 DEF Write
  <2> QED
    BY <1>2, <2>1, <2>2
<1>7. CASE Kind(c) = "move"
  <2>1. Written(c) = {Key(c), Dest(c)} /\ Key(c) \in Keys /\ Dest(c) \in Keys
    BY <1>1, <1>7, KeysHeld DEF IInv, Transfers
  <2>2. stored' = [stored EXCEPT ![Key(c)] = Nothing, ![Dest(c)] = stored[Key(c)]]
    BY <1>7 DEF Write
  <2> QED
    BY <1>2, <1>3, <2>1, <2>2
<1> QED
  BY <1>1, <1>4, <1>5, <1>6, <1>7 DEF Transfers

\* What c has written.
LEMMA WriteIsOK ==
    ASSUME Admitted, IInv, NEW c \in Calls, Write(c), settled' = settled, SameRequests
    PROVE  WriteOK(c)'
<1>1. /\ Kind(c) \in Sets \cup Transfers \cup {"delete", "clear"}
      /\ Kind(c) # "clear" => Key(c) \in Keys
      /\ Kind(c) \in Transfers => Dest(c) \in Keys
  BY Requested DEF Write, IInv, CallsOK, CallOK
<1>2. stored \in [Keys -> Entries] /\ Nothing' = Nothing
  BY DEF IInv, Types, TypeOK, Entries, Time, Nothing, Content
<1>3. CASE Kind(c) \in Sets
  <2>1. stored'[Key(c)].value = c
    BY <1>1, <1>2, <1>3 DEF Write, Sets, Content
  <2> QED
    BY <1>3, <2>1, RequestsKept DEF WriteOK, Sets, Transfers
<1>4. CASE Kind(c) = "delete"
  <2>1. stored'[Key(c)] = Nothing /\ Written(c) = {Key(c)}
    BY <1>1, <1>2, <1>4, KeysHeld DEF Write, IInv
  <2> QED
    BY <1>2, <1>4, <2>1, RequestsKept DEF WriteOK, Sets, Transfers
<1>5. CASE Kind(c) = "clear"
  <2>1. Written(c) = Keys /\ stored' = [k \in Keys |-> Nothing]
    BY <1>5, KeysHeld DEF Write, IInv
  <2> QED
    BY <1>2, <1>5, <2>1, RequestsKept DEF WriteOK, Sets, Transfers
<1>6. CASE Kind(c) \in Transfers
  <2>1. stored[Key(c)] # Nothing
    BY <1>6 DEF Write, Found
  <2>2. settled[Key(c)] # None /\ settled[Key(c)] = stored[Key(c)].value
    BY <1>1, <1>6, <2>1, FoundIsSettled DEF IInv, StoredOK, Write, Transfers
  <2>3. /\ stored'[Dest(c)] = stored[Key(c)]
        /\ Kind(c) = "move" /\ Key(c) # Dest(c) => stored'[Key(c)] = Nothing
    <3>1. CASE Kind(c) = "copy"
      BY <1>1, <1>2, <1>6, <3>1 DEF Write
    <3>2. CASE Kind(c) = "move"
      BY <1>1, <1>2, <1>6, <3>2 DEF Write
    <3> QED
      BY <1>6, <3>1, <3>2 DEF Transfers
  <2> QED
    BY <1>2, <1>6, <2>2, <2>3, RequestsKept DEF WriteOK, Sets, Transfers
<1> QED
  BY <1>1, <1>3, <1>4, <1>5, <1>6

\* The envelope of what a write leaves is the one that its value has.
LEMMA WrittenIsSealed ==
    ASSUME Admitted, IInv, NEW c \in Calls, Write(c), NEW k \in Written(c), k \in Keys
    PROVE  /\ stored'[k].value = None => stored'[k] = Nothing
           /\ stored'[k].value # None =>
                 stored'[k].seal = IF Plain THEN due[stored'[k].value] ELSE Never
           /\ stored'[k].value \in Calls => stored'[k].value = c \/ pc[stored'[k].value] # "idle"
<1>1. /\ Kind(c) \in Sets \cup Transfers \cup {"delete", "clear"}
      /\ Kind(c) # "clear" => Key(c) \in Keys
      /\ Kind(c) \in Transfers => Dest(c) \in Keys
      /\ Plain => Kind(c) # "setStream"
      /\ ~Plain => Kind(c) # "set"
  BY Requested DEF Write, IInv, CallsOK, CallOK
<1>2. stored \in [Keys -> Entries]
  BY DEF IInv, Types, TypeOK, Entries, Time
<1>3. c # None
  BY DEF Admitted
<1>4. CASE Kind(c) \in Sets
  <2>1. k = Key(c)
    BY <1>4, KeysHeld DEF IInv, Sets
  <2>2. stored'[k] = Content(c, IF Kind(c) = "set" THEN staged[c] ELSE Never)
    BY <1>1, <1>2, <1>4, <2>1 DEF Write, Sets
  <2>3. staged[c] = due[c]
    BY <1>4 DEF IInv, CallsOK, CallOK, Write
  <2> QED
    BY <1>1, <1>3, <1>4, <2>2, <2>3 DEF Content, Sets
<1>5. stored'[k] = Nothing =>
        /\ stored'[k].value = None => stored'[k] = Nothing
        /\ stored'[k].value # None =>
              stored'[k].seal = IF Plain THEN due[stored'[k].value] ELSE Never
        /\ stored'[k].value \in Calls => stored'[k].value = c \/ pc[stored'[k].value] # "idle"
  BY DEF Nothing, Content, Admitted
<1>6. CASE Kind(c) \in {"delete", "clear"}
  <2>1. stored'[k] = Nothing
    BY <1>1, <1>2, <1>6, KeysHeld DEF Write, IInv
  <2> QED
    BY <1>5, <2>1
<1>7. CASE Kind(c) \in Transfers
  <2>1. stored'[k] = Nothing \/ stored'[k] = stored[Key(c)]
    <3>1. CASE Kind(c) = "copy"
      BY <1>1, <1>2, <1>7, <3>1, KeysHeld DEF Write, IInv
    <3>2. CASE Kind(c) = "move"
      BY <1>1, <1>2, <1>7, <3>2, KeysHeld DEF Write, IInv
    <3> QED
      BY <1>7, <3>1, <3>2 DEF Transfers
  <2>2. CASE stored'[k] = stored[Key(c)]
    BY <1>1, <1>7, <2>2 DEF IInv, StoredOK, Transfers
  <2> QED
    BY <1>5, <2>1, <2>2
<1> QED
  BY <1>1, <1>4, <1>6, <1>7

LEMMA WriteKeeps ==
    ASSUME Admitted, IInv, NEW c \in Calls, Write(c), Note
    PROVE  IInv'
<1>1. /\ pc[c] = "io" /\ Kind(c) \notin Reads /\ Kind(c) # "none"
      /\ pc' = [pc EXCEPT ![c] = "settle"] /\ answer' = answer
      /\ UNCHANGED <<now, record, dead, staged, hand, settled, due, plan>>
  BY DEF Write, Goto, IInv, CallsOK, CallOK
<1>2. pc'[c] = "settle" /\ \A d \in Calls : d # c => pc'[d] = pc[d]
  BY <1>1 DEF IInv, Types, TypeOK
<1>3. SameRequests
  BY <1>1 DEF SameRequests
<1>4. /\ stored' \in [Keys -> Entries]
      /\ \A k \in Keys : k \notin Written(c) => stored'[k] = stored[k]
  BY WriteIsLocal
<1>5. \A d \in Calls : d # c /\ Locked(d) =>
         \A k \in Keys : k \in KeysOf(d) => stored'[k] = stored[k]
  BY <1>1, <1>4, KeysHeld, WriterIsAlone DEF IInv, Locked
<1>6. Types'
  BY <1>1, <1>3, <1>4, Noted, RequestsKept DEF IInv, Types, TypeOK, Entries, Time
<1>7. CallsOK'
  <2>1. CallOK(c)'
    BY <1>1, <1>2, <1>3, Noted, RequestsKept DEF IInv, CallsOK, CallOK
  <2>2. ASSUME NEW d \in Calls, d # c
        PROVE  CallOK(d)'
    <3>1. pc[d] \in {"decode", "open"} => stored'[Key(d)] = stored[Key(d)]
      <4>1. pc[d] \in {"decode", "open"} => Key(d) \in Keys /\ Key(d) \in KeysOf(d)
        BY Requested, KeysHeld DEF IInv, CallsOK, CallOK
      <4>2. CASE pc[d] = "open"
        BY <1>5, <2>2, <4>1, <4>2 DEF Locked
      <4>3. CASE pc[d] = "decode"
        <5>1. Key(d) \notin Written(c)
          BY <1>1, <4>3 DEF IInv, CarefulOK, CallsOK, CallOK, Running
        <5> QED
          BY <1>4, <4>1, <4>3, <5>1
      <4> QED
        BY <4>2, <4>3
    <3> QED
      BY <1>1, <1>2, <1>3, <2>2, <3>1, CallKept DEF IInv
  <2> QED
    BY <2>1, <2>2 DEF CallsOK
<1>8. LocksOK' /\ CarefulOK'
  BY <1>1, <1>2, <1>3, LocksKept, CarefulKept DEF IInv, Locked, Running
<1>9. StoredOK'
  <2> SUFFICES ASSUME NEW k \in Keys
               PROVE  (/\ stored[k].value = None => stored[k] = Nothing
                       /\ stored[k].value # None =>
                             stored[k].seal = IF Plain THEN due[stored[k].value] ELSE Never
                       /\ \A d \in {stored[k].value, settled[k]} : d \in Calls => pc[d] # "idle"
                       /\ ~Unsettled(k) => settled[k] = stored[k].value)'
    BY DEF StoredOK
  <2>1. Nothing' = Nothing /\ \A d \in Calls : pc'[d] = "idle" => pc[d] = "idle" /\ d # c
    BY <1>2 DEF Nothing, Content
  <2>2. CASE k \in Written(c)
    <3>1. Unsettled(k)'
      BY <1>2, <1>3, <2>2, RequestsKept DEF Unsettled
    <3>2. settled[k] \in Calls => pc[settled[k]] # "idle"
      BY DEF IInv, StoredOK
    <3> QED
      BY <1>1, <1>3, <2>1, <2>2, <3>1, <3>2, WrittenIsSealed, RequestsKept
  <2>3. CASE k \notin Written(c)
    <3>1. Unsettled(k) => Unsettled(k)'
      BY <1>1, <1>2, <1>3, RequestsKept DEF Unsettled
    <3> QED
      BY <1>1, <1>3, <1>4, <2>1, <2>3, <3>1, RequestsKept DEF IInv, StoredOK
  <2> QED
    BY <2>2, <2>3
<1>10. RecordsOK'
  BY <1>1, <1>3, RecordsKept DEF IInv
<1>11. WritesOK'
  <2> SUFFICES ASSUME NEW d \in Calls, pc'[d] = "settle"
               PROVE  WriteOK(d)'
    BY DEF WritesOK
  <2>1. CASE d = c
    BY <1>1, <1>3, <2>1, WriteIsOK
  <2>2. CASE d # c
    <3>1. Locked(d) /\ WriteOK(d) /\ Kind(d) # "none" /\ Kind(d) \notin Reads
      BY <1>2, <2>2 DEF IInv, WritesOK, Locked, CallsOK, CallOK
    <3>2. \A k \in KeysOf(d) : stored'[k] = stored[k]
      BY <1>5, <2>2, <3>1, KeysHeld DEF IInv
    <3>3. /\ Kind(d) # "clear" => Key(d) \in KeysOf(d)
          /\ Kind(d) \in Transfers => Dest(d) \in KeysOf(d)
          /\ Written(d) \subseteq KeysOf(d)
      BY <3>1, KeysHeld DEF IInv
    <3>4. settled' = settled /\ Nothing' = Nothing
      BY <1>1 DEF Nothing, Content
    <3> QED
      BY <1>3, <3>1, <3>2, <3>3, <3>4, RequestsKept DEF WriteOK, Sets, Transfers
  <2> QED
    BY <2>1, <2>2
<1> QED
  BY <1>6, <1>7, <1>8, <1>9, <1>10, <1>11 DEF IInv

\* Settling makes the stored values of the keys that c wrote the settled ones,
\* and their records those of these values.
LEMMA SettledExactly ==
    ASSUME Admitted, IInv, NEW c \in Calls, Settle(c), NEW k \in Keys
    PROVE  /\ k \notin Written(c) => settled'[k] = settled[k] /\ record'[k] = record[k]
           /\ k \in Written(c) =>
                 /\ settled'[k] = stored[k].value
                 /\ record'[k] # Never => settled'[k] # None /\ record'[k] = due[settled'[k]]
                 /\ ~Plain /\ settled'[k] # None => record'[k] = due[settled'[k]]
           /\ record'[k] \in Time
<1>1. /\ pc[c] = "settle" /\ Kind(c) \notin Reads /\ Kind(c) # "none"
      /\ Kind(c) \in Sets \cup Transfers \cup {"delete", "clear"}
      /\ Kind(c) # "clear" => Key(c) \in Keys
      /\ Kind(c) \in Transfers => Dest(c) \in Keys
  BY Requested DEF Settle, IInv, CallsOK, CallOK
<1>2. WriteOK(c) /\ record \in [Keys -> Time] /\ c # None /\ Nothing.value = None
  BY <1>1 DEF IInv, WritesOK, Types, TypeOK, Time, Admitted, Nothing, Content
<1>3. settled'[k] = IF k \in KeysOf(c) THEN stored[k].value ELSE settled[k]
  BY DEF Settle
<1>4. k \in KeysOf(c) /\ k \notin Written(c) => settled[k] = stored[k].value
  <2> SUFFICES ASSUME k \in KeysOf(c), k \notin Written(c)
               PROVE  ~Unsettled(k)
    BY DEF IInv, StoredOK
  <2> SUFFICES ASSUME NEW d \in Calls, pc[d] = "settle", k \in Written(d)
               PROVE  FALSE
    BY DEF Unsettled
  <2>1. d # c /\ Locked(c) /\ Locked(d) /\ k \in KeysOf(d)
    BY <1>1, KeysHeld DEF Locked, IInv, CallsOK, CallOK
  <2> QED
    BY <1>1, <2>1, WriterIsAlone DEF IInv
<1>5. Written(c) \subseteq KeysOf(c)
  BY <1>1, KeysHeld DEF IInv
<1>6. /\ k \notin Written(c) => settled'[k] = settled[k]
      /\ k \in Written(c) => settled'[k] = stored[k].value
  BY <1>3, <1>4, <1>5
<1>7. CASE Kind(c) \in Sets
  <2>1. Written(c) = {Key(c)} /\ stored[Key(c)].value = c /\ staged[c] = due[c]
    BY <1>1, <1>2, <1>7, KeysHeld DEF IInv, WriteOK, CallsOK, CallOK
  <2>2. record' = [record EXCEPT ![Key(c)] = staged[c]] /\ staged[c] \in Time
    BY <1>7 DEF Settle, Recorded, Sets, Transfers, IInv, Types
  <2> QED
    BY <1>1, <1>2, <1>6, <2>1, <2>2
<1>8. CASE Kind(c) \in {"delete", "clear"}
  <2>1. k \in Written(c) => stored[k] = Nothing /\ record'[k] = Never
    BY <1>1, <1>2, <1>8, KeysHeld DEF Settle, Recorded, Sets, Transfers, IInv, WriteOK
  <2>2. k \notin Written(c) => record'[k] = record[k]
    BY <1>1, <1>2, <1>8, KeysHeld DEF Settle, Recorded, Sets, Transfers, IInv
  <2> QED
    BY <1>2, <1>6, <2>1, <2>2 DEF Time
<1>9. CASE Kind(c) \in Transfers
  <2>1. /\ settled[Key(c)] # None /\ stored[Dest(c)].value = settled[Key(c)]
        /\ Kind(c) = "move" /\ Key(c) # Dest(c) => stored[Key(c)] = Nothing
    BY <1>2, <1>9 DEF WriteOK
  <2>2. /\ record[Key(c)] # Never => record[Key(c)] = due[settled[Key(c)]]
        /\ ~Plain => record[Key(c)] = due[settled[Key(c)]]
    BY <1>1, <1>9, <2>1 DEF IInv, RecordsOK, Sets, Transfers
  <2>3. Written(c) = IF Kind(c) = "copy" THEN {Dest(c)} ELSE {Key(c), Dest(c)}
    BY <1>1, <1>9, KeysHeld DEF IInv, Transfers
  <2>4. Key(c) \in Keys /\ Dest(c) \in Keys
    BY <1>1, <1>9 DEF Transfers
  <2>5. CASE Key(c) = Dest(c)
    <3>1. record' = record
      BY <1>9, <2>5 DEF Settle
    <3> QED
      BY <1>2, <1>6, <2>1, <2>2, <2>3, <2>5, <3>1
  <2>6. CASE Key(c) # Dest(c)
    <3>1. record' = IF Kind(c) = "copy" THEN [record EXCEPT ![Dest(c)] = record[Key(c)]]
                    ELSE [record EXCEPT ![Key(c)] = Never, ![Dest(c)] = record[Key(c)]]
      BY <1>9, <2>6 DEF Settle, Recorded, Transfers, Sets
    <3>2. record'[Dest(c)] = record[Key(c)]
      BY <1>2, <2>4, <2>6, <3>1
    <3>3. Kind(c) = "move" => record'[Key(c)] = Never
      BY <1>2, <2>4, <2>6, <3>1
    <3>4. k \notin Written(c) => record'[k] = record[k]
      BY <1>2, <2>3, <2>4, <3>1
    <3>5. record'[k] \in Time
      BY <1>2, <2>4, <3>1 DEF Time
    <3>6. CASE k = Dest(c)
      BY <1>6, <2>1, <2>2, <2>3, <3>2, <3>5, <3>6
    <3>7. CASE k = Key(c) /\ Kind(c) = "move"
      BY <1>2, <1>6, <2>1, <2>3, <2>6, <3>3, <3>5, <3>7
    <3>8. CASE k \notin Written(c)
      BY <1>6, <3>4, <3>5, <3>8
    <3> QED
      BY <1>9, <2>3, <3>6, <3>7, <3>8 DEF Transfers
  <2> QED
    BY <2>5, <2>6
<1> QED
  BY <1>1, <1>7, <1>8, <1>9

LEMMA SettleKeeps ==
    ASSUME Admitted, IInv, NEW c \in Calls, Settle(c), Note
    PROVE  IInv'
<1>1. /\ pc[c] = "settle" /\ Kind(c) \notin Reads /\ Kind(c) # "none"
      /\ UNCHANGED <<now, stored, dead, staged, hand, due, plan>>
  BY DEF Settle, IInv, CallsOK, CallOK
<1>2. PICK result \in {"ok", "aborted"} : End(c, result)
  BY DEF Settle
<1>3. /\ \A d \in Calls : d # c => pc'[d] = pc[d] /\ answer'[d] = answer[d]
      /\ pc'[c] = "done" /\ answer'[c] = result
  BY <1>2 DEF End, IInv, Types, TypeOK
<1>4. SameRequests
  BY <1>1 DEF SameRequests
<1>5. Types'
  <2>1. record' \in [Keys -> Time]
    <3>1. record' = [k \in Keys |-> record'[k]]
      <4>1. record = [k \in Keys |-> record[k]]
        BY DEF IInv, Types, TypeOK
      <4>2. CASE record' = record
        BY <4>1, <4>2
      <4>3. CASE record' = Recorded(c)
        <5>1. Kind(c) \in Sets \cup Transfers \cup {"delete", "clear"}
          BY <1>1, Requested DEF IInv
        <5> QED
          BY <4>1, <4>3, <5>1 DEF Recorded, Sets, Transfers
      <4> QED
        BY <4>2, <4>3 DEF Settle
    <3> QED
      BY <3>1, SettledExactly
  <2>2. settled' \in [Keys -> Calls \cup {Old, None}]
    BY DEF Settle, IInv, Types, TypeOK
  <2>3. /\ pc' \in [Calls -> {"idle", "lock", "io", "decode", "open", "settle", "done"}]
        /\ answer' \in [Calls -> {"none", "notFound", "exists", "served", "ok", "aborted",
                                  "failed", "crashed"}]
    BY <1>2 DEF End, IInv, Types, TypeOK
  <2> QED
    BY <1>1, <1>4, <2>1, <2>2, <2>3, Noted, RequestsKept DEF IInv, Types, TypeOK, Entries, Time
<1>6. CallsOK'
  <2>1. CallOK(c)'
    BY <1>1, <1>3, <1>4, Noted, RequestsKept DEF IInv, CallsOK, CallOK
  <2>2. ASSUME NEW d \in Calls, d # c
        PROVE  CallOK(d)'
    BY <1>1, <1>3, <1>4, <2>2, CallKept DEF IInv
  <2> QED
    BY <2>1, <2>2 DEF CallsOK
<1>7. LocksOK' /\ CarefulOK'
  BY <1>1, <1>3, <1>4, LocksKept, CarefulKept DEF IInv, Locked, Running
<1>8. StoredOK'
  <2> SUFFICES ASSUME NEW k \in Keys
               PROVE  (/\ stored[k].value = None => stored[k] = Nothing
                       /\ stored[k].value # None =>
                             stored[k].seal = IF Plain THEN due[stored[k].value] ELSE Never
                       /\ \A d \in {stored[k].value, settled[k]} : d \in Calls => pc[d] # "idle"
                       /\ ~Unsettled(k) => settled[k] = stored[k].value)'
    BY DEF StoredOK
  <2>1. Nothing' = Nothing /\ \A d \in Calls : pc'[d] = "idle" => pc[d] = "idle"
    BY <1>3 DEF Nothing, Content
  <2>2. CASE k \in Written(c)
    BY <1>1, <1>4, <2>1, <2>2, SettledExactly, RequestsKept DEF IInv, StoredOK
  <2>3. CASE k \notin Written(c)
    <3>1. Unsettled(k) => Unsettled(k)'
      BY <1>1, <1>3, <1>4, <2>3, RequestsKept DEF Unsettled
    <3> QED
      BY <1>1, <1>4, <2>1, <2>3, <3>1, SettledExactly, RequestsKept DEF IInv, StoredOK
  <2> QED
    BY <2>2, <2>3
<1>9. RecordsOK'
  <2> SUFFICES ASSUME NEW k \in Keys
               PROVE  /\ record'[k] # Never => settled'[k] # None /\ record'[k] = due[settled'[k]]
                      /\ ~Plain /\ settled'[k] # None => record'[k] = due[settled'[k]]
    BY <1>1, <1>4, RequestsKept DEF RecordsOK
  <2> QED
    BY SettledExactly DEF IInv, RecordsOK
<1>10. WritesOK'
  <2> SUFFICES ASSUME NEW d \in Calls, pc'[d] = "settle"
               PROVE  WriteOK(d)'
    BY DEF WritesOK
  <2>1. d # c /\ pc[d] = "settle"
    BY <1>3
  <2>2. WriteOK(d) /\ Kind(d) # "none" /\ Locked(c) /\ Locked(d)
    BY <1>1, <2>1 DEF IInv, WritesOK, CallsOK, CallOK, Locked
  <2>3. Kind(d) \in Transfers => settled'[Key(d)] = settled[Key(d)]
    <3> SUFFICES ASSUME Kind(d) \in Transfers
                 PROVE  Key(d) \in Keys /\ Key(d) \notin Written(c)
      BY SettledExactly
    <3>1. Key(d) \in Keys /\ Key(d) \in KeysOf(d)
      BY <2>2, Requested, KeysHeld DEF IInv, Transfers
    <3> QED
      BY <1>1, <2>1, <2>2, <3>1, KeysHeld, WriterIsAlone DEF IInv
  <2>4. stored' = stored /\ Nothing' = Nothing
    BY <1>1 DEF Nothing, Content
  <2> QED
    BY <1>4, <2>2, <2>3, <2>4, RequestsKept DEF WriteOK
<1> QED
  BY <1>5, <1>6, <1>7, <1>8, <1>9, <1>10 DEF IInv

----------------------------------------------------------------------------
(* a restart *)

LEMMA RestartKeeps ==
    ASSUME Admitted, IInv, Restart, Note
    PROVE  IInv'
<1>1. SameRequests /\ UNCHANGED <<now, stored, dead, staged, hand>>
      /\ plan' \in [old : Time, restart : BOOLEAN, request : [Calls -> Requests]]
  BY DEF Restart, SameRequests, IInv, Types
<1>2. \A c \in Calls : /\ pc'[c] = "idle" <=> pc[c] = "idle"
                       /\ pc'[c] \in {"idle", "done"}
                       /\ answer'[c] \in {answer[c], "crashed"}
                       /\ pc[c] = "idle" => answer'[c] = answer[c]
  BY DEF Restart, Running, IInv, Types, TypeOK
<1>3. \A k \in Keys : record'[k] = Never /\ settled'[k] = stored[k].value
  BY DEF Restart
<1>4. \A v \in Calls \cup {Old} :
         due'[v] = IF \E k \in Keys : IsStream(k) /\ stored[k].value = v THEN Never ELSE due[v]
  BY DEF Restart, IInv, Types
<1>5. Types'
  <2>1. due' \in [Calls \cup {Old} -> Time]
    BY DEF Restart, IInv, Types, Time
  <2>2. settled' \in [Keys -> Calls \cup {Old, None}] /\ record' \in [Keys -> Time]
    BY DEF Restart, IInv, Types, TypeOK, Time
  <2>3. /\ pc' \in [Calls -> {"idle", "lock", "io", "decode", "open", "settle", "done"}]
        /\ answer' \in [Calls -> {"none", "notFound", "exists", "served", "ok", "aborted",
                                  "failed", "crashed"}]
    BY DEF Restart, IInv, Types, TypeOK
  <2>4. (Plain \/ IsStreaming(plan))'
    BY <1>1, RequestsKept DEF IInv, Types, IsStreaming, SameRequests
  <2> QED
    BY <1>1, <2>1, <2>2, <2>3, <2>4, Noted DEF IInv, Types, TypeOK, Entries, Time
<1>6. CallsOK'
  <2> SUFFICES ASSUME NEW c \in Calls
               PROVE  CallOK(c)'
    BY DEF CallsOK
  <2>1. CallOK(c)
    BY DEF IInv, CallsOK
  <2>2. pc[c] # "idle" /\ missed[c] => missed'[c]
    BY Noted DEF IInv
  <2>3. answer'[c] = "notFound" => answer[c] = "notFound" /\ pc[c] # "idle"
    BY <1>2, <2>1 DEF CallOK
  <2> QED
    BY <1>1, <1>2, <2>1, <2>2, <2>3, RequestsKept DEF CallOK
<1>7. LocksOK' /\ CarefulOK' /\ WritesOK'
  BY <1>2 DEF LocksOK, Locked, CarefulOK, Running, WritesOK
<1>8. StoredOK'
  <2> SUFFICES ASSUME NEW k \in Keys
               PROVE  (/\ stored[k].value = None => stored[k] = Nothing
                       /\ stored[k].value # None =>
                             stored[k].seal = IF Plain THEN due[stored[k].value] ELSE Never
                       /\ \A c \in {stored[k].value, settled[k]} : c \in Calls => pc[c] # "idle"
                       /\ ~Unsettled(k) => settled[k] = stored[k].value)'
    BY DEF StoredOK
  <2>1. stored[k].value \in Calls \cup {Old, None}
    BY DEF IInv, Types, TypeOK
  <2>2. ASSUME Plain, stored[k].value # None
        PROVE  due'[stored[k].value] = due[stored[k].value]
    <3>1. CASE \E l \in Keys : IsStream(l) /\ stored[l].value = stored[k].value
      <4>1. PICK l \in Keys : IsStream(l) /\ stored[l].value = stored[k].value
        BY <3>1
      <4>2. stored[l].seal = Never /\ stored[l].seal = due[stored[k].value]
        BY <2>2, <4>1 DEF IsStream, IInv, StoredOK
      <4> QED
        BY <1>4, <2>1, <2>2, <4>1, <4>2
    <3>2. CASE ~\E l \in Keys : IsStream(l) /\ stored[l].value = stored[k].value
      BY <1>4, <2>1, <2>2, <3>2
    <3> QED
      BY <3>1, <3>2
  <2> QED
    BY <1>1, <1>2, <1>3, <2>2, RequestsKept DEF IInv, StoredOK, Nothing, Content
<1>9. RecordsOK'
  <2> SUFFICES ASSUME NEW k \in Keys, ~Plain, stored[k].value # None
               PROVE  due'[stored[k].value] = Never
    BY <1>1, <1>3, RequestsKept DEF RecordsOK
  <2>1. IsStream(k) /\ stored[k].value \in Calls \cup {Old}
    BY DEF IsStream, IInv, StoredOK, Nothing, Content, Types, TypeOK
  <2> QED
    BY <1>4, <2>1
<1> QED
  BY <1>5, <1>6, <1>7, <1>8, <1>9 DEF IInv

----------------------------------------------------------------------------
(* every step *)

LEMMA IInvAtStep ==
    ASSUME Admitted, Careful, IInv, [Next]_vars
    PROVE  IInv'
<1>1. CASE UNCHANGED vars
  <2>1. SameRequests /\ Nothing' = Nothing
    BY <1>1 DEF vars, SameRequests, Nothing, Content
  <2>2. Types'
    BY <1>1, <2>1, RequestsKept DEF vars, IInv, Types, TypeOK, Entries
  <2>3. CallsOK'
    BY <1>1, <2>1, RequestsKept DEF vars, IInv, CallsOK, CallOK
  <2>4. LocksOK' /\ CarefulOK'
    BY <1>1, <2>1, LocksKept, CarefulKept DEF vars, IInv, Locked, Running
  <2>5. StoredOK' /\ RecordsOK' /\ WritesOK'
    BY <1>1, <2>1, StoredKept, RecordsKept, WritesKept DEF vars, IInv
  <2> QED
    BY <2>2, <2>3, <2>4, <2>5 DEF IInv
<1>2. CASE Step /\ Note
  <2>1. ASSUME NEW c \in Calls, Use(c)
        PROVE  IInv'
    BY <1>2, <2>1, UseKeeps
  <2>2. ASSUME NEW c \in Calls, Encode(c)
        PROVE  IInv'
    BY <1>2, <2>2, EncodeKeeps
  <2>3. ASSUME NEW c \in Calls, Lock(c)
        PROVE  IInv'
    BY <1>2, <2>3, LockKeeps
  <2>4. ASSUME NEW c \in Calls, Read(c)
        PROVE  IInv'
    BY <1>2, <2>4, ReadKeeps
  <2>5. ASSUME NEW c \in Calls, Write(c)
        PROVE  IInv'
    BY <1>2, <2>5, WriteKeeps
  <2>6. ASSUME NEW c \in Calls, NothingToTransfer(c)
        PROVE  IInv'
    BY <1>2, <2>6, NothingToTransferKeeps
  <2>7. ASSUME NEW c \in Calls, Fail(c)
        PROVE  IInv'
    BY <1>2, <2>7, FailKeeps
  <2>8. ASSUME NEW c \in Calls, Settle(c)
        PROVE  IInv'
    BY <1>2, <2>8, SettleKeeps
  <2>9. ASSUME NEW c \in Calls, Decode(c)
        PROVE  IInv'
    BY <1>2, <2>9, DecodeKeeps
  <2>10. ASSUME NEW c \in Calls, DecodeStream(c)
         PROVE  IInv'
    BY <1>2, <2>10, DecodeStreamKeeps
  <2>11. CASE Tick
    BY <1>2, <2>11, TickKeeps
  <2>12. CASE Restart
    BY <1>2, <2>12, RestartKeeps
  <2> QED
    BY <1>2, <2>1, <2>2, <2>3, <2>4, <2>5, <2>6, <2>7, <2>8, <2>9, <2>10, <2>11, <2>12
    DEF Step
<1> QED
  BY <1>1, <1>2 DEF Next, Finished

\* The locks, Careful and the records hold each other up: all of them are kept.
THEOREM Invariance ==
    ASSUME Admitted, Careful
    PROVE  Spec => []IInv
<1>1. Init => IInv
  BY IInvAtFirst
<1>2. IInv /\ [Next]_vars => IInv'
  BY IInvAtStep
<1> QED
  BY <1>1, <1>2, PTL DEF Spec

----------------------------------------------------------------------------
(* the properties *)

\* The record of a key that no write is about to settle is the time when its
\* value expires (Ttl.afterUse, Ttl.decode).
THEOREM RecordsAlwaysAreExact ==
    ASSUME Admitted, Careful
    PROVE  Spec => []RecordsAreExact
<1>1. ASSUME IInv
      PROVE  RecordsAreExact
  <2> SUFFICES ASSUME NEW k \in Keys, ~Unsettled(k)
               PROVE  LET v == stored[k].value
                      IN  /\ record[k] # Never => v # None /\ record[k] = due[v]
                          /\ IsStream(k) => record[k] = due[v]
    BY DEF RecordsAreExact, Unsettled
  <2>1. settled[k] = stored[k].value
    BY <1>1 DEF IInv, StoredOK
  <2>2. record[k] # Never => stored[k].value # None /\ record[k] = due[stored[k].value]
    BY <1>1, <2>1 DEF IInv, RecordsOK
  <2>3. IsStream(k) => stored[k].value # None /\ stored[k].seal = Never
    BY <1>1 DEF IInv, StoredOK, IsStream
  <2>4. IsStream(k) /\ Plain => due[stored[k].value] = Never
    BY <1>1, <2>3 DEF IInv, StoredOK
  <2>5. IsStream(k) /\ ~Plain => record[k] = due[stored[k].value]
    BY <1>1, <2>1, <2>3 DEF IInv, RecordsOK
  <2> QED
    BY <2>2, <2>4, <2>5
<1> QED
  BY <1>1, Invariance, PTL

\* A call that reports a missing key was right at some moment while it ran
\* (Ttl.use, Ttl.decode, Ttl.decodeStream).
THEOREM LiveIsAlwaysServed ==
    ASSUME Admitted, Careful
    PROVE  Spec => []LiveIsServed
<1>1. IInv => LiveIsServed
  BY DEF IInv, CallsOK, CallOK, LiveIsServed
<1> QED
  BY <1>1, Invariance, PTL

\* What the record says has expired has expired (Ttl.use).
THEOREM NoValueIsEverHidden ==
    ASSUME Admitted, Careful
    PROVE  Spec => []NoValueIsHidden
<1>1. IInv => NoValueIsHidden
  BY ExpiredIsGone DEF IInv, NoValueIsHidden
<1> QED
  BY <1>1, Invariance, PTL

\* No expired value is served (Ttl.decode, Ttl.decodeStream).
THEOREM ExpiredIsNeverServed ==
    ASSUME Admitted, Careful
    PROVE  Spec => ExpiredIsNotServed
<1>1. ASSUME IInv, [Next]_vars, NEW c \in Calls, answer[c] # "served", answer'[c] = "served"
      PROVE  LET e == due[hand[c].value] IN e = Never \/ now < e
  <2>1. \A d \in Calls : \A r : End(d, r) /\ d # c => answer'[c] = answer[c]
    BY <1>1 DEF End, IInv, Types, TypeOK
  <2>2. \A r : End(c, r) => answer'[c] = r
    BY <1>1 DEF End, IInv, Types, TypeOK
  <2>3. Decode(c) \/ DecodeStream(c)
    <3>1. Step
      BY <1>1 DEF Next, Finished, vars
    <3>2. PICK d \in Calls : Decode(d) \/ DecodeStream(d) \/ Settle(d) \/ Fail(d)
                             \/ NothingToTransfer(d) \/ Read(d)
      BY <1>1, <3>1 DEF Step, Use, Encode, Lock, Write, Goto, Tick, Restart
    <3>3. d = c
      BY <1>1, <2>1, <3>2 DEF Decode, DecodeStream, Settle, Fail, NothingToTransfer, Read, Goto
    <3> QED
      BY <1>1, <2>2, <3>2, <3>3 DEF Settle, Fail, NothingToTransfer, Read, Goto
  <2>4. now \in Nat /\ Time = Nat \cup {Never}
    BY <1>1 DEF IInv, Types, Time
  <2>5. CASE Decode(c)
    <3>1. Expiry(c) = due[hand[c].value] /\ Expiry(c) \in Time
      BY <1>1, <2>5, ExpiryIsDue DEF Decode
    <3>2. ~IsExpired(Expiry(c))
      BY <1>1, <2>2, <2>5 DEF Decode
    <3> QED
      BY <2>4, <3>1, <3>2 DEF IsExpired
  <2>6. CASE DecodeStream(c)
    <3>1. ~IsExpired(record[Key(c)])
      BY <1>1, <2>2, <2>6 DEF DecodeStream
    <3>2. Kind(c) = "stream" /\ hand[c] = stored[Key(c)] /\ hand[c] # Nothing
      BY <1>1, <2>6 DEF DecodeStream, IInv, CallsOK, CallOK
    <3>3. ~Plain /\ Key(c) \in Keys
      BY <1>1, <3>2, Requested DEF IInv
    <3>4. settled[Key(c)] = stored[Key(c)].value
      BY <1>1, <2>6, <3>2, FoundIsSettled DEF DecodeStream, Reads
    <3>5. stored[Key(c)].value # None
      BY <1>1, <3>2, <3>3 DEF IInv, StoredOK
    <3>6. record[Key(c)] = due[hand[c].value] /\ record[Key(c)] \in Time
      BY <1>1, <3>2, <3>3, <3>4, <3>5 DEF IInv, RecordsOK, Types, TypeOK, Time
    <3> QED
      BY <2>4, <3>1, <3>6 DEF IsExpired
  <2> QED
    BY <2>3, <2>5, <2>6
<1>2. IInv /\ [Next]_vars =>
        [\A c \in Calls : answer[c] # "served" /\ answer'[c] = "served" =>
            LET e == due[hand[c].value] IN e = Never \/ now < e]_vars
  BY <1>1
<1> QED
  BY <1>2, Invariance, PTL DEF Spec, ExpiredIsNotServed
=============================================================================
