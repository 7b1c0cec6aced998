--------------------------- MODULE Plugins_proofs ---------------------------
(***************************************************************************)
(* Theorems about RateLimit, for any callers, rate, capacity and setbacks  *)
(* of the clock; and what is proved of RateLimit and Ttl, said of the      *)
(* composition that MCPlugins checks.                                      *)
(***************************************************************************)
EXTENDS MCPlugins, TLAPS

TP == INSTANCE Ttl_proofs WITH Keys <- {k1, k2}, Calls <- {a, b, c, d},
                               pc <- step, answer <- result

USE RateLimitAssumption DEF RateLimitAssumption

Steps == {"idle", "waiting", "leaving", "trying", "sleeping", "done"}

StateTypes ==
    /\ strategy \in {"wait", "throw"}
    /\ tokens \in 0 .. Capacity
    /\ elapsed \in Int /\ elapsed <= Enough
    /\ setbacks \in 0 .. Setbacks
    /\ queue \in Seq(Callers)
    /\ released \in SUBSET Callers
    /\ pc \in [Callers -> Steps]
    /\ sleep \in [Callers -> Nat]
    /\ aborted \in SUBSET Callers
    /\ answer \in [Callers -> {"none", "granted", "aborted", "exceeded"}]
    /\ credit \in Int

\* A refill never brings more than real time has brought.
BucketInv == Refill.tokens <= credit

\* Who has its turn, or has been released, is preceded by released ones only, and
\* those that are released are done.
QueueInv ==
    /\ \A i, j \in DOMAIN queue : queue[i] = queue[j] => i = j
    /\ \A r \in Callers : pc[r] = "idle" => \A i \in DOMAIN queue : queue[i] # r
    /\ \A r \in Callers : pc[r] \notin {"idle", "done"} => \E i \in DOMAIN queue : queue[i] = r
    /\ \A r \in released : \E i \in DOMAIN queue : queue[i] = r
    /\ \A i \in DOMAIN queue : pc[queue[i]] = "done" <=> queue[i] \in released
    /\ \A i, j \in DOMAIN queue :
          /\ i < j
          /\ pc[queue[j]] \in {"trying", "sleeping", "done"}
          => queue[i] \in released
    /\ \A r \in Callers : answer[r] \in {"granted", "exceeded"} => pc[r] = "done"

Inv == StateTypes /\ BucketInv /\ QueueInv

----------------------------------------------------------------------------
(* the bucket *)

LEMMA EnoughIsPositive == Enough \in Nat /\ Enough > 0
<1>1. Capacity \div Rate \in Nat
    OBVIOUS
<1>2. Setbacks * MaxSetback \in Nat
    OBVIOUS
<1> QED
    BY <1>1, <1>2 DEF Enough

\* A refill leaves the bucket within its bounds.
LEMMA RefillTypes ==
    StateTypes =>
        /\ Refill.tokens \in 0 .. Capacity
        /\ Refill.tokens >= tokens
        /\ Refill.elapsed \in Int /\ Refill.elapsed <= 0
<1> SUFFICES ASSUME StateTypes
             PROVE  /\ Refill.tokens \in 0 .. Capacity
                    /\ Refill.tokens >= tokens
                    /\ Refill.elapsed \in Int /\ Refill.elapsed <= 0
    OBVIOUS
<1>1. tokens \in Nat /\ tokens <= Capacity /\ elapsed \in Int
    BY DEF StateTypes
<1>2. CASE elapsed <= 0
    BY <1>1, <1>2 DEF Refill
<1>3. CASE ~(elapsed <= 0)
    <2>1. elapsed * Rate \in Nat
        BY <1>1, <1>3
    <2> QED
        BY <1>1, <1>3, <2>1 DEF Refill, Lower
<1> QED
    BY <1>2, <1>3

\* More ticks refill more units.
LEMMA MoreTicksRefillMore ==
    ASSUME NEW m \in Int, NEW n \in Int, m > 0, m <= n
    PROVE  m * Rate <= n * Rate /\ m * Rate \in Nat /\ n * Rate \in Nat
<1> DEFINE extra == n - m
<1>1. m \in Nat /\ n \in Nat /\ extra \in Nat /\ n = m + extra
    OBVIOUS
<1> HIDE DEF extra
<1>2. m * Rate \in Nat /\ n * Rate \in Nat /\ extra * Rate \in Nat
    BY <1>1
<1>3. (m + extra) * Rate = m * Rate + extra * Rate
    BY <1>1
<1> QED
    BY <1>1, <1>2, <1>3

LEMMA RetryAfterIsNat ==
    ASSUME NEW have \in Nat, have < Cost
    PROVE  RetryAfter(have) \in Nat
<1>1. Cost - have + Rate - 1 \in Nat
    OBVIOUS
<1> DEFINE units == Cost - have + Rate - 1
<1>2. units \in Nat
    BY <1>1
<1> HIDE DEF units
<1>3. units \div Rate \in Nat
    BY <1>2
<1> QED
    BY <1>3 DEF RetryAfter, units

\* A bucket that has just been refilled gains nothing from a refill.
LEMMA RefillOnce ==
    (elapsed <= 0) => Refill.tokens = tokens
BY DEF Refill


\* Elapsed time is worth its ticks at the rate, capped by the capacity.
LEMMA RefillAmount ==
    StateTypes =>
        Refill.tokens = IF elapsed <= 0 THEN tokens
                        ELSE IF Capacity < tokens + elapsed * Rate THEN Capacity
                        ELSE tokens + elapsed * Rate
BY DEF Refill, Lower

----------------------------------------------------------------------------
(* the queue *)

PlaceOf(r, i) == i \in DOMAIN queue /\ queue[i] = r

LEMMA PlaceIsUnique ==
    ASSUME QueueInv, NEW r, NEW i, PlaceOf(r, i)
    PROVE  Place(r) = i
BY DEF QueueInv, PlaceOf, Place

\* Whose predecessor is released has nobody but released ones before it: an
\* abandoned place is passed on in its turn only.
LEMMA AllBefore ==
    ASSUME StateTypes, QueueInv, NEW r \in Callers, NEW j, PlaceOf(r, j),
           PreviousReleased(r),
           NEW i \in DOMAIN queue, i < j
    PROVE  queue[i] \in released
<1>1. Place(r) = j
    BY PlaceIsUnique
<1>2. /\ queue \in Seq(Callers) /\ DOMAIN queue = 1 .. Len(queue) /\ Len(queue) \in Nat
      /\ j \in DOMAIN queue
    BY DEF StateTypes, PlaceOf
<1>3. j - 1 \in DOMAIN queue /\ (j - 1) + 1 = j /\ i <= j - 1
    BY <1>2
<1>4. queue[j - 1] \in released
    BY <1>1, <1>3 DEF PreviousReleased
<1>5. CASE i = j - 1
    BY <1>4, <1>5
<1>6. CASE i # j - 1
    <2>1. i < j - 1
        BY <1>2, <1>3, <1>6
    <2>2. pc[queue[j - 1]] = "done"
        BY <1>3, <1>4 DEF QueueInv
    <2> QED
        BY <2>1, <2>2, <1>3 DEF QueueInv
<1> QED
    BY <1>5, <1>6

----------------------------------------------------------------------------
(* the initial states *)

LEMMA InitInv == Init => Inv
<1> SUFFICES ASSUME Init PROVE Inv
    OBVIOUS
<1>1. elapsed <= Enough
    BY EnoughIsPositive DEF Init
<1>2. queue = <<>> /\ DOMAIN queue = {}
    BY DEF Init
<1>3. StateTypes
    BY <1>1 DEF Init, StateTypes, Steps
<1>4. BucketInv
    BY RefillOnce DEF Init, BucketInv
<1>5. QueueInv
    BY <1>2 DEF Init, QueueInv
<1> QED
    BY <1>3, <1>4, <1>5 DEF Inv

----------------------------------------------------------------------------
(* the types *)

LEMMA TypesStep == StateTypes /\ QueueInv /\ [Next]_vars => StateTypes'
<1> SUFFICES ASSUME StateTypes, QueueInv, [Next]_vars PROVE StateTypes'
    OBVIOUS
<1> USE DEF StateTypes, Steps
<1>1. ASSUME NEW r \in Callers, Arrive(r) PROVE StateTypes'
    <2>1. queue' \in Seq(Callers)
        <3>1. queue' = queue \/ queue' = Append(queue, r)
            BY <1>1 DEF Arrive
        <3>2. Append(queue, r) \in Seq(Callers)
            OBVIOUS
        <3> QED
            BY <3>1, <3>2
    <2> QED
        BY <1>1, <2>1 DEF Arrive, End, Goto, bucket
<1>2. ASSUME NEW r \in Callers, TakeTurn(r) PROVE StateTypes'
    BY <1>2 DEF TakeTurn, Goto, bucket
<1>3. ASSUME NEW r \in Callers, LeaveQueue(r) PROVE StateTypes'
    BY <1>3 DEF LeaveQueue, bucket
<1>4. ASSUME NEW r \in Callers, PassOn(r) PROVE StateTypes'
    BY <1>4 DEF PassOn, Goto, bucket
<1>5. ASSUME NEW r \in Callers, Try(r) PROVE StateTypes'
    <2>1. /\ Refill.tokens \in 0 .. Capacity
          /\ Refill.elapsed \in Int /\ Refill.elapsed <= Enough
        BY RefillTypes, EnoughIsPositive
    <2> DEFINE have == Refill.tokens
               since == Refill.elapsed
    <2>2. have \in 0 .. Capacity /\ since \in Int /\ since <= Enough
        BY <2>1
    <2>3. have < Cost => RetryAfter(have) \in Nat
        BY <2>2, RetryAfterIsNat
    <2>4. /\ strategy' = strategy /\ queue' = queue /\ aborted' = aborted /\ setbacks' = setbacks
          /\ released' \in {released, released \cup {r}}
        BY <1>5 DEF Try, bucket
    <2>5. pc' \in [Callers -> Steps] /\ answer' \in [Callers -> {"none", "granted", "aborted", "exceeded"}]
        BY <1>5 DEF Try, End, Goto
    <2>6. sleep' \in {sleep, [sleep EXCEPT ![r] = RetryAfter(have)]}
          /\ (sleep' = sleep \/ have < Cost)
        BY <1>5 DEF Try
    <2>7. tokens' \in {tokens, have} \/ (have >= Cost /\ tokens' = have - Cost)
        BY <1>5 DEF Try, bucket
    <2>8. elapsed' \in {elapsed, since} /\ credit' \in {credit, credit - Cost}
        BY <1>5 DEF Try, bucket
    <2> HIDE DEF have, since
    <2>9. sleep' \in [Callers -> Nat]
        BY <2>3, <2>6
    <2> QED
        BY <2>2, <2>4, <2>5, <2>7, <2>8, <2>9
<1>6. ASSUME NEW r \in Callers, Wake(r) PROVE StateTypes'
    BY <1>6 DEF Wake, Goto, bucket
<1>7. ASSUME NEW r \in Callers, AbortSleep(r) PROVE StateTypes'
    BY <1>7 DEF AbortSleep, End, bucket
<1>8. CASE Peek
    <2>1. /\ Refill.tokens \in 0 .. Capacity
          /\ Refill.elapsed \in Int /\ Refill.elapsed <= Enough
        BY RefillTypes, EnoughIsPositive
    <2> QED
        BY <1>8, <2>1 DEF Peek
<1>9. ASSUME NEW r \in Callers, Abort(r) PROVE StateTypes'
    BY <1>9 DEF Abort, bucket
<1>10. CASE Tick
    <2>1. elapsed' \in Int /\ elapsed' <= Enough
        BY <1>10, EnoughIsPositive DEF Tick, Lower
    <2>2. credit' \in Int
        BY <1>10 DEF Tick, Lower
    <2>3. sleep' \in [Callers -> Nat]
        BY <1>10 DEF Tick
    <2> QED
        BY <1>10, <2>1, <2>2, <2>3 DEF Tick
<1>11. CASE SetBack
    <2>1. elapsed' \in Int /\ elapsed' <= Enough
        BY <1>11, EnoughIsPositive DEF SetBack
    <2> QED
        BY <1>11, <2>1 DEF SetBack
<1>12. CASE UNCHANGED vars
    BY <1>12 DEF vars
<1> QED
    BY <1>1, <1>2, <1>3, <1>4, <1>5, <1>6, <1>7, <1>8, <1>9, <1>10, <1>11, <1>12 DEF Next, Step

----------------------------------------------------------------------------
(* the bucket *)

LEMMA BucketKept ==
    StateTypes /\ StateTypes' /\ BucketInv /\ UNCHANGED bucket => BucketInv'
BY DEF BucketInv, bucket, Refill

LEMMA BucketStep == Inv /\ StateTypes' /\ [Next]_vars => BucketInv'
<1> SUFFICES ASSUME Inv, StateTypes', [Next]_vars PROVE BucketInv'
    OBVIOUS
<1>0. /\ StateTypes /\ BucketInv
      /\ tokens \in Nat /\ tokens <= Capacity /\ elapsed \in Int /\ elapsed <= Enough /\ credit \in Int
      /\ Refill.tokens \in Int /\ Refill.tokens <= credit /\ Refill.tokens >= tokens
      /\ Refill.elapsed \in Int /\ Refill.elapsed <= 0
    BY RefillTypes DEF Inv, StateTypes, BucketInv
<1>a. Refill.tokens = IF elapsed <= 0 THEN tokens
                      ELSE IF Capacity < tokens + elapsed * Rate THEN Capacity
                      ELSE tokens + elapsed * Rate
    BY <1>0, RefillAmount
<1>b. Refill'.tokens = IF elapsed' <= 0 THEN tokens'
                       ELSE IF Capacity < tokens' + elapsed' * Rate THEN Capacity
                       ELSE tokens' + elapsed' * Rate
    <2>1. (StateTypes =>
            Refill.tokens = IF elapsed <= 0 THEN tokens
                            ELSE IF Capacity < tokens + elapsed * Rate THEN Capacity
                            ELSE tokens + elapsed * Rate)'
        BY RefillAmount, PTL
    <2> QED
        BY <2>1
<1>1. ASSUME NEW r \in Callers, Step(r), ~Try(r) PROVE BucketInv'
    BY <1>0, <1>1, BucketKept
       DEF Step, Arrive, TakeTurn, LeaveQueue, PassOn, Wake, AbortSleep
<1>2. ASSUME NEW r \in Callers, Try(r) PROVE BucketInv'
    <2>1. CASE UNCHANGED bucket
        BY <2>1, <1>0, BucketKept
    <2>2. CASE /\ elapsed' = Refill.elapsed
               /\ \/ tokens' = Refill.tokens - Cost /\ credit' = credit - Cost
                  \/ tokens' = Refill.tokens /\ credit' = credit
        BY <2>2, <1>0, <1>b DEF BucketInv
    <2> QED
        BY <1>2, <2>1, <2>2 DEF Try, bucket
<1>3. CASE Peek
    BY <1>3, <1>0, <1>b DEF Peek, BucketInv
<1>4. ASSUME NEW r \in Callers, Abort(r) PROVE BucketInv'
    BY <1>0, <1>4, BucketKept DEF Abort
<1>5. CASE Tick
    <2>1. /\ tokens' = tokens
          /\ elapsed' = IF elapsed + 1 < Enough THEN elapsed + 1 ELSE Enough
          /\ credit' = IF credit + Rate < Capacity THEN credit + Rate ELSE Capacity
        BY <1>5 DEF Tick, Lower
    <2>2. Enough \in Nat /\ Enough > 0
        BY EnoughIsPositive
    <2>3. Refill'.tokens <= Capacity /\ Refill'.tokens \in Int
        BY <1>0, <1>b, <2>1, <2>2
    <2>4. Refill'.tokens <= credit + Rate
        <3>1. CASE elapsed' = elapsed
            BY <3>1, <1>0, <1>a, <1>b, <2>1
        <3>2. CASE elapsed' = elapsed + 1 /\ elapsed <= 0
            BY <3>2, <1>0, <1>a, <1>b, <2>1
        <3>3. CASE elapsed' = elapsed + 1 /\ elapsed > 0
            <4>1. (elapsed + 1) * Rate = elapsed * Rate + Rate /\ elapsed * Rate \in Nat
                BY <3>3, <1>0
            <4> QED
                BY <4>1, <3>3, <1>0, <1>a, <1>b, <2>1
        <3> QED
            BY <3>1, <3>2, <3>3, <2>1, <2>2, <1>0
    <2> QED
        BY <2>1, <2>3, <2>4, <1>0 DEF BucketInv
<1>6. CASE SetBack
    <2>1. tokens' = tokens /\ credit' = credit /\ elapsed' \in Int /\ elapsed' <= elapsed
        BY <1>6, <1>0 DEF SetBack
    <2>2. elapsed' > 0 => /\ elapsed' * Rate <= elapsed * Rate
                          /\ elapsed' * Rate \in Nat /\ elapsed * Rate \in Nat
        BY <2>1, <1>0, MoreTicksRefillMore
    <2>3. CASE elapsed' <= 0
        BY <2>1, <2>3, <1>0, <1>b DEF BucketInv
    <2>4. CASE elapsed' > 0
        <3> DEFINE more == elapsed * Rate
                   less == elapsed' * Rate
        <3>1. less <= more /\ less \in Nat /\ more \in Nat
            BY <2>2, <2>4
        <3>2. Refill'.tokens = IF Capacity < tokens + less THEN Capacity ELSE tokens + less
            BY <2>1, <2>4, <1>b
        <3>3. Refill.tokens = IF Capacity < tokens + more THEN Capacity ELSE tokens + more
            BY <2>1, <2>4, <1>0, <1>a
        <3> HIDE DEF more, less
        <3>4. Refill'.tokens <= Refill.tokens /\ Refill'.tokens \in Int
            BY <3>1, <3>2, <3>3, <1>0
        <3> QED
            BY <2>1, <3>4, <1>0 DEF BucketInv
    <2> QED
        BY <2>1, <2>3, <2>4
<1>7. CASE UNCHANGED vars
    BY <1>0, <1>7, BucketKept DEF vars, bucket
<1> QED
    BY <1>1, <1>2, <1>3, <1>4, <1>5, <1>6, <1>7 DEF Next

----------------------------------------------------------------------------
(* the queue keeps its order *)

\* What a step of a request in the queue does to the queue: it goes to another
\* step, and releases its place exactly if that is its last one.
Moves(r, next) ==
    /\ queue' = queue
    /\ pc[r] \notin {"idle", "done"} /\ next \in Steps \ {"idle"}
    /\ pc' = [pc EXCEPT ![r] = next]
    /\ released' = IF next = "done" THEN released \cup {r} ELSE released
    /\ \A q \in Callers : q # r => answer'[q] = answer[q]
    /\ answer'[r] \in {"granted", "exceeded"} => next = "done" \/ answer'[r] = answer[r]

LEMMA MovesKeepQueueInv ==
    ASSUME StateTypes, QueueInv, NEW r \in Callers, NEW next, Moves(r, next),
           next \in {"trying", "sleeping", "done"} =>
               \A i, j \in DOMAIN queue : PlaceOf(r, j) /\ i < j => queue[i] \in released
    PROVE  QueueInv'
<1>0. /\ pc \in [Callers -> Steps] /\ released \subseteq Callers
      /\ \A i \in DOMAIN queue : queue[i] \in Callers
      /\ queue' = queue
    BY DEF StateTypes, Moves
<1>1. \A q \in Callers : pc'[q] = IF q = r THEN next ELSE pc[q]
    BY <1>0 DEF Moves
<1>2. \A q : q \in released' <=> q \in released \/ (q = r /\ next = "done")
    BY DEF Moves
<1>3. (\A i, j \in DOMAIN queue : queue[i] = queue[j] => i = j)'
    BY <1>0 DEF QueueInv
<1>4. (\A q \in Callers : pc[q] = "idle" => \A i \in DOMAIN queue : queue[i] # q)'
    BY <1>0, <1>1 DEF QueueInv, Moves
<1>5. (\A q \in Callers : pc[q] \notin {"idle", "done"} => \E i \in DOMAIN queue : queue[i] = q)'
    BY <1>0, <1>1 DEF QueueInv, Moves
<1>6. (\A q \in released : \E i \in DOMAIN queue : queue[i] = q)'
    BY <1>0, <1>2 DEF QueueInv, Moves
<1>7. (\A i \in DOMAIN queue : pc[queue[i]] = "done" <=> queue[i] \in released)'
    BY <1>0, <1>1, <1>2 DEF QueueInv, Moves
<1>8. (\A i, j \in DOMAIN queue :
          /\ i < j
          /\ pc[queue[j]] \in {"trying", "sleeping", "done"}
          => queue[i] \in released)'
    <2> SUFFICES ASSUME NEW i \in DOMAIN queue, NEW j \in DOMAIN queue, i < j,
                        pc'[queue[j]] \in {"trying", "sleeping", "done"}
                 PROVE  queue[i] \in released
        BY <1>0, <1>2
    <2>1. CASE queue[j] = r
        BY <2>1, <1>0, <1>1 DEF PlaceOf
    <2>2. CASE queue[j] # r
        BY <2>2, <1>0, <1>1 DEF QueueInv
    <2> QED
        BY <2>1, <2>2
<1>9. (\A q \in Callers : answer[q] \in {"granted", "exceeded"} => pc[q] = "done")'
    <2> SUFFICES ASSUME NEW q \in Callers, answer'[q] \in {"granted", "exceeded"}
                 PROVE  pc'[q] = "done"
        OBVIOUS
    <2>1. CASE q = r
        BY <2>1, <1>1 DEF QueueInv, Moves
    <2>2. CASE q # r
        BY <2>2, <1>1 DEF QueueInv, Moves
    <2> QED
        BY <2>1, <2>2
<1> QED
    BY <1>3, <1>4, <1>5, <1>6, <1>7, <1>8, <1>9 DEF QueueInv

\* Whose promise is awaited no more is preceded by released ones.
LEMMA TurnsComeInOrder ==
    ASSUME StateTypes, QueueInv, NEW r \in Callers,
           \/ pc[r] \in {"trying", "sleeping"}
           \/ pc[r] \in {"waiting", "leaving"} /\ PreviousReleased(r)
    PROVE  \A i, j \in DOMAIN queue : PlaceOf(r, j) /\ i < j => queue[i] \in released
<1>1. CASE pc[r] \in {"trying", "sleeping"}
    BY <1>1 DEF QueueInv, PlaceOf
<1>2. CASE PreviousReleased(r)
    BY <1>2, AllBefore
<1> QED
    BY <1>1, <1>2

LEMMA ArriveKeepsQueueInv ==
    ASSUME StateTypes, QueueInv, NEW r \in Callers, Arrive(r)
    PROVE  QueueInv'
<1>0. /\ pc \in [Callers -> Steps] /\ released \subseteq Callers
      /\ answer \in [Callers -> {"none", "granted", "aborted", "exceeded"}]
      /\ queue \in Seq(Callers) /\ Len(queue) \in Nat /\ DOMAIN queue = 1 .. Len(queue)
      /\ \A i \in DOMAIN queue : queue[i] \in Callers
      /\ \A i \in DOMAIN queue : queue[i] # r
      /\ pc[r] = "idle" /\ released' = released
      /\ r \notin released
    BY DEF StateTypes, Arrive, QueueInv
<1>1. CASE End(r, "aborted") /\ queue' = queue
    <2>1. \A q \in Callers : /\ pc'[q] = IF q = r THEN "done" ELSE pc[q]
                             /\ answer'[q] = IF q = r THEN "aborted" ELSE answer[q]
        BY <1>0, <1>1 DEF End
    <2> QED
        BY <2>1, <1>0, <1>1 DEF QueueInv
<1>2. CASE Goto(r, "waiting") /\ queue' = Append(queue, r)
    <2>1. \A q \in Callers : pc'[q] = IF q = r THEN "waiting" ELSE pc[q]
        BY <1>0, <1>2 DEF Goto
    <2>2. answer' = answer
        BY <1>2 DEF Goto
    <2> DEFINE last == Len(queue) + 1
    <2>3. /\ DOMAIN queue' = 1 .. last /\ last \in DOMAIN queue' /\ last \in Nat /\ queue'[last] = r
          /\ \A i \in DOMAIN queue : i \in 1 .. last /\ i # last /\ queue'[i] = queue[i]
          /\ \A i \in 1 .. last : i = last \/ i \in DOMAIN queue
          /\ \A i \in DOMAIN queue : i < last
        BY <1>0, <1>2
    <2> HIDE DEF last
    <2>4. (\A i, j \in DOMAIN queue : queue[i] = queue[j] => i = j)'
        BY <1>0, <2>3 DEF QueueInv
    <2>5. (\A q \in Callers : pc[q] = "idle" => \A i \in DOMAIN queue : queue[i] # q)'
        BY <1>0, <2>1, <2>3 DEF QueueInv
    <2>6. (\A q \in Callers : pc[q] \notin {"idle", "done"} => \E i \in DOMAIN queue : queue[i] = q)'
        <3> SUFFICES ASSUME NEW q \in Callers, pc'[q] \notin {"idle", "done"}
                     PROVE  \E i \in DOMAIN queue' : queue'[i] = q
            OBVIOUS
        <3>1. CASE q = r
            BY <3>1, <2>3
        <3>2. CASE q # r
            <4>1. PICK i \in DOMAIN queue : queue[i] = q
                BY <3>2, <2>1 DEF QueueInv
            <4> QED
                BY <4>1, <2>3
        <3> QED
            BY <3>1, <3>2
    <2>7. (\A q \in released : \E i \in DOMAIN queue : queue[i] = q)'
        <3> SUFFICES ASSUME NEW q \in released
                     PROVE  \E i \in DOMAIN queue' : queue'[i] = q
            BY <1>0
        <3>1. PICK i \in DOMAIN queue : queue[i] = q
            BY DEF QueueInv
        <3> QED
            BY <3>1, <2>3
    <2>8. (\A i \in DOMAIN queue : pc[queue[i]] = "done" <=> queue[i] \in released)'
        BY <1>0, <2>1, <2>3 DEF QueueInv
    <2>9. (\A i, j \in DOMAIN queue :
              /\ i < j
              /\ pc[queue[j]] \in {"trying", "sleeping", "done"}
              => queue[i] \in released)'
        <3> SUFFICES ASSUME NEW i \in 1 .. last, NEW j \in 1 .. last, i < j,
                            pc'[queue'[j]] \in {"trying", "sleeping", "done"}
                     PROVE  queue'[i] \in released
            BY <1>0, <2>3
        <3>1. j # last
            BY <2>1, <2>3
        <3>2. i \in DOMAIN queue /\ j \in DOMAIN queue
            BY <3>1, <2>3, <1>0
        <3>3. queue'[i] = queue[i] /\ queue'[j] = queue[j] /\ pc'[queue[j]] = pc[queue[j]]
            BY <3>2, <1>0, <2>1, <2>3
        <3> QED
            BY <3>2, <3>3 DEF QueueInv
    <2>10. (\A q \in Callers : answer[q] \in {"granted", "exceeded"} => pc[q] = "done")'
        BY <1>0, <2>1, <2>2 DEF QueueInv
    <2> QED
        BY <2>4, <2>5, <2>6, <2>7, <2>8, <2>9, <2>10 DEF QueueInv
<1> QED
    BY <1>1, <1>2 DEF Arrive

LEMMA QueueStep == StateTypes /\ QueueInv /\ [Next]_vars => QueueInv'
<1> SUFFICES ASSUME StateTypes, QueueInv, [Next]_vars PROVE QueueInv'
    OBVIOUS
<1>0. /\ pc \in [Callers -> Steps] /\ released \in SUBSET Callers
      /\ answer \in [Callers -> {"none", "granted", "aborted", "exceeded"}]
    BY DEF StateTypes
<1>1. ASSUME NEW r \in Callers, TakeTurn(r) PROVE QueueInv'
    <2>1. Moves(r, "trying")
        BY <1>0, <1>1 DEF TakeTurn, Goto, Moves, Steps
    <2> QED
        BY <1>1, <2>1, TurnsComeInOrder, MovesKeepQueueInv DEF TakeTurn
<1>2. ASSUME NEW r \in Callers, LeaveQueue(r) PROVE QueueInv'
    <2>1. Moves(r, "leaving")
        BY <1>0, <1>2 DEF LeaveQueue, Moves, Steps
    <2> QED
        BY <2>1, MovesKeepQueueInv
<1>3. ASSUME NEW r \in Callers, PassOn(r) PROVE QueueInv'
    <2>1. Moves(r, "done")
        BY <1>0, <1>3 DEF PassOn, Goto, Moves, Steps
    <2> QED
        BY <1>3, <2>1, TurnsComeInOrder, MovesKeepQueueInv DEF PassOn
<1>4. ASSUME NEW r \in Callers, Try(r) PROVE QueueInv'
    <2>1. Moves(r, "done") \/ Moves(r, "sleeping")
        <3>1. queue' = queue /\ pc[r] = "trying"
            BY <1>4 DEF Try
        <3>2. CASE released' = released \cup {r} /\ \E x : End(r, x)
            BY <3>1, <3>2, <1>0 DEF End, Moves, Steps
        <3>3. CASE released' = released /\ Goto(r, "sleeping")
            BY <3>1, <3>3, <1>0 DEF Goto, Moves, Steps
        <3> QED
            BY <1>4, <3>2, <3>3 DEF Try
    <2>2. pc[r] \in {"trying", "sleeping"}
        BY <1>4 DEF Try
    <2> QED
        BY <2>1, <2>2, TurnsComeInOrder, MovesKeepQueueInv
<1>5. ASSUME NEW r \in Callers, Wake(r) PROVE QueueInv'
    <2>1. Moves(r, "trying")
        BY <1>0, <1>5 DEF Wake, Goto, Moves, Steps
    <2> QED
        BY <1>5, <2>1, TurnsComeInOrder, MovesKeepQueueInv DEF Wake
<1>6. ASSUME NEW r \in Callers, AbortSleep(r) PROVE QueueInv'
    <2>1. Moves(r, "done")
        BY <1>0, <1>6 DEF AbortSleep, End, Moves, Steps
    <2> QED
        BY <1>6, <2>1, TurnsComeInOrder, MovesKeepQueueInv DEF AbortSleep
<1>7. CASE UNCHANGED <<queue, pc, released, answer>>
    BY <1>7 DEF QueueInv
<1> QED
    BY <1>1, <1>2, <1>3, <1>4, <1>5, <1>6, <1>7, ArriveKeepsQueueInv
       DEF Next, Step, Abort, Peek, Tick, SetBack, vars

----------------------------------------------------------------------------
(* the theorems about RateLimit *)

LEMMA Invariance == Spec => []Inv
<1>1. Inv /\ [Next]_vars => Inv'
    <2> SUFFICES ASSUME Inv, [Next]_vars PROVE Inv'
        OBVIOUS
    <2>1. StateTypes /\ QueueInv
        BY DEF Inv
    <2>2. StateTypes' /\ QueueInv'
        BY <2>1, TypesStep, QueueStep
    <2>3. BucketInv'
        BY <2>2, BucketStep
    <2> QED
        BY <2>2, <2>3 DEF Inv
<1> QED
    BY InitInv, <1>1, PTL DEF Spec

\* Every variable has its type: the tokens stay between none and the capacity,
\* a request has one place in the queue, and only such a place is released.
THEOREM RateLimitTypes == Spec => []TypeOK
<1>1. Inv => TypeOK
    <2> SUFFICES ASSUME Inv PROVE TypeOK
        OBVIOUS
    <2>1. StateTypes /\ QueueInv
        BY DEF Inv
    <2>2. IsInjective(queue)
        BY <2>1 DEF QueueInv, IsInjective
    <2>3. ToSet(queue) \subseteq Callers /\ released \subseteq ToSet(queue)
        BY <2>1 DEF StateTypes, QueueInv, ToSet
    <2> QED
        BY <2>1, <2>2, <2>3 DEF StateTypes, TypeOK, Steps
<1> QED
    BY Invariance, <1>1, PTL

\* In any span of real time no more tokens are granted than a bucket that refills
\* with real time has, whatever the rate, the capacity and the setbacks of the clock.
THEOREM GrantsRespectTheRate == Spec => []RateIsRespected
<1>1. Inv => RateIsRespected
    <2> SUFFICES ASSUME Inv PROVE RateIsRespected
        OBVIOUS
    <2>1. StateTypes /\ BucketInv /\ credit \in Int
        BY DEF Inv, StateTypes
    <2>2. Refill.tokens \in 0 .. Capacity /\ Refill.tokens <= credit
        BY <2>1, RefillTypes DEF BucketInv
    <2> QED
        BY <2>1, <2>2 DEF RateIsRespected
<1> QED
    BY Invariance, <1>1, PTL

\* No request overtakes one that is still in the queue, however many callers
\* there are and whoever leaves the queue.
THEOREM NobodyOvertakes == Spec => []FirstComeFirstServed
<1>1. Inv => FirstComeFirstServed
    <2> SUFFICES ASSUME Inv,
                        NEW i \in DOMAIN queue, NEW j \in DOMAIN queue, i < j,
                        answer[queue[j]] \in {"granted", "exceeded"}
                 PROVE  pc[queue[i]] \notin {"waiting", "trying", "sleeping"}
        BY DEF FirstComeFirstServed
    <2>1. QueueInv /\ queue[j] \in Callers
        BY DEF Inv, StateTypes
    <2>2. pc[queue[j]] = "done"
        BY <2>1 DEF QueueInv
    <2>3. queue[i] \in released
        BY <2>1, <2>2 DEF QueueInv
    <2>4. pc[queue[i]] = "done"
        BY <2>1, <2>3 DEF QueueInv
    <2> QED
        BY <2>4
<1> QED
    BY Invariance, <1>1, PTL

\* A token is granted only when the rate allows it and nobody has waited longer.
THEOREM GrantsAreAlwaysDue == Spec => []GrantsAreDue
<1>1. RateIsRespected /\ FirstComeFirstServed => GrantsAreDue
    BY DEF GrantsAreDue
<1> QED
    BY GrantsRespectTheRate, NobodyOvertakes, <1>1, PTL

----------------------------------------------------------------------------
(* RateLimit in the composition *)

LEMMA RateLimitSpec ==
    PluginsSpec => Spec
<1>1. PluginsInit => Init
    BY DEF PluginsInit
<1>2. [PluginsNext]_allVars => [Next]_vars
    BY DEF PluginsNext, RateStep, TtlStep, CacheStep, RetryStep, StorageStep, allVars
<1> QED
    BY <1>1, <1>2, PTL DEF PluginsSpec, Spec

\* In the composition, too, a token is granted only when it is due.
THEOREM PluginsGrantsAreDue == PluginsSpec => []GrantsAreDue
    BY RateLimitSpec, GrantsAreAlwaysDue, PTL

----------------------------------------------------------------------------
(* Ttl in the composition: the steps of T are those of TP *)

LEMMA SameTtlUse ==
    ASSUME NEW x, T!Use(x)
    PROVE  TP!Use(x)
  BY DEF T!Use, TP!Use, T!Kind, TP!Kind, T!Request, TP!Request, T!Sets, TP!Sets,
         T!MayStart, TP!MayStart, T!Running, TP!Running, T!Key, TP!Key, T!Written, TP!Written,
         T!Reads, TP!Reads, T!Dest, TP!Dest, T!KeysOf, TP!KeysOf, T!Transfers, TP!Transfers,
         T!IsExpired, TP!IsExpired, T!Goto, TP!Goto

LEMMA SameTtlEncode ==
    ASSUME NEW x, T!Encode(x)
    PROVE  TP!Encode(x)
  BY DEF T!Encode, TP!Encode, T!Kind, TP!Kind, T!Request, TP!Request, T!Sets, TP!Sets,
         T!MayStart, TP!MayStart, T!Running, TP!Running, T!Key, TP!Key, T!Written, TP!Written,
         T!Reads, TP!Reads, T!Dest, TP!Dest, T!KeysOf, TP!KeysOf, T!Transfers, TP!Transfers,
         T!Lifetime, TP!Lifetime, T!Goto, TP!Goto

LEMMA SameTtlLock ==
    ASSUME NEW x, T!Lock(x)
    PROVE  TP!Lock(x)
  BY DEF T!Lock, TP!Lock, T!CanLock, TP!CanLock, T!Locked, TP!Locked, T!KeysOf, TP!KeysOf,
         T!Kind, TP!Kind, T!Request, TP!Request, T!Transfers, TP!Transfers, T!Key, TP!Key,
         T!Dest, TP!Dest, T!Reads, TP!Reads, T!Goto, TP!Goto

LEMMA SameTtlRead ==
    ASSUME NEW x, T!Read(x)
    PROVE  TP!Read(x)
  BY DEF T!Read, TP!Read, T!Kind, TP!Kind, T!Request, TP!Request, T!Reads, TP!Reads,
         T!Found, TP!Found, T!Nothing, TP!Nothing, T!Content, TP!Content, T!Key, TP!Key,
         T!End, TP!End, T!Goto, TP!Goto

LEMMA SameTtlWrite ==
    ASSUME NEW x, T!Write(x)
    PROVE  TP!Write(x)
  BY DEF T!Write, TP!Write, T!Kind, TP!Kind, T!Request, TP!Request, T!Reads, TP!Reads,
         T!Transfers, TP!Transfers, T!Found, TP!Found, T!Nothing, TP!Nothing,
         T!Content, TP!Content, T!Key, TP!Key, T!Dest, TP!Dest, T!Goto, TP!Goto

LEMMA SameTtlNothingToTransfer ==
    ASSUME NEW x, T!NothingToTransfer(x)
    PROVE  TP!NothingToTransfer(x)
  BY DEF T!NothingToTransfer, TP!NothingToTransfer, T!Kind, TP!Kind, T!Request, TP!Request,
         T!Transfers, TP!Transfers, T!Found, TP!Found, T!Nothing, TP!Nothing,
         T!Content, TP!Content, T!Key, TP!Key, T!End, TP!End

LEMMA SameTtlFail ==
    ASSUME NEW x, T!Fail(x)
    PROVE  TP!Fail(x)
  BY DEF T!Fail, TP!Fail, T!End, TP!End

LEMMA SameTtlSettle ==
    ASSUME NEW x, T!Settle(x)
    PROVE  TP!Settle(x)
  BY DEF T!Settle, TP!Settle, T!Kind, TP!Kind, T!Request, TP!Request, T!Transfers, TP!Transfers,
         T!Key, TP!Key, T!Dest, TP!Dest, T!Recorded, TP!Recorded, T!Sets, TP!Sets,
         T!KeysOf, TP!KeysOf, T!End, TP!End

LEMMA SameTtlDecode ==
    ASSUME NEW x, T!Decode(x)
    PROVE  TP!Decode(x)
  BY DEF T!Decode, TP!Decode, T!IsExpired, TP!IsExpired, T!Expiry, TP!Expiry, T!Key, TP!Key,
         T!Request, TP!Request, T!End, TP!End

LEMMA SameTtlDecodeStream ==
    ASSUME NEW x, T!DecodeStream(x)
    PROVE  TP!DecodeStream(x)
  BY DEF T!DecodeStream, TP!DecodeStream, T!End, TP!End, T!IsExpired, TP!IsExpired,
         T!Key, TP!Key, T!Request, TP!Request

LEMMA SameTtlTick ==
    ASSUME T!Tick
    PROVE  TP!Tick
  BY DEF T!Tick, TP!Tick

LEMMA SameTtlRestart ==
    ASSUME T!Restart
    PROVE  TP!Restart
  BY DEF T!Restart, TP!Restart, T!Running, TP!Running, T!IsStream, TP!IsStream,
         T!Nothing, TP!Nothing, T!Content, TP!Content

LEMMA SameTtlNote ==
    ASSUME T!Note
    PROVE  TP!Note
  BY DEF T!Note, TP!Note, T!Kind, TP!Kind, T!Request, TP!Request, T!Gone, TP!Gone, T!Key, TP!Key

LEMMA SameTtlFinished ==
    ASSUME T!Finished
    PROVE  TP!Finished
  BY DEF T!Finished, TP!Finished, T!vars, TP!vars

LEMMA SameTtlInit ==
    ASSUME T!Init
    PROVE  TP!Init
  BY DEF T!Init, TP!Init, T!Nothing, TP!Nothing, T!Content, TP!Content, T!Kind, TP!Kind,
         T!Request, TP!Request

\* Every step of Ttl in the composition is one of the Ttl that is proved about.
LEMMA SameTtlNext ==
    ASSUME T!Next
    PROVE  TP!Next
  BY SameTtlUse, SameTtlEncode, SameTtlLock, SameTtlRead, SameTtlWrite,
     SameTtlNothingToTransfer, SameTtlFail, SameTtlSettle, SameTtlDecode,
     SameTtlDecodeStream, SameTtlTick, SameTtlRestart, SameTtlNote, SameTtlFinished
  DEF T!Next, TP!Next, T!Step, TP!Step

LEMMA PlansAreAdmitted ==
    TP!Admitted
  BY TtlAssumption DEF T!Admitted, TP!Admitted, T!Time, TP!Time, T!Requests, TP!Requests, T!Sets, TP!Sets,
         T!Reads, TP!Reads, T!Transfers, TP!Transfers, T!IsPlain, TP!IsPlain,
         T!IsStreaming, TP!IsStreaming

\* A behaviour of the composition is one of Ttl.
LEMMA TtlSpec ==
    PluginsSpec => TP!Spec
<1>1. PluginsInit => TP!Init
    BY SameTtlInit DEF PluginsInit
<1>2. [PluginsNext]_allVars => [TP!Next]_(TP!vars)
    <2>1. ASSUME TtlStep
          PROVE  [TP!Next]_(TP!vars)
        BY <2>1, SameTtlNext DEF TtlStep
    <2>2. ASSUME UNCHANGED ttlVars
          PROVE  [TP!Next]_(TP!vars)
        BY <2>2 DEF ttlVars, TP!vars
    <2>3. (RateStep(Next) \/ CacheStep \/ RetryStep \/ StorageStep \/ UNCHANGED allVars)
            => UNCHANGED ttlVars
        BY DEF RateStep, CacheStep, RetryStep, StorageStep, allVars, ttlVars
    <2> QED
        BY <2>1, <2>2, <2>3 DEF PluginsNext
<1> QED
    BY <1>1, <1>2, PTL DEF PluginsSpec, TP!Spec

LEMMA SameTtlRecordsAreExact ==
    ASSUME TP!RecordsAreExact
    PROVE  T!RecordsAreExact
  BY DEF T!RecordsAreExact, TP!RecordsAreExact, T!Written, TP!Written, T!Kind, TP!Kind,
         T!Request, TP!Request, T!Reads, TP!Reads, T!Dest, TP!Dest, T!KeysOf, TP!KeysOf,
         T!Transfers, TP!Transfers, T!Key, TP!Key, T!IsStream, TP!IsStream,
         T!Nothing, TP!Nothing, T!Content, TP!Content

LEMMA SameTtlLiveIsServed ==
    ASSUME TP!LiveIsServed
    PROVE  T!LiveIsServed
  BY DEF T!LiveIsServed, TP!LiveIsServed

LEMMA SameTtlNoValueIsHidden ==
    ASSUME TP!NoValueIsHidden
    PROVE  T!NoValueIsHidden
  BY DEF T!NoValueIsHidden, TP!NoValueIsHidden, T!Written, TP!Written, T!Kind, TP!Kind,
         T!Request, TP!Request, T!Reads, TP!Reads, T!Dest, TP!Dest, T!KeysOf, TP!KeysOf,
         T!Transfers, TP!Transfers, T!Key, TP!Key, T!IsExpired, TP!IsExpired, T!Gone, TP!Gone

\* If no get of a key runs while the key is written: the records are exact, no
\* living value is reported missing, and no expired one is served (Ttl.use,
\* Ttl.afterUse, Ttl.decode, Ttl.decodeStream).
THEOREM ExpiryIsAlwaysExact ==
    ASSUME Careful
    PROVE  PluginsSpec => ExpiryIsExact
<1>1. TP!RecordsAreExact /\ TP!LiveIsServed => T!RecordsAreExact /\ T!LiveIsServed
    BY SameTtlRecordsAreExact, SameTtlLiveIsServed
<1>2. TP!Spec => [](TP!RecordsAreExact /\ TP!LiveIsServed)
    <2>1. (TP!Spec => []TP!RecordsAreExact) /\ (TP!Spec => []TP!LiveIsServed)
        BY PlansAreAdmitted, TP!RecordsAlwaysAreExact, TP!LiveIsAlwaysServed
    <2> QED
        BY <2>1, PTL
<1>3. TP!Spec => TP!ExpiredIsNotServed
    BY PlansAreAdmitted, TP!ExpiredIsNeverServed
<1>4. TP!ExpiredIsNotServed => T!ExpiredIsNotServed
    BY PTL DEF TP!ExpiredIsNotServed, T!ExpiredIsNotServed, TP!vars, T!vars
<1> QED
    BY <1>1, <1>2, <1>3, <1>4, TtlSpec, PTL DEF ExpiryIsExact

\* The record never hides a living value from the calls (Ttl.use).
THEOREM ValuesAreNeverHidden ==
    ASSUME Careful
    PROVE  PluginsSpec => []NoValueIsHidden
<1>1. TP!NoValueIsHidden => NoValueIsHidden
    BY SameTtlNoValueIsHidden DEF NoValueIsHidden
<1>2. TP!Spec => []TP!NoValueIsHidden
    BY PlansAreAdmitted, TP!NoValueIsEverHidden
<1> QED
    BY <1>1, <1>2, TtlSpec, PTL
=============================================================================
