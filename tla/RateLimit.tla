----------------------------- MODULE RateLimit -----------------------------
(***************************************************************************)
(* The middleware of @unikvs/rate-limit: a bucket of tokens that refills   *)
(* as the clock advances, behind a queue made of promises.  A request      *)
(* waits for the promise of its predecessor; its own promise is released   *)
(* when it has a token, fails or, if it left early, when its predecessor's *)
(* is released.                                                            *)
(*                                                                         *)
(* Time passes in ticks.  The clock that the bucket reads may be set back; *)
(* timers are not affected by that.  Tokens are counted in units: a token  *)
(* is Cost units, a tick refills Rate units.                               *)
(***************************************************************************)
EXTENDS Integers, Sequences, FiniteSets, SequencesExt

CONSTANTS
    Callers,
    Cost,        \* units of one token
    Rate,        \* units that a tick refills
    Capacity,    \* units that the bucket holds
    MaxSetback,  \* how far the clock is set back at once
    Setbacks     \* how often it is set back

\* What the constructor asks for: a rate, and room for one token.
ASSUME RateLimitAssumption ==
    /\ Cost \in Nat \ {0} /\ Rate \in Nat \ {0}
    /\ Capacity \in Nat /\ Capacity >= Cost
    /\ MaxSetback \in Nat /\ Setbacks \in Nat

VARIABLES
    strategy,  \* whether a request that finds no token waits or throws
    tokens,    \* the units in the bucket
    elapsed,   \* the ticks from the last refill to the clock
    setbacks,  \* how many setbacks are left
    queue,     \* the requests in the order of their arrival
    released,  \* the requests whose promise is resolved
    pc,        \* pc[r]: the step of request r
    sleep,     \* sleep[r]: the ticks until the timer of r fires
    aborted,   \* the requests whose signal has fired
    answer,    \* answer[r]: what became of r
    credit     \* history: the units in a bucket that refills with real time

vars == <<strategy, tokens, elapsed, setbacks, queue, released, pc, sleep,
          aborted, answer, credit>>

bucket == <<tokens, elapsed, setbacks, credit>>

\* A bucket is full after that many ticks, whatever setbacks are still to come.
Enough == Capacity \div Rate + 1 + Setbacks * MaxSetback

Lower(a, b) == IF a < b THEN a ELSE b

Init ==
    /\ strategy \in {"wait", "throw"}
    /\ tokens = Capacity
    /\ elapsed = 0
    /\ setbacks = Setbacks
    /\ queue = <<>>
    /\ released = {}
    /\ pc = [r \in Callers |-> "idle"]
    /\ sleep = [r \in Callers |-> 0]
    /\ aborted = {}
    /\ answer = [r \in Callers |-> "none"]
    /\ credit = Capacity

----------------------------------------------------------------------------
(* the queue *)

Place(r) == CHOOSE i \in DOMAIN queue : queue[i] = r

\* The promise that r waits for: the tail of the queue when r arrived.
PreviousReleased(r) == \A i \in DOMAIN queue : i + 1 = Place(r) => queue[i] \in released

End(r, result) ==
    /\ pc' = [pc EXCEPT ![r] = "done"]
    /\ answer' = [answer EXCEPT ![r] = result]

Goto(r, step) == pc' = [pc EXCEPT ![r] = step] /\ UNCHANGED answer

\* A request whose signal has fired does not enter the queue.
Arrive(r) ==
    /\ pc[r] = "idle"
    /\ \/ r \in aborted /\ End(r, "aborted") /\ UNCHANGED queue
       \/ r \notin aborted /\ Goto(r, "waiting") /\ queue' = Append(queue, r)
    /\ UNCHANGED <<strategy, bucket, released, sleep, aborted>>

TakeTurn(r) ==
    /\ pc[r] = "waiting" /\ PreviousReleased(r)
    /\ Goto(r, "trying")
    /\ UNCHANGED <<strategy, bucket, queue, released, sleep, aborted>>

\* Mutant: who leaves the queue lets the next one in at once.
LeaveQueue_AtOnce(r) ==
    /\ pc[r] = "waiting" /\ r \in aborted
    /\ pc' = [pc EXCEPT ![r] = "leaving"]
    /\ answer' = [answer EXCEPT ![r] = "aborted"]
    /\ released' = released \cup {r}
    /\ UNCHANGED <<strategy, bucket, queue, sleep, aborted>>

\* r is answered, but the place it had still waits for its predecessor.
LeaveQueue(r) ==
    /\ pc[r] = "waiting" /\ r \in aborted
    /\ pc' = [pc EXCEPT ![r] = "leaving"]
    /\ answer' = [answer EXCEPT ![r] = "aborted"]
    /\ UNCHANGED <<strategy, bucket, queue, released, sleep, aborted>>

\* Mutant: the place of one who left is never released.
PassOn_Never(r) ==
    /\ pc[r] = "leaving" /\ PreviousReleased(r)
    /\ Goto(r, "done")
    /\ UNCHANGED <<strategy, bucket, queue, released, sleep, aborted>>

PassOn(r) ==
    /\ pc[r] = "leaving" /\ PreviousReleased(r)
    /\ Goto(r, "done")
    /\ released' = released \cup {r}
    /\ UNCHANGED <<strategy, bucket, queue, sleep, aborted>>

----------------------------------------------------------------------------
(* the bucket *)

\* Mutant: a bucket that is full fills further.
Refill_Uncapped == IF elapsed <= 0 THEN [tokens |-> tokens, elapsed |-> elapsed]
                   ELSE [tokens |-> tokens + elapsed * Rate, elapsed |-> 0]

\* The bucket after a refill; a clock that did not advance changes nothing.
Refill == IF elapsed <= 0 THEN [tokens |-> tokens, elapsed |-> elapsed]
          ELSE [tokens |-> Lower(Capacity, tokens + elapsed * Rate), elapsed |-> 0]

\* The ticks until the bucket has a token, rounded up.
RetryAfter(have) == (Cost - have + Rate - 1) \div Rate

\* r has its turn, or its timer has fired: it fails, takes a token or sleeps.
Try(r) ==
    /\ pc[r] = "trying"
    /\ \/ /\ r \in aborted
          /\ End(r, "aborted")
          /\ released' = released \cup {r}
          /\ UNCHANGED <<bucket, sleep>>
       \/ /\ r \notin aborted /\ Refill.tokens >= Cost
          /\ tokens' = Refill.tokens - Cost
          /\ elapsed' = Refill.elapsed
          /\ credit' = credit - Cost
          /\ End(r, "granted")
          /\ released' = released \cup {r}
          /\ UNCHANGED <<setbacks, sleep>>
       \/ /\ r \notin aborted /\ Refill.tokens < Cost
          /\ tokens' = Refill.tokens
          /\ elapsed' = Refill.elapsed
          /\ \/ /\ strategy = "throw"
                /\ End(r, "exceeded")
                /\ released' = released \cup {r}
                /\ UNCHANGED sleep
             \/ /\ strategy = "wait"
                /\ Goto(r, "sleeping")
                /\ sleep' = [sleep EXCEPT ![r] = RetryAfter(Refill.tokens)]
                /\ UNCHANGED released
          /\ UNCHANGED <<setbacks, credit>>
    /\ UNCHANGED <<strategy, queue, aborted>>

Wake(r) ==
    /\ pc[r] = "sleeping" /\ sleep[r] = 0
    /\ Goto(r, "trying")
    /\ UNCHANGED <<strategy, bucket, queue, released, sleep, aborted>>

\* The timer is cleared and the place in the queue released.
AbortSleep(r) ==
    /\ pc[r] = "sleeping" /\ r \in aborted
    /\ End(r, "aborted")
    /\ released' = released \cup {r}
    /\ sleep' = [sleep EXCEPT ![r] = 0]
    /\ UNCHANGED <<strategy, bucket, queue, aborted>>

\* The application reads availableTokens, which refills the bucket.
Peek ==
    /\ tokens' = Refill.tokens
    /\ elapsed' = Refill.elapsed
    /\ UNCHANGED <<strategy, setbacks, credit, queue, released, pc, sleep, aborted, answer>>

----------------------------------------------------------------------------
(* the environment *)

Abort(r) ==
    /\ pc[r] \notin {"leaving", "done"} /\ r \notin aborted
    /\ aborted' = aborted \cup {r}
    /\ UNCHANGED <<strategy, bucket, queue, released, pc, sleep, answer>>

Tick ==
    /\ elapsed' = Lower(elapsed + 1, Enough)
    /\ credit' = Lower(credit + Rate, Capacity)
    /\ sleep' = [r \in Callers |-> IF sleep[r] = 0 THEN 0 ELSE sleep[r] - 1]
    /\ UNCHANGED <<strategy, tokens, setbacks, queue, released, pc, aborted, answer>>

SetBack ==
    /\ setbacks > 0
    /\ setbacks' = setbacks - 1
    /\ \E by \in 1 .. MaxSetback : elapsed' = elapsed - by
    /\ UNCHANGED <<strategy, tokens, credit, queue, released, pc, sleep, aborted, answer>>

Step(r) ==
    \/ Arrive(r) \/ TakeTurn(r) \/ LeaveQueue(r) \/ PassOn(r)
    \/ Try(r) \/ Wake(r) \/ AbortSleep(r)

Next ==
    \/ \E r \in Callers : Step(r) \/ Abort(r)
    \/ Peek
    \/ Tick
    \/ SetBack

Fairness ==
    /\ WF_vars(Tick)
    /\ \A r \in Callers : WF_vars(Step(r))

Spec == Init /\ [][Next]_vars
FairSpec == Spec /\ Fairness

----------------------------------------------------------------------------
(* properties *)

\* Every variable has its type (the private fields of RateLimit).
TypeOK ==
    /\ strategy \in {"wait", "throw"}
    /\ tokens \in 0 .. Capacity
    /\ elapsed \in Int /\ elapsed <= Enough
    /\ setbacks \in 0 .. Setbacks
    /\ IsInjective(queue) /\ ToSet(queue) \subseteq Callers
    /\ released \subseteq ToSet(queue)
    /\ pc \in [Callers -> {"idle", "waiting", "leaving", "trying", "sleeping", "done"}]
    /\ sleep \in [Callers -> Nat]
    /\ aborted \subseteq Callers
    /\ credit \in Int
    /\ answer \in [Callers -> {"none", "granted", "aborted", "exceeded"}]

\* In any span of real time no more tokens are granted than a bucket holds that
\* refills with real time: a clock that is set back, reads of availableTokens and
\* requests that leave between two refills add none.
RateIsRespected == credit >= 0

\* Nobody gets a token, or is told that there is none, while an earlier request
\* is still in the queue, whoever in between has left it.
FirstComeFirstServed ==
    \A i, j \in DOMAIN queue :
        i < j /\ answer[queue[j]] \in {"granted", "exceeded"} =>
            pc[queue[i]] \notin {"waiting", "trying", "sleeping"}

\* A token that is granted is due: the rate allows it, and nobody has waited longer.
GrantsAreDue == RateIsRespected /\ FirstComeFirstServed

\* Every request is answered, whoever leaves the queue and however often the
\* clock is set back.
EveryRequestEnds == \A r \in Callers : (pc[r] # "idle") ~> (pc[r] = "done")

=============================================================================
