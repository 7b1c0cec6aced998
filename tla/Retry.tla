------------------------------- MODULE Retry -------------------------------
(***************************************************************************)
(* The storage wrapper of @unikvs/retry: one call, tried again while the   *)
(* inner storage fails.  The client keeps calls on the same key apart, so  *)
(* a call is alone with its keys.                                          *)
(*                                                                         *)
(* A call of the inner storage that throws may have done its work before.  *)
(* It throws KeyNotFoundError if the key is missing; any other error is    *)
(* taken for a transient one, unless the signal of the call has fired.     *)
(***************************************************************************)
EXTENDS Naturals, FiniteSets

CONSTANTS
    Keys,
    Values,
    None,        \* nothing is stored
    Requests,    \* [kind, key, dest, value]: what the call may ask for
    MaxRetries

VARIABLES
    native,   \* whether the inner storage has copy and move; it never changes
    request,  \* what the call asks for; it never changes
    inner,    \* what the inner storage holds
    pc,       \* the step of the call: which call of the inner storage is next
    attempt,  \* how many attempts were begun
    data,     \* what the fallback of copy and move has read
    aborted,  \* whether the signal of the call has fired
    answer,   \* what the call has returned
    before    \* history: what the inner storage held at first

vars == <<native, request, inner, pc, attempt, data, aborted, answer, before>>

Key == request.key
Dest == request.dest
Transfers == {"copy", "move"}
Falls == request.kind \in Transfers /\ ~native

Init ==
    /\ native \in BOOLEAN
    /\ request \in Requests
    /\ inner \in [Keys -> Values \cup {None}]
    /\ pc = "begin"
    /\ attempt = 0
    /\ data = None
    /\ aborted = FALSE
    /\ answer = "none"
    /\ before = inner

End(result) == pc' = "done" /\ answer' = result
Goto(step) == pc' = step /\ UNCHANGED answer

----------------------------------------------------------------------------
(* the attempts *)

Begin ==
    /\ pc = "begin"
    /\ attempt' = attempt + 1
    /\ \/ aborted /\ End("aborted")
       \/ ~aborted /\ Goto(IF Falls THEN "read" ELSE request.kind)
    /\ UNCHANGED <<native, request, inner, data, aborted, before>>

\* Mutant: one attempt too many.
Throw_OnceMore(result) ==
    IF aborted \/ result = "notFound" THEN End(result)
    ELSE IF attempt > MaxRetries + 1 THEN End("exhausted")
    ELSE Goto("sleep")

\* What an attempt that ends with an error leads to.
Throw(result) ==
    IF aborted \/ result = "notFound" THEN End(result)
    ELSE IF attempt > MaxRetries THEN End("exhausted")
    ELSE Goto("sleep")

\* The delay is over, or the signal fires in it.
Sleep ==
    /\ pc = "sleep"
    /\ Goto("begin") \/ (aborted /\ End("aborted"))
    /\ UNCHANGED <<native, request, inner, attempt, data, aborted, before>>

Abort ==
    /\ pc # "done" /\ ~aborted
    /\ aborted' = TRUE
    /\ UNCHANGED <<native, request, inner, pc, attempt, data, answer, before>>

----------------------------------------------------------------------------
(* the inner storage *)

\* The step of the fallback, or else the call itself, that is under way.
Calls == {"read", "write", "exists", "delete", "clear"} \cup Transfers

\* Mutant: the fallback writes where it has read.
Target_Source == Key

\* The key that a write goes to.
Target == IF Falls THEN Dest ELSE Key

NeedsKey == pc \in {"read", "delete"} \cup Transfers

Effect ==
    CASE pc \in {"read", "exists"} -> inner
      [] pc = "write" -> [inner EXCEPT ![Target] = IF Falls THEN data ELSE request.value]
      [] pc = "delete" -> [inner EXCEPT ![Key] = None]
      [] pc = "clear" -> [k \in Keys |-> None]
      [] pc = "copy" -> [inner EXCEPT ![Dest] = inner[Key]]
      [] pc = "move" -> [inner EXCEPT ![Key] = None, ![Dest] = inner[Key]]

\* Mutant: the source is removed before the copy of it is written.
AfterRead_DeleteFirst == IF request.kind = "move" THEN "delete" ELSE "write"

AfterRead == "write"

\* Mutant: the signal is not looked at before the source is removed.
Proceed_Unchecked(step) == Goto(step)

\* The fallback looks at the signal between its steps.
Proceed(step) == IF aborted THEN Throw("aborted") ELSE Goto(step)

\* What follows the call that has succeeded.
Continue ==
    CASE Falls /\ pc = "read" /\ Key # Dest -> Proceed(AfterRead)
      [] Falls /\ pc = "read" /\ Key = Dest -> IF aborted THEN Throw("aborted") ELSE End("ok")
      [] Falls /\ pc = "write" /\ request.kind = "move" -> Proceed("delete")
      [] Falls /\ pc = "write" /\ request.kind = "copy" ->
            IF aborted THEN Throw("aborted") ELSE End("ok")
      [] OTHER -> End("ok")

Succeed ==
    /\ pc \in Calls
    /\ NeedsKey => inner[Key] # None
    /\ inner' = Effect
    /\ data' = IF pc = "read" THEN inner[Key] ELSE data
    /\ Continue
    /\ UNCHANGED <<native, request, attempt, aborted, before>>

Missing ==
    /\ pc \in Calls /\ NeedsKey /\ inner[Key] = None
    /\ Throw("notFound")
    /\ UNCHANGED <<native, request, inner, attempt, data, aborted, before>>

\* The call throws, before or after it had its effect.
Fail ==
    /\ pc \in Calls
    /\ inner' \in {inner} \cup (IF NeedsKey /\ inner[Key] = None THEN {} ELSE {Effect})
    /\ Throw("failed")
    /\ UNCHANGED <<native, request, attempt, data, aborted, before>>

Finished == pc = "done" /\ UNCHANGED vars

Next == Begin \/ Sleep \/ Abort \/ Succeed \/ Missing \/ Fail \/ Finished

Spec == Init /\ [][Next]_vars

----------------------------------------------------------------------------
(* properties *)

\* Every variable has its type.
TypeOK ==
    /\ inner \in [Keys -> Values \cup {None}]
    /\ pc \in Calls \cup {"begin", "sleep", "done"}
    /\ attempt \in 0 .. MaxRetries + 1
    /\ data \in Values \cup {None}
    /\ answer \in {"none", "ok", "notFound", "failed", "aborted", "exhausted"}

\* The answer of a call says what has become of its keys, whatever its earlier
\* attempts have already done: ok is given when all of it is done, and a key is
\* only reported missing if it is.
AnswerIsTrue ==
    /\ answer = "ok" =>
          CASE request.kind = "write" -> inner[Key] = request.value
            [] request.kind = "delete" -> inner[Key] = None
            [] request.kind = "clear" -> \A k \in Keys : inner[k] = None
            [] request.kind = "copy" -> inner[Dest] = before[Key] /\ inner[Key] = before[Key]
            [] request.kind = "move" -> inner[Dest] = before[Key]
                                        /\ (Key # Dest => inner[Key] = None)
            [] OTHER -> TRUE
    /\ answer = "notFound" => inner[Key] = None

\* The value that is moved or copied is in one of its two places throughout,
\* wherever an attempt fails and even if the last one does.
ValueSurvives ==
    request.kind \in Transfers => before[Key] \in {inner[Key], inner[Dest]}

\* Nothing is asked of the inner storage after the signal has fired, not even
\* the deletion that would complete a move.
AbortStops ==
    [][aborted /\ pc' # pc => pc' = "done"
       \/ (pc = "sleep" /\ pc' = "begin")]_vars

=============================================================================
