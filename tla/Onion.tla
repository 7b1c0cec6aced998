------------------------------- MODULE Onion -------------------------------
(***************************************************************************)
(* The onion of middleware: use, encode and decode of a chain of           *)
(* middleware, each of which runs the rest of the chain by calling next(). *)
(*                                                                         *)
(* A middleware's body is code of somebody else.  It may forget next(),    *)
(* call it twice, not await it, forget its destination, swallow what       *)
(* next() throws, or throw.  The client watches these rules at every       *)
(* boundary and has to fail the operation when one of them was broken.     *)
(*                                                                         *)
(* The chain is 1 .. Depth, outermost first; frame i is the run of         *)
(* middleware i together with its boundary.  down[i] is how the next() of  *)
(* frame i settled, that is, how frame i + 1 ended; down[0] is how the     *)
(* operation ended.                                                        *)
(***************************************************************************)
EXTENDS Naturals

CONSTANTS
    Depth,    \* the length of the chain
    Settings  \* the operations and the kinds of middleware

Chain == 1 .. Depth

ASSUME DepthAssumption == Depth \in Nat \ {0}

ASSUME SettingsAssumption ==
    Settings \subseteq [operation : {"use", "encode", "decode"},
                        hasty : SUBSET Chain, throwers : SUBSET Chain]

VARIABLES
    body,      \* body[i]: the body of middleware i is idle, running or done
    calls,     \* calls[i]: how often it has called next()
    produced,  \* produced[i]: it has set its destination
    violated,  \* violated[i]: the tracker of frame i holds a violation
    down,      \* down[i]: how the next() of frame i settled
    aborted,   \* the signal of the operation has fired
    setting    \* which of the settings this is; it never changes

vars == <<body, calls, produced, violated, down, aborted, setting>>

Operation == setting.operation

\* The middleware that may end before the next() they called, and those that
\* may throw errors of their own.
Hasty == setting.hasty
Throwers == setting.throwers

\* use has no destination to set.
Transforms == Operation # "use"

Init ==
    /\ body = [i \in Chain |-> IF i = 1 THEN "running" ELSE "idle"]
    /\ calls = [i \in Chain |-> 0]
    /\ produced = [i \in Chain |-> FALSE]
    /\ violated = [i \in Chain |-> FALSE]
    /\ down = [i \in 0 .. Depth |-> "none"]
    /\ aborted = FALSE
    /\ setting \in Settings

----------------------------------------------------------------------------
(* what a body does *)

SetDestination(i) ==
    /\ Transforms
    /\ body[i] = "running"
    /\ calls[i] = 0
    /\ ~produced[i]
    /\ produced' = [produced EXCEPT ![i] = TRUE]
    /\ UNCHANGED <<body, calls, violated, down, aborted, setting>>

FirstCall(i) ==
    /\ body[i] = "running"
    /\ calls[i] = 0
    /\ calls' = [calls EXCEPT ![i] = 1]
    /\ UNCHANGED <<produced, aborted, setting>>

\* Mutant: the destination is not asked for.
NextRuns_Unproduced(i) ==
    /\ FirstCall(i)
    /\ Operation = "encode" /\ i < Depth => ~aborted
    /\ body' = [j \in Chain |-> IF j = i + 1 THEN "running" ELSE body[j]]
    /\ UNCHANGED <<violated, down>>

\* The rest of the chain begins at once.
NextRuns(i) ==
    /\ FirstCall(i)
    /\ Transforms => produced[i]
    /\ Operation = "encode" /\ i < Depth => ~aborted
    /\ body' = [j \in Chain |-> IF j = i + 1 THEN "running" ELSE body[j]]
    /\ UNCHANGED <<violated, down>>

\* Without a destination the rest does not run; the promise is rejected, and
\* nothing settles.
NextWithoutDestination(i) ==
    /\ FirstCall(i)
    /\ Transforms /\ ~produced[i]
    /\ violated' = [violated EXCEPT ![i] = TRUE]
    /\ UNCHANGED <<body, down>>

\* encode maps the key first, which may throw, and each node looks at the
\* signal before it runs.
NextFails(i) ==
    /\ FirstCall(i)
    /\ Operation = "encode"
    /\ produced[i]
    /\ \/ down' = [down EXCEPT ![i] = "error"]
       \/ aborted /\ i < Depth /\ down' = [down EXCEPT ![i] = "aborted"]
    /\ UNCHANGED <<body, violated>>

\* The promise of the second call is rejected; the body may swallow that.
CallNextAgain(i) ==
    /\ body[i] = "running"
    /\ calls[i] = 1
    /\ calls' = [calls EXCEPT ![i] = 2]
    /\ violated' = [violated EXCEPT ![i] = TRUE]
    /\ UNCHANGED <<body, produced, down, aborted, setting>>

\* The end of the chain.
Bottom ==
    /\ calls[Depth] > 0
    /\ down[Depth] = "none"
    /\ Transforms => produced[Depth]
    /\ down' = [down EXCEPT ![Depth] = "ok"]
    /\ UNCHANGED <<body, calls, produced, violated, aborted, setting>>

----------------------------------------------------------------------------
(* the boundary: how frame i ends *)

\* Mutant: the boundary outside does not look at what the next() of its body
\* threw.
Leave_Forgetful(i, how, broken) ==
    /\ body' = [body EXCEPT ![i] = "done"]
    /\ down' = [down EXCEPT ![i - 1] = how]
    /\ violated' = [violated EXCEPT ![i] = broken]
    /\ UNCHANGED <<calls, produced, aborted, setting>>

\* A contract error is recorded by the boundary that it passes through.
Leave(i, how, broken) ==
    /\ body' = [body EXCEPT ![i] = "done"]
    /\ down' = [down EXCEPT ![i - 1] = how]
    /\ violated' = [j \in Chain |->
          CASE j = i -> broken
            [] j = i - 1 -> violated[j] \/ how = "contract"
            [] OTHER -> violated[j]]
    /\ UNCHANGED <<calls, produced, aborted, setting>>

\* A careful body ends only after the next() that it called has settled.
MayEnd(i) ==
    /\ body[i] = "running"
    /\ i \in Hasty \/ calls[i] = 0 \/ down[i] # "none" \/ (Transforms /\ ~produced[i])

\* Mutant: nobody asks whether next() has settled.
Returns_Unsettled(i) ==
    LET broken == violated[i] \/ calls[i] # 1
    IN  /\ MayEnd(i)
        /\ IF aborted THEN Leave(i, "aborted", violated[i])
           ELSE Leave(i, IF broken THEN "contract" ELSE "ok", broken)

\* Mutant: nobody asks whether next() was called.
Returns_Uncalled(i) ==
    LET broken == violated[i] \/ (calls[i] # 0 /\ down[i] = "none")
    IN  /\ MayEnd(i)
        /\ IF aborted THEN Leave(i, "aborted", violated[i])
           ELSE Leave(i, IF broken THEN "contract" ELSE "ok", broken)

\* The body returns, having swallowed whatever next() threw.
Returns(i) ==
    LET broken == violated[i] \/ calls[i] # 1 \/ down[i] = "none"
    IN  /\ MayEnd(i)
        /\ IF aborted THEN Leave(i, "aborted", violated[i])
           ELSE Leave(i, IF broken THEN "contract" ELSE "ok", broken)

\* What a body can throw: an error of its own, what next() threw, the
\* violation that next() reported to it, the reason of the signal.
Reasons(i) ==
    {"error" : j \in Throwers \cap {i}}
    \cup ({down[i]} \ {"none", "ok"})
    \cup {"contract" : j \in {j \in {i} : violated[j]}}
    \cup {"aborted" : j \in {j \in {i} : aborted}}

\* Mutant: the boundary of use lets the body's own error pass.
Throws_Unguarded(i) ==
    /\ MayEnd(i)
    /\ \E reason \in Reasons(i) : Leave(i, reason, violated[i])

\* The boundary of use catches what the body throws and throws the recorded
\* violation instead; the boundaries of encode and decode do not catch.
Throws(i) ==
    /\ MayEnd(i)
    /\ \E reason \in Reasons(i) :
          LET broken == violated[i] \/ reason = "contract"
          IN  IF Operation # "use" \/ reason = "aborted"
              THEN Leave(i, reason, violated[i])
              ELSE Leave(i, IF broken THEN "contract" ELSE reason, broken)

Abort ==
    /\ ~aborted
    /\ down[0] = "none"
    /\ aborted' = TRUE
    /\ UNCHANGED <<body, calls, produced, violated, down, setting>>

Quiet ==
    /\ \A i \in Chain : body[i] # "running"
    /\ calls[Depth] > 0 /\ (Transforms => produced[Depth]) => down[Depth] # "none"
    /\ UNCHANGED vars

Next ==
    \/ \E i \in Chain :
          \/ SetDestination(i) \/ NextRuns(i) \/ NextWithoutDestination(i)
          \/ NextFails(i) \/ CallNextAgain(i) \/ Returns(i) \/ Throws(i)
    \/ Bottom
    \/ Abort
    \/ Quiet

Spec == Init /\ [][Next]_vars

----------------------------------------------------------------------------
(* properties *)

Endings == {"ok", "error", "contract", "aborted"}

\* The values of the variables.
Types ==
    /\ body \in [Chain -> {"idle", "running", "done"}]
    /\ calls \in [Chain -> 0 .. 2]
    /\ produced \in [Chain -> BOOLEAN]
    /\ violated \in [Chain -> BOOLEAN]
    /\ down \in [0 .. Depth -> {"none"} \cup Endings]
    /\ aborted \in BOOLEAN
    /\ setting \in Settings

\* The state is well formed, and a body runs only after the body outside it has
\* called next() with its destination in place.
TypeOK ==
    /\ Types
    /\ \A i \in Chain : i < Depth /\ body[i + 1] # "idle" =>
          calls[i] > 0 /\ (Transforms => produced[i])

\* A broken rule fails the operation, whatever the outer middleware swallow
\* (_pipeline-graph.helpers.ts, MiddlewareContractTracker: "a violation has to
\* fail the whole operation even if an outer middleware swallows the rejection
\* of the inner one").  encode has errors of its own that replace it.
ViolationSurfaces ==
    down[0] = "ok" /\ Operation # "encode" => \A i \in Chain : ~violated[i]

\* When use succeeds, so that the storages are called, no middleware is still
\* running (UniKvs.#use: "when a rule was broken, fail without executing the
\* operation"; "use completes before the storage I/O").
NothingRunsAfterwards == down[0] = "ok" => \A i \in Chain : body[i] # "running"

\* An operation succeeds without one of its middleware only if some middleware
\* swallowed a failure.
NobodyIsSkipped ==
    down[0] = "ok" /\ (\A i \in Chain : down[i] # "error") =>
        \A i \in Chain : body[i] = "done" /\ calls[i] = 1
=============================================================================
