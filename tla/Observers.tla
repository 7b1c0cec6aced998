----------------------------- MODULE Observers -----------------------------
(***************************************************************************)
(* Middleware that look at what passes and leave it as it is: Metrics and  *)
(* Tracing report one operation, Checksum compares its bytes with a hash   *)
(* that the caller expects, Expiry refuses what has expired, Debug logs.   *)
(* `hook` is one of them, in front of the rest of the pipeline (next) and  *)
(* of whoever reads or cancels the stream.                                 *)
(*                                                                         *)
(* A stream is two queues.  Chunks go from the source through the          *)
(* transform of the hook to `inner`, if it has one, and from there, or     *)
(* from the source, to `outer`, if the hook reads the stream itself.       *)
(***************************************************************************)
EXTENDS Integers, Sequences, SequencesExt

CONSTANTS
    Hooks,        \* records: name, plain, expected, required, onHash, expiresAt
    Contents,     \* sequences of chunks, which are sequences of bytes
    MaxChunkSize, \* of Checksum
    MaxTime,      \* bounds the clock
    None          \* no checksum is expected, or no time of expiry is set

Byte == 0 .. 255

IsHook(h) ==
    /\ h.name \in {"Metrics", "Tracing", "Checksum", "Expiry", "Debug"}
    /\ h.plain \in BOOLEAN /\ h.required \in BOOLEAN
    /\ h.onHash \in {"none", "returns", "throws"}

\* What the constants are.
Admitted ==
    /\ \A h \in Hooks : IsHook(h)
    /\ Contents \subseteq Seq(Seq(Byte))
    /\ MaxChunkSize \in Nat \ {0} /\ MaxTime \in Nat

VARIABLES
    hook,
    content, ends,     \* what the source gives, and how it ends: "close" or "fail"
    taken,             \* chunks that have left the source
    inner, innerEnd,   \* "open", "closed", "failed" or "cancelled"
    outer, outerEnd,
    inside,            \* next(): "before", "running", "ok" or "failed"
    given, consumer,   \* bytes that arrived; "reading", "done", "failed", "cancelled"
    now,
    hashed, told,      \* what the hash was computed of, and calls of onHash
    bytes, settled,    \* what was counted, and whether it was reported
    reports, summary, wiped

sourceVars == <<hook, content, ends>>
innerVars == <<taken, inner, innerEnd, hashed, told>>
outerVars == <<outer, outerEnd>>
clientVars == <<inside, given, consumer>>
reportVars == <<bytes, settled, reports, summary, wiped>>
vars == <<sourceVars, innerVars, outerVars, clientVars, now, reportVars>>

Observes == hook.name \in {"Metrics", "Tracing"}
Transforms == hook.name # "Tracing"

All == FlattenSeq(content)

----------------------------------------------------------------------------
(* Metrics and Tracing: the report *)

NoSummary == [success |-> 0, error |-> 0, bytes |-> 0]

\* Metrics.#observe
Observe(outcome, size) ==
    /\ reports' = Append(reports, [outcome |-> outcome, bytes |-> size])
    /\ summary' = [summary EXCEPT ![outcome] = @ + 1, !.bytes = @ + size]

\* Mutant: every outcome counts.
Settle_Again(outcome) == settled' = TRUE /\ Observe(outcome, bytes)

\* settle: the first outcome counts.
Settle(outcome) ==
    IF settled THEN UNCHANGED <<settled, reports, summary>>
    ELSE settled' = TRUE /\ Observe(outcome, bytes)

\* finish of Tracing, which ends its span.
Finish(success) ==
    IF settled THEN UNCHANGED <<settled, reports, summary>>
    ELSE settled' = TRUE /\ Observe(IF success THEN "success" ELSE "error", 0)

\* The end of what a hook has wrapped around next().
Measure(success) ==
    CASE hook.name = "Metrics" /\ hook.plain -> Settle(IF success THEN "success" ELSE "error")
      [] hook.name = "Tracing" /\ hook.plain -> Finish(success)
      [] hook.name = "Metrics" /\ ~hook.plain /\ ~success -> Settle("error")
      [] hook.name = "Tracing" /\ ~hook.plain /\ ~success -> Finish(FALSE)
      [] OTHER -> UNCHANGED <<settled, reports, summary>>

\* Metrics.reset
Reset ==
    /\ hook.name = "Metrics" /\ wiped = 0
    /\ wiped' = Len(reports)
    /\ reports' = <<>> /\ summary' = NoSummary
    /\ UNCHANGED <<sourceVars, innerVars, outerVars, clientVars, now, bytes, settled>>

----------------------------------------------------------------------------
(* Checksum *)

\* Mutant: onHash is called first.
Finalized_Told(hash) ==
    [fails |-> hook.expected \notin {None, hash}, told |-> hook.onHash # "none"]

\* finalize: what is expected must be the hash; only then onHash is called.
Finalized(hash) ==
    IF hook.expected \notin {None, hash} THEN [fails |-> TRUE, told |-> FALSE]
    ELSE [fails |-> hook.onHash = "throws", told |-> hook.onHash # "none"]

\* resolveConfig: there is none where nothing is expected and nobody is told.
LacksChecksum == hook.name = "Checksum" /\ hook.required /\ hook.expected = None
Checks == hook.name = "Checksum" /\ (hook.expected # None \/ hook.onHash # "none")

\* chunks: in pieces of at most MaxChunkSize.
Pieces(chunk) ==
    [i \in 1 .. (Len(chunk) + MaxChunkSize - 1) \div MaxChunkSize |->
        SubSeq(chunk, MaxChunkSize * (i - 1) + 1,
               IF MaxChunkSize * i < Len(chunk) THEN MaxChunkSize * i ELSE Len(chunk))]

\* What the hash is updated with, and what is passed on.
Hash(chunk) ==
    /\ hashed' = hashed \o FlattenSeq(Pieces(chunk))
    /\ inner' = Pieces(chunk)

----------------------------------------------------------------------------
(* Expiry *)

\* encode and encodeStream wrap, decode and decodeStream unwrap each chunk.
Envelope(chunk) == [expiresAt |-> hook.expiresAt, data |-> chunk]
IsExpired(envelope) == envelope.expiresAt # None /\ now >= envelope.expiresAt
Refuses(chunk) == hook.name = "Expiry" /\ IsExpired(Envelope(chunk))

\* Mutant: the chunk is left out and the stream goes on.
AfterRefusal_Skipped == "open"

\* throwExpired: the stream fails, rather than that the chunk is left out.
AfterRefusal == "failed"

Tick ==
    /\ hook.name = "Expiry" /\ now < MaxTime
    /\ now' = now + 1
    /\ UNCHANGED <<sourceVars, innerVars, outerVars, clientVars, reportVars>>

----------------------------------------------------------------------------
(* the operation *)

Init ==
    /\ hook \in Hooks
    /\ content \in Contents /\ ends \in {"close", "fail"}
    /\ hook.plain => Len(content) = 1 /\ ends = "close"
    /\ taken = 0 /\ inner = <<>> /\ outer = <<>>
    /\ innerEnd = "open" /\ outerEnd = "open"
    /\ inside = "before" /\ given = <<>> /\ consumer = "reading"
    /\ now = 0
    /\ hashed = <<>> /\ told = 0
    /\ bytes = 0 /\ settled = FALSE /\ reports = <<>> /\ summary = NoSummary /\ wiped = 0

\* encode, decode, encodeStream, decodeStream up to next(): Checksum wants its
\* checksum; a plain value is hashed, counted or refused as a whole.
Begin ==
    LET hashes == Checks /\ hook.plain /\ ~LacksChecksum
        refused == \/ LacksChecksum
                   \/ hashes /\ Finalized(All).fails
                   \/ hook.plain /\ Refuses(All)
    IN /\ inside = "before"
       /\ inside' = IF refused THEN "failed" ELSE "running"
       /\ consumer' = IF refused THEN "failed" ELSE consumer
       /\ hashed' = IF hashes THEN All ELSE hashed
       /\ told' = IF hashes /\ Finalized(All).told THEN 1 ELSE told
       /\ bytes' = IF hook.name = "Metrics" /\ hook.plain THEN Len(All) ELSE bytes
       /\ UNCHANGED <<sourceVars, taken, inner, innerEnd, outerVars, given, now, settled,
                      reports, summary, wiped>>

\* next() returns or throws.
NextEnds ==
    /\ inside = "running"
    /\ \/ /\ inside' = "ok" /\ Measure(TRUE)
          /\ IF hook.plain THEN given' = All /\ consumer' = "done"
             ELSE UNCHANGED <<given, consumer>>
       \/ /\ inside' = "failed" /\ Measure(FALSE)
          /\ consumer' = IF hook.plain THEN "failed" ELSE consumer
          /\ UNCHANGED given
    /\ UNCHANGED <<sourceVars, innerVars, outerVars, now, bytes, wiped>>

Streams == ~hook.plain /\ inside # "before" /\ ~LacksChecksum

\* The transform of the hook is given a chunk.
Transform ==
    LET chunk == content[taken + 1]
    IN /\ Streams /\ Transforms
       /\ innerEnd = "open" /\ inner = <<>> /\ taken < Len(content)
       /\ taken' = taken + 1
       /\ IF Checks THEN Hash(chunk)
          ELSE inner' = (IF Refuses(chunk) THEN <<>> ELSE <<chunk>>) /\ UNCHANGED hashed
       /\ innerEnd' = IF Refuses(chunk) THEN AfterRefusal ELSE innerEnd
       /\ bytes' = IF hook.name = "Metrics" THEN bytes + Len(chunk) ELSE bytes
       /\ UNCHANGED <<sourceVars, outerVars, clientVars, now, told, settled, reports, summary,
                      wiped>>

\* The source has ended: the flush of the transform, which need not wait for
\* the reader.  A flush that throws drops what is queued.
Flush ==
    LET fails == Checks /\ Finalized(hashed).fails
    IN /\ Streams /\ Transforms
       /\ innerEnd = "open" /\ taken = Len(content) /\ ends = "close"
       /\ innerEnd' = IF fails THEN "failed" ELSE "closed"
       /\ inner' = IF fails THEN <<>> ELSE inner
       /\ told' = IF Checks /\ Finalized(hashed).told THEN told + 1 ELSE told
       /\ IF hook.name = "Metrics" THEN Settle("success")
          ELSE UNCHANGED <<settled, reports, summary>>
       /\ UNCHANGED <<sourceVars, taken, hashed, outerVars, clientVars, now, bytes, wiped>>

\* The source has failed: the stream behind the transform fails at once.
SourceFails ==
    /\ Streams /\ Transforms
    /\ innerEnd = "open" /\ taken = Len(content) /\ ends = "fail"
    /\ innerEnd' = "failed" /\ inner' = <<>>
    /\ UNCHANGED <<sourceVars, taken, hashed, told, outerVars, clientVars, now, reportVars>>

\* pull of Metrics: from the transform.
PullMetrics ==
    /\ Streams /\ hook.name = "Metrics"
    /\ outerEnd = "open" /\ outer = <<>>
    /\ \/ /\ inner # <<>>
          /\ outer' = <<Head(inner)>> /\ inner' = Tail(inner)
          /\ UNCHANGED <<outerEnd, settled, reports, summary>>
       \/ /\ inner = <<>> /\ innerEnd = "closed"
          /\ outerEnd' = "closed"
          /\ UNCHANGED <<outer, inner, settled, reports, summary>>
       \/ /\ inner = <<>> /\ innerEnd = "failed"
          /\ outerEnd' = "failed" /\ Settle("error")
          /\ UNCHANGED <<outer, inner>>
    /\ UNCHANGED <<sourceVars, taken, innerEnd, hashed, told, clientVars, now, bytes, wiped>>

\* pull of Tracing: from the source.
PullTracing ==
    /\ Streams /\ hook.name = "Tracing"
    /\ outerEnd = "open" /\ outer = <<>>
    /\ IF taken < Len(content)
       THEN /\ outer' = <<content[taken + 1]>> /\ taken' = taken + 1
            /\ UNCHANGED <<outerEnd, settled, reports, summary>>
       ELSE /\ outerEnd' = IF ends = "close" THEN "closed" ELSE "failed"
            /\ Finish(ends = "close")
            /\ UNCHANGED <<outer, taken>>
    /\ UNCHANGED <<sourceVars, inner, innerEnd, hashed, told, clientVars, now, bytes, wiped>>

Queue == IF Observes THEN outer ELSE inner
End == IF Observes THEN outerEnd ELSE innerEnd

\* Whoever reads the stream takes a chunk, or learns how it ended.
Take ==
    /\ Streams /\ inside = "ok" /\ consumer = "reading"
    /\ IF Queue # <<>>
       THEN /\ given' = given \o Head(Queue)
            /\ IF Observes THEN outer' = Tail(outer) /\ UNCHANGED inner
               ELSE inner' = Tail(inner) /\ UNCHANGED outer
            /\ UNCHANGED consumer
       ELSE /\ End \in {"closed", "failed"}
            /\ consumer' = IF End = "closed" THEN "done" ELSE "failed"
            /\ UNCHANGED <<given, inner, outer>>
    /\ UNCHANGED <<sourceVars, taken, innerEnd, hashed, told, outerEnd, inside, now, reportVars>>

\* The reader, or the pipeline whose next() has failed, cancels the stream;
\* nobody is told if it has ended.
Cancel ==
    /\ Streams /\ inside \in {"ok", "failed"} /\ consumer = "reading"
    /\ consumer' = "cancelled"
    /\ IF End = "open" \/ Queue # <<>>
       THEN /\ inner' = <<>> /\ outer' = <<>>
            /\ innerEnd' = "cancelled" /\ outerEnd' = "cancelled"
            /\ CASE hook.name = "Metrics" -> Settle("error")
                 [] hook.name = "Tracing" -> Finish(TRUE)
                 [] OTHER -> UNCHANGED <<settled, reports, summary>>
       ELSE UNCHANGED <<inner, outer, innerEnd, outerEnd, settled, reports, summary>>
    /\ UNCHANGED <<sourceVars, taken, hashed, told, inside, given, now, bytes, wiped>>

Finished ==
    /\ inside = "failed" \/ consumer # "reading"
    /\ UNCHANGED vars

Next ==
    \/ Begin \/ NextEnds \/ Tick \/ Reset
    \/ Transform \/ Flush \/ SourceFails \/ PullMetrics \/ PullTracing
    \/ Take \/ Cancel \/ Finished

Spec == Init /\ [][Next]_vars

----------------------------------------------------------------------------
(* properties *)

TypeOK ==
    /\ hook \in Hooks /\ content \in Contents /\ ends \in {"close", "fail"}
    /\ taken \in 0 .. Len(content)
    /\ {innerEnd, outerEnd} \subseteq {"open", "closed", "failed", "cancelled"}
    /\ inside \in {"before", "running", "ok", "failed"}
    /\ consumer \in {"reading", "done", "failed", "cancelled"}
    /\ told \in 0 .. 1 /\ wiped \in 0 .. 1 /\ now \in 0 .. MaxTime

IsOver == inside = "failed" \/ consumer # "reading"

\* Metrics, Tracing: an operation is reported once, whichever of its ends come
\* together, and no later than its caller learns of the end.
ReportedOnce ==
    Observes => LET n == Len(reports) + wiped
                IN n <= 1 /\ (IsOver => n = 1)

\* Metrics, Tracing: success is reported of what went well, with all of its
\* bytes, and an error of what did not; a cancelled stream is an error for
\* Metrics and none for Tracing.  The summary adds up.
ReportsAreTrue ==
    /\ \A i \in DOMAIN reports :
          LET went == reports[i]
          IN IF went.outcome = "success"
             THEN /\ \/ taken = Len(content) /\ ends = "close"
                     \/ hook.plain /\ inside = "ok"
                     \/ hook.name = "Tracing" /\ consumer = "cancelled"
                  /\ hook.name = "Metrics" => went.bytes = Len(All)
             ELSE /\ \/ inside = "failed" \/ ends = "fail" \/ consumer = "cancelled"
                  /\ hook.name = "Metrics" => went.bytes >= Len(given)
    /\ summary.success + summary.error = Len(reports)
    /\ summary.bytes = FoldSeq(LAMBDA r, sum : sum + r.bytes, 0, reports)

\* Nothing is lost, added or reordered; a reader who sees the end of a stream
\* has had all of it: a failed, expired or corrupted one never ends as if it
\* were a shorter one.
StreamsArriveWhole ==
    /\ IsPrefix(given, All)
    /\ consumer = "done" => given = All /\ ends = "close"

\* Checksum: whoever reads to the end has read what was expected, and onHash
\* was told of it; it is told once, of all bytes, and of no others.
ChecksumHolds ==
    (hook.name = "Checksum") =>
        /\ consumer = "done" => /\ hook.expected \in {None, given}
                                /\ hook.required => hook.expected # None
                                /\ hook.onHash # "none" => told = 1
        /\ told = 1 => hashed = All /\ hook.expected \in {None, All}
=============================================================================
