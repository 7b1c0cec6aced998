----------------------------- MODULE MCPipeline -----------------------------
(***************************************************************************)
(* The pipelines for TLC: chains of middleware (Onion), the graph of       *)
(* several chains (PipelineGraph), how a builder registers them (Builder), *)
(* and the middleware that convert what passes (Codecs) or observe it      *)
(* (Observers).  A behaviour is about the one that `part` names.           *)
(***************************************************************************)
EXTENDS Onion, Sequences, FiniteSets

CONSTANTS
    Parts,                                            \* those to check
    Walks,                                            \* PipelineGraph
    Branches, Middlewares, Gates, Before,             \* Builder
    MaxCalls, MaxChain, MaxStorages,
    Kinds, Bytes, Values, Foreign, MinimumCapacity,   \* Codecs
    Hooks, Contents, MaxChunkSize, MaxTime, None      \* Observers

VARIABLES
    part,
    walk, frame, target, refused, input, output, branch, read, signalled, outcome,
    arrays, own, dests, promised, unbound, client, answer, made,
    kind, padding, source, given, ours, carry, wire, text, buffer, out, phase,
    hook, content, ends, taken, inner, innerEnd, outer, outerEnd, inside, arrived,
    consumer, now, hashed, told, bytes, settled, reports, summary, wiped

----------------------------------------------------------------------------
(* Onion *)

Setting(operation, hasty, throwers) ==
    [operation |-> operation, hasty |-> hasty, throwers |-> throwers]

\* Middleware of use that await, those of use that do not, and those of
\* encode and decode that do not; the last three throw nothing of their own.
Tame ==
    {Setting("use", {}, Chain), Setting("use", Chain, {}),
     Setting("encode", Chain, {}), Setting("decode", Chain, {})}

\* Middleware of decode that throw.
Wild == {Setting("decode", {}, Chain)}

----------------------------------------------------------------------------
(* PipelineGraph *)

Walk(operation, paths, missing, may, throwOnDenied) ==
    [operation |-> operation, paths |-> paths, gates |-> {"G"}, missing |-> missing,
     may |-> [x \in {"A", "B", "C", "G"} |-> IF x = "G" THEN {} ELSE may],
     throwOnDenied |-> throwOnDenied, writes |-> {"failed", "denied"}]

Careless == {"throw", "swallow", "forget", "repeat"}

Straight == << <<"A", "B", "C">> >>
\* Two chains that share their beginning, one of them for two leaves.
Forked == << <<"A", "B">>, <<"A", "C">>, <<>>, <<"A", "C">> >>
\* Leaves that may and that may not be repaired, apart and behind one another.
Gated == << <<"A", "G">>, <<"A", "B">>, <<"G", "B">>, <<>> >>
Deep == << <<"A", "B">>, <<"A", "G", "B">>, <<"A", "G">>, <<>> >>
\* A node behind a node: the inner body may be gone before the outer one.
Hurried == << <<"G", "A", "B">>, <<"G", "A">> >>

Every ==
    {Walk(op, Forked, {}, Careless, FALSE) : op \in {"encode", "streamSet"}}
    \cup {Walk("encode", Forked, {}, {"throw", "hurry"}, FALSE)}
    \cup {Walk("decodeStream", Straight, {}, Careless, FALSE)}
    \cup {Walk(op, Hurried, {1, 2}, {"throw", "swallow", "hurry", "forget"}, FALSE) :
             op \in {"repair", "streamRepair"}}
    \cup {Walk(op, paths, missing, Careless \cup {"deny"}, throw) :
             op \in {"repair", "streamRepair"}, paths \in {Gated, Deep},
             missing \in {{1, 2}, {2, 3}, {1, 2, 3}}, throw \in BOOLEAN}

G == INSTANCE PipelineGraph WITH setting <- walk, aborted <- signalled, Settings <- Walks

ASSUME WalksAssumption == \A w \in Walks : G!IsSetting(w)

----------------------------------------------------------------------------
(* Builder *)

B == INSTANCE Builder WITH calls <- made

----------------------------------------------------------------------------
(* Codecs *)

C == INSTANCE Codecs

Prefixes(s) == {SubSeq(s, 1, n) : n \in 0 .. Len(s)}
Texts(S, n) == UNION {[1 .. m -> S] : m \in 0 .. n}

\* All that is written, up to some length; the second and the third byte need
\* the digits in which the alphabets differ.
SomeBytes == Prefixes(<<251, 3, 255, 128, 64>>)
SomeValues == Prefixes(<<2, 1, 3>>)

\* Digits, paddings (100) and what is neither (99); two values, as lines that end
\* in every way: with a line feed (10), a carriage return (13) too, or nothing; and
\* a line, a frame, a length or an item that is broken behind a value that is not.
Others ==
    [kind : {"Base64", "Base64Url"}, text : Texts({0, 62, 100}, 5), values : {<<>>}]
    \cup [kind : {"Hex"}, text : Texts({0, 99}, 3), values : {<<>>}]
    \cup [kind : {"Json", "Superjson"}, values : {<<1, 2>>},
           text : {<<34, 201, 151, 34, 13, 10, 10, 13, 10, 34, 202, 152, 34, 13>>}]
    \cup [kind : {"Json", "Superjson"}, values : {<<1>>},
           text : {<<34, 201, 151, 34, 10, 99, 10, 34, 202, 152, 34, 10>>}]
    \cup [kind : {"V8Serde"}, values : {<<1>>},
           text : {<<0, 0, 0, 1, 1>> \o broken :
                      broken \in {<<0, 0, 0, 2, 2, 1>>, <<0, 0, 0, 0, 7>>, <<1, 0, 0, 0, 5>>}}]
    \cup [kind : {"Cbor"}, values : {<<1>>},
           text : {<<1, 1, 255, 1, 2>>, <<1, 1, 254, 3>>}]

----------------------------------------------------------------------------
(* Observers *)

O == INSTANCE Observers WITH given <- arrived

ASSUME HooksAssumption == O!Admitted

Hook(name, plain, expected, required, onHash, expiresAt) ==
    [name |-> name, plain |-> plain, expected |-> expected, required |-> required,
     onHash |-> onHash, expiresAt |-> expiresAt]

EveryHook ==
    {Hook(name, plain, None, FALSE, "none", None) :
        name \in {"Metrics", "Tracing", "Debug"}, plain \in BOOLEAN}
    \cup {Hook("Checksum", plain, expected, required, onHash, None) :
             plain \in BOOLEAN, expected \in {None, <<1, 2, 3, 4>>}, required \in BOOLEAN,
             onHash \in {"none", "returns", "throws"}}
    \cup {Hook("Expiry", plain, None, FALSE, "none", time) :
             plain \in BOOLEAN, time \in {None, 1, 2}}

\* Some have the checksum that is expected, in different chunks.
SomeContents ==
    {<<>>, << <<1>> >>, << <<1, 2, 3>>, <<4>> >>, << <<1, 2, 3, 4>> >>,
     << <<1>>, <<2, 3>>, <<9>> >>}

----------------------------------------------------------------------------
(* the five of them *)

graphVars == <<walk, frame, target, refused, input, output, branch, read, signalled, outcome>>
builderVars == <<arrays, own, dests, promised, unbound, client, answer, made>>
codecVars == <<kind, padding, source, given, ours, carry, wire, text, buffer, out, phase>>
hookVars == <<hook, content, ends, taken, inner, innerEnd, outer, outerEnd, inside, arrived,
              consumer, now, hashed, told, bytes, settled, reports, summary, wiped>>
allVars == <<part, vars, graphVars, builderVars, codecVars, hookVars>>

\* A part that the behaviour is not about starts in one fixed way.
PipelineInit ==
    /\ part \in Parts
    /\ Init /\ (part # "Onion" => setting = CHOOSE s \in Settings : TRUE)
    /\ G!Init /\ (part # "PipelineGraph" => walk = CHOOSE w \in Walks : TRUE)
    /\ B!Init
    /\ C!Init /\ (part # "Codecs" => <<kind, ours, given>> = <<"Hex", TRUE, <<>> >>)
    /\ O!Init /\ (part # "Observers" => /\ hook = Hook("Debug", TRUE, None, FALSE, "none", None)
                                       /\ content = << <<1>> >>)

OnionStep ==
    part = "Onion" /\ Next /\ UNCHANGED <<part, graphVars, builderVars, codecVars, hookVars>>
GraphStep ==
    part = "PipelineGraph" /\ G!Next /\ UNCHANGED <<part, vars, builderVars, codecVars, hookVars>>
BuilderStep ==
    part = "Builder" /\ B!Next /\ UNCHANGED <<part, vars, graphVars, codecVars, hookVars>>
CodecStep ==
    part = "Codecs" /\ C!Next /\ UNCHANGED <<part, vars, graphVars, builderVars, hookVars>>
HookStep ==
    part = "Observers" /\ O!Next /\ UNCHANGED <<part, vars, graphVars, builderVars, codecVars>>

PipelineNext == OnionStep \/ GraphStep \/ BuilderStep \/ CodecStep \/ HookStep

PipelineSpec == PipelineInit /\ [][PipelineNext]_allVars

----------------------------------------------------------------------------
(* properties *)

\* The states of the other parts are well formed.
PartsTypeOK == G!TypeOK /\ B!TypeOK /\ C!TypeOK /\ O!TypeOK

\* PipelineGraph: every leaf is handed what the middleware on its path have
\* made of the data and of the key, and no leaf is left out unnoticed.
EveryLeafIsServed == G!TargetsAreWhole /\ G!NobodyIsSkipped
\* PipelineGraph: a broken rule of next() fails the walk, nothing runs or writes
\* behind an operation that has ended, and a repair fails the read for a denial
\* that the caller asked for, and for nothing else that the middleware throw.
WalksEndCleanly == G!ViolationSurfaces /\ G!NothingRunsAfterwards /\ G!DenialsSurface
\* PipelineGraph: every half of a split stream is read or cancelled.
NoStreamIsForgotten == G!NoStreamIsForgotten

\* Builder: a storage keeps the pipeline that it was registered with, and is
\* reached through it in the graph of the client, under the key it maps.
PipelinesAreKept ==
    B!PipelinesAreKept /\ B!GraphIsFaithful /\ B!EntriesAreOrdered /\ B!KeysFollowPaths

\* Codecs: chunks make no difference.  encodeStream writes the same bytes however
\* its source is cut; decodeStream refuses what it would refuse in one piece, and
\* nothing else, and loses nothing else.  What is read is what was written, or, if
\* the bytes have lost their end, a beginning of it: bytes that end between two
\* groups of digits, pairs, frames, items or lines are read as fewer values, and
\* only those that end inside of one, or are broken, are refused.
ConversionsAreFaithful ==
    C!EncodingIgnoresChunks /\ C!DecodingIgnoresChunks /\ C!NothingIsMadeUp

\* Metrics, Tracing: an operation is reported once, as it ended.
ReportsAreTrue == O!ReportedOnce /\ O!ReportsAreTrue

\* Checksum, Expiry and the observers: a stream that is read to its end is
\* whole, has the checksum that was expected, and was not refused.
StreamsArriveWhole == O!StreamsArriveWhole /\ O!ChecksumHolds
=============================================================================
