------------------------------- MODULE Codecs -------------------------------
(***************************************************************************)
(* The middleware that convert values to bytes and back: base64, base64url *)
(* and hex, which write digits; V8Serde and Cbor, which write one frame or *)
(* item per value; Json and Superjson, which write one line per value; and *)
(* Zstd and Brotli of Bun, which gather a whole stream.                    *)
(*                                                                         *)
(* encodeStream converts chunks of `source`, cut anywhere, to bytes, which *)
(* are stored.  decodeStream then reads the bytes in chunks that are cut   *)
(* anywhere else, or bytes that have lost their end, or that somebody else *)
(* wrote.  A byte or a character is a number; a value that the serializing *)
(* codecs write is one as well.                                            *)
(***************************************************************************)
EXTENDS Integers, Sequences, SequencesExt, FiniteSetsExt

CONSTANTS
    Kinds,          \* the codecs to check
    Bytes, Values,  \* what is written: sequences of bytes, and of values
    Foreign,        \* texts of others: records of kind, text, and the values in it,
                    \* those in front of what cannot be read
    MinimumCapacity \* of the byte queue, 16 in the code

VARIABLES
    kind, padding,  \* the codec, and an option of base64
    source, given,  \* what is still to be written, and all of it
    ours,           \* whether the codec has written it
    carry,          \* what the encoder holds back
    wire, text,     \* the bytes to be read, and all that were stored
    buffer,         \* what the decoder holds back
    out,            \* what the reader has been given
    phase           \* "writing", "stored", "reading", "done" or "failed"

vars == <<kind, padding, source, given, ours, carry, wire, text, buffer, out, phase>>

Radix == {"Base64", "Base64Url"}
Framed == {"V8Serde", "Cbor"}
Lines == {"Json", "Superjson"}
Gathering == {"ZstdBun", "BrotliBun"}

Failure == [fails |-> TRUE, out |-> <<>>]
Success(values) == [fails |-> FALSE, out |-> values]

\* The first of the sequence that fill whole groups of n, and the others.
Whole(s, n) == SubSeq(s, 1, Len(s) - (Len(s) % n))
Rest(s, n) == SubSeq(s, Len(s) - (Len(s) % n) + 1, Len(s))

----------------------------------------------------------------------------
(* base64 and base64url: the digits of the two are 0 to 61 and two of      *)
(* their own each                                                          *)

Pad == 100

Alphabet == (0 .. 61) \cup IF kind = "Base64" THEN {62, 63} ELSE {72, 73}

Digit(n) == IF n > 61 /\ kind = "Base64Url" THEN n + 10 ELSE n
Value(char) == IF char > 63 THEN char - 10 ELSE char

\* Of one to three bytes: a digit more than there are bytes.
GroupText(bytes) ==
    LET n == Len(bytes)
        at(i) == IF i <= n THEN bytes[i] ELSE 0
        triple == at(1) * 65536 + at(2) * 256 + at(3)
        digits == <<triple \div 262144, triple \div 4096, triple \div 64, triple>>
    IN [i \in 1 .. n + 1 |-> Digit(digits[i] % 64)]
       \o IF padding THEN [i \in 1 .. 3 - n |-> Pad] ELSE <<>>

Groups(s, n) ==
    [g \in 1 .. (Len(s) + n - 1) \div n |->
        SubSeq(s, n * (g - 1) + 1, IF n * g < Len(s) THEN n * g ELSE Len(s))]

EncodeText(bytes) ==
    LET groups == Groups(bytes, 3)
    IN FlattenSeq([g \in DOMAIN groups |-> GroupText(groups[g])])

\* Of two to four digits: a byte less than there are digits.
GroupBytes(digits) ==
    LET n == Len(digits)
        at(i) == IF i <= n THEN Value(digits[i]) ELSE 0
        quad == at(1) * 262144 + at(2) * 4096 + at(3) * 64 + at(4)
        bytes == <<quad \div 65536, quad \div 256, quad>>
    IN [i \in 1 .. n - 1 |-> bytes[i] % 256]

DecodeInto(digits) ==
    LET groups == Groups(digits, 4)
    IN FlattenSeq([g \in DOMAIN groups |-> GroupBytes(groups[g])])

Includes(s, char) == \E i \in DOMAIN s : s[i] = char
FirstPad(s) == Min({i \in DOMAIN s : s[i] = Pad} \cup {Len(s) + 1})

Unpadded(s) == ToSet(s) \subseteq Alphabet
\* Digits, and one or two paddings at the end.
Padded(s) ==
    /\ Len(s) - FirstPad(s) \in {0, 1}
    /\ \A i \in DOMAIN s : IF i < FirstPad(s) THEN s[i] \in Alphabet ELSE s[i] = Pad

DecodeChecked(s) ==
    IF Includes(s, Pad)
    THEN IF ~Padded(s) \/ Len(s) % 4 # 0 THEN Failure
         ELSE Success(DecodeInto(SubSeq(s, 1, FirstPad(s) - 1)))
    ELSE IF ~Unpadded(s) \/ Len(s) % 4 = 1 THEN Failure
         ELSE Success(DecodeInto(s))

\* Mutant: nothing is held back.
RadixEncode_EachChunk(chunk) == [carry |-> <<>>, text |-> EncodeText(carry \o chunk)]

\* encodeStream holds back what fills no group of three.
RadixEncode(chunk) ==
    LET combined == carry \o chunk
    IN [carry |-> Rest(combined, 3), text |-> EncodeText(Whole(combined, 3))]

\* decodeStream holds back what fills no group of four, and from the first
\* padding on everything, for its last check.
RadixDecode(chunk) ==
    LET combined == buffer.carry \o chunk
        aligned == Len(Whole(SubSeq(combined, 1, FirstPad(combined) - 1), 4))
    IN IF buffer.seenPadding
       THEN [buffer |-> [buffer EXCEPT !.carry = combined],
             result |-> IF Padded(combined) THEN Success(<<>>) ELSE Failure]
       ELSE IF ~Unpadded(combined) /\ ~Padded(combined)
       THEN [buffer |-> buffer, result |-> Failure]
       ELSE [buffer |-> [carry |-> SubSeq(combined, aligned + 1, Len(combined)),
                         seenPadding |-> Includes(combined, Pad)],
             result |-> Success(DecodeInto(SubSeq(combined, 1, aligned)))]

\* Mutant: what is left at the end is dropped.
RadixRest_Loose == Success(<<>>)

RadixRest == IF buffer.carry = <<>> THEN Success(<<>>) ELSE DecodeChecked(buffer.carry)

----------------------------------------------------------------------------
(* hex *)

HexText(bytes) ==
    FlattenSeq([i \in DOMAIN bytes |-> <<bytes[i] \div 16, bytes[i] % 16>>])

HexToBytesStrict(digits) ==
    IF \E i \in DOMAIN digits : digits[i] \notin 0 .. 15 THEN Failure
    ELSE Success([i \in 1 .. Len(digits) \div 2 |-> digits[2 * i - 1] * 16 + digits[2 * i]])

\* decode; decodeStream holds back one digit of a pair.
HexDecodeAll(digits) == IF Len(digits) % 2 = 1 THEN Failure ELSE HexToBytesStrict(digits)

HexDecode(chunk) ==
    LET combined == buffer.carry \o chunk
    IN [buffer |-> [carry |-> Rest(combined, 2)],
        result |-> HexToBytesStrict(Whole(combined, 2))]

\* Mutant: a digit without its second one is dropped at the end.
HexRest_Lenient == Success(<<>>)

HexRest == IF buffer.carry = <<>> THEN Success(<<>>) ELSE Failure

----------------------------------------------------------------------------
(* the byte queue of V8Serde and Cbor: an array that is used from `read`   *)
(* to `write`                                                              *)

EmptyQueue == [bytes |-> <<>>, read |-> 0, write |-> 0]

Length(queue) == queue.write - queue.read
View(queue) == SubSeq(queue.bytes, queue.read + 1, queue.write)

\* Mutant: the bytes are not moved to the front.
Reserve_InPlace(queue, required) ==
    IF required <= Len(queue.bytes) THEN queue
    ELSE [queue EXCEPT !.bytes =
            [i \in 1 .. Max({required, 2 * Len(@), MinimumCapacity}) |->
                IF i <= Length(queue) THEN @[queue.read + i] ELSE 0]]

\* A larger array where the chunk does not fit, into which the bytes move.
Reserve(queue, required) ==
    IF required <= Len(queue.bytes) THEN queue
    ELSE LET capacity == Max({required, 2 * Len(queue.bytes), MinimumCapacity})
         IN [bytes |-> [i \in 1 .. capacity |->
                           IF i <= Length(queue) THEN queue.bytes[queue.read + i] ELSE 0],
             read |-> 0, write |-> Length(queue)]

Enqueue(queue, chunk) ==
    LET q == Reserve(queue, queue.write + Len(chunk))
    IN [q EXCEPT !.bytes = [i \in DOMAIN @ |-> IF i \in q.write + 1 .. q.write + Len(chunk)
                                               THEN chunk[i - q.write] ELSE @[i]],
                 !.write = @ + Len(chunk)]

Consume(queue, n) ==
    IF queue.read + n = queue.write THEN [queue EXCEPT !.read = 0, !.write = 0]
    ELSE [queue EXCEPT !.read = @ + n]

----------------------------------------------------------------------------
(* V8Serde and Cbor *)

\* What the serializer makes of a value, and the value it makes of that.
Payload(value) == [i \in 1 .. value |-> value]
IsPayload(bytes) == bytes # <<>> /\ bytes = Payload(bytes[1])

\* encodeFrame puts the length in four bytes in front.
HeaderSize == 4
Frame(value) == <<0, 0, 0, Len(Payload(value))>> \o Payload(value)
ReadFrameLength(view) == view[1] * 16777216 + view[2] * 65536 + view[3] * 256 + view[4]

\* One turn of the loop of drain: the next frame, if it is there as a whole.
NextFrame(drained) ==
    LET queue == drained.buffer
        view == View(queue)
        size == HeaderSize + ReadFrameLength(view)
        frame == SubSeq(view, HeaderSize + 1, size)
    IN IF drained.result.fails \/ Length(queue) < HeaderSize \/ Length(queue) < size THEN drained
       ELSE IF ~IsPayload(frame) THEN [drained EXCEPT !.result.fails = TRUE]
       ELSE [buffer |-> Consume(queue, size),
             result |-> Success(Append(drained.result.out, frame[1]))]

\* drain: there are fewer frames than bytes.
DrainFrames(queue) ==
    FoldLeft(LAMBDA drained, byte : NextFrame(drained),
             [buffer |-> queue, result |-> Success(<<>>)], View(queue))

FrameRest == IF Length(buffer) = 0 THEN Success(<<>>) ELSE Failure

\* An item of CBOR says in its first byte how long it is.
Item(value) == <<Len(Payload(value))>> \o Payload(value)

\* No item begins with the first of these; one that begins with the second is a
\* regular expression that does not parse, a SyntaxError.
Reserved == 255
Malformed == 254

\* decodeMultiple: the items in front of the first that is not there as a whole
\* or is broken, where they end, and how the decoder of the library reports that.
DecodeMultiple(view) ==
    LET after(position) == position + 1 + view[position + 1]
        from[position \in 0 .. Len(view)] ==
            CASE position = Len(view) ->
                    [values |-> <<>>, position |-> position, error |-> "none"]
              [] position < Len(view) /\ view[position + 1] = Reserved ->
                    [values |-> <<>>, position |-> position, error |-> "definite"]
              [] position < Len(view) /\ view[position + 1] # Reserved
                 /\ (view[position + 1] = Malformed \/ after(position) > Len(view)) ->
                    [values |-> <<>>, position |-> position, error |-> "incomplete"]
              [] OTHER ->
                    [from[after(position)] EXCEPT !.values = <<view[position + 2]>> \o @]
    IN from[0]

\* drain: the items are consumed, and the beginning of another one stays, or what
\* may be one, until nothing follows it.  Any other error is thrown at once, and
\* the values that were decoded with it are dropped.
DrainItems(queue, isFinal) ==
    LET decoded == DecodeMultiple(View(queue))
    IN CASE Length(queue) = 0 -> [buffer |-> queue, result |-> Success(<<>>)]
         [] Length(queue) > 0 /\ ~isFinal /\ decoded.error = "definite" ->
               [buffer |-> queue, result |-> Failure]
         [] OTHER ->
               [buffer |-> Consume(queue, decoded.position),
                result |-> [fails |-> isFinal /\ decoded.error # "none", out |-> decoded.values]]

FramedDecode(chunk) ==
    IF kind = "V8Serde" THEN DrainFrames(Enqueue(buffer, chunk))
    ELSE DrainItems(Enqueue(buffer, chunk), FALSE)

----------------------------------------------------------------------------
(* Json and Superjson: one line for a value.  A value is quoted, and has a *)
(* character of two bytes.                                                 *)

Quote == 34
LF == 10
CR == 13
IsLead(byte) == byte >= 200

Stringify(value) == <<Quote, 200 + value, 150 + value, Quote>>
IsJson(line) == Len(line) = 4 /\ IsLead(line[2]) /\ line = Stringify(line[2] - 200)

\* parseLine: without a carriage return at the end; an empty line is nothing.
LineOf(line) == IF line # <<>> /\ Last(line) = CR THEN Front(line) ELSE line

ParseLines(lines) ==
    LET texts == SelectSeq([i \in DOMAIN lines |-> LineOf(lines[i])], LAMBDA l : l # <<>>)
        good == Min({i \in DOMAIN texts : ~IsJson(texts[i])} \cup {Len(texts) + 1}) - 1
    IN [fails |-> good < Len(texts), out |-> [i \in 1 .. good |-> texts[i][2] - 200]]

\* The decoder of UTF-8 holds back the first byte of a character, the loop
\* over the lines what follows the last line feed.
LineDecode(chunk) ==
    LET bytes == buffer.pending \o chunk
        half == bytes # <<>> /\ IsLead(Last(bytes))
        line == buffer.line \o IF half THEN Front(bytes) ELSE bytes
        ends == SetToSortSeq({i \in DOMAIN line : line[i] = LF}, LAMBDA i, j : i < j)
        start(k) == IF k = 1 THEN 1 ELSE ends[k - 1] + 1
    IN [buffer |-> [pending |-> IF half THEN <<Last(bytes)>> ELSE <<>>,
                    line |-> SubSeq(line, start(Len(ends) + 1), Len(line))],
        result |-> ParseLines([k \in DOMAIN ends |-> SubSeq(line, start(k), ends[k] - 1)])]

LineRest == IF buffer.pending # <<>> THEN Failure ELSE ParseLines(<<buffer.line>>)

----------------------------------------------------------------------------
(* Zstd and Brotli of Bun: the whole stream at once.  What is compressed   *)
(* tells where it ends.                                                    *)

Compressed(data) == <<Len(data)>> \o data
Decompressed(bytes) ==
    IF bytes = <<>> \/ Len(bytes) # 1 + bytes[1] THEN Failure ELSE Success(Tail(bytes))

\* createAccumulatingStream, on either side
Gather(chunk) == [buffer |-> [data |-> buffer.data \o chunk], result |-> Success(<<>>)]
GatherRest == Decompressed(buffer.data)

----------------------------------------------------------------------------
(* the streams *)

EmptyBuffer ==
    CASE kind \in Radix -> [carry |-> <<>>, seenPadding |-> FALSE]
      [] kind = "Hex" -> [carry |-> <<>>]
      [] kind \in Framed -> EmptyQueue
      [] kind \in Lines -> [pending |-> <<>>, line |-> <<>>]
      [] kind \in Gathering -> [data |-> <<>>]

\* The bytes for a chunk of what is written, and for the end of it.
EncodeChunk(chunk) ==
    CASE kind \in Radix -> RadixEncode(chunk)
      [] kind = "Hex" -> [carry |-> <<>>, text |-> HexText(chunk)]
      [] kind = "V8Serde" -> [carry |-> <<>>, text |-> Frame(chunk[1])]
      [] kind = "Cbor" -> [carry |-> <<>>, text |-> Item(chunk[1])]
      [] kind \in Lines -> [carry |-> <<>>, text |-> Append(Stringify(chunk[1]), LF)]
      [] kind \in Gathering -> [carry |-> carry \o chunk, text |-> <<>>]

EncodeRest ==
    CASE kind \in Radix -> EncodeText(carry)
      [] kind \in Gathering -> Compressed(carry)
      [] OTHER -> <<>>

\* What becomes of a chunk that is read, and of the end of the stream.
DecodeChunk(chunk) ==
    CASE kind \in Radix -> RadixDecode(chunk)
      [] kind = "Hex" -> HexDecode(chunk)
      [] kind \in Framed -> FramedDecode(chunk)
      [] kind \in Lines -> LineDecode(chunk)
      [] kind \in Gathering -> Gather(chunk)

DecodeRest ==
    CASE kind \in Radix -> RadixRest
      [] kind = "Hex" -> HexRest
      [] kind = "V8Serde" -> FrameRest
      [] kind = "Cbor" -> DrainItems(buffer, TRUE).result
      [] kind \in Lines -> LineRest
      [] kind \in Gathering -> GatherRest

Init ==
    /\ kind \in Kinds
    /\ padding \in IF kind \in Radix THEN BOOLEAN ELSE {TRUE}
    /\ carry = <<>> /\ out = <<>>
    /\ \/ /\ ours = TRUE
          /\ given \in IF kind \in Framed \cup Lines THEN Values ELSE Bytes
          /\ source = given
          /\ wire = <<>> /\ text = <<>>
          /\ phase = "writing"
       \/ /\ ours = FALSE
          /\ \E f \in Foreign : kind = f.kind /\ given = f.values /\ text = f.text
          /\ source = <<>> /\ wire = text
          /\ phase = "reading"
    /\ buffer = EmptyBuffer

\* encodeStream: a chunk of bytes, or one value; its end.
Write ==
    /\ phase = "writing" /\ source # <<>>
    /\ \E n \in 1 .. IF kind \in Framed \cup Lines THEN 1 ELSE Len(source) :
          LET encoded == EncodeChunk(SubSeq(source, 1, n))
          IN /\ carry' = encoded.carry
             /\ text' = text \o encoded.text
             /\ source' = SubSeq(source, n + 1, Len(source))
    /\ UNCHANGED <<kind, padding, given, ours, wire, buffer, out, phase>>

CloseWrite ==
    /\ phase = "writing" /\ source = <<>>
    /\ text' = text \o EncodeRest
    /\ carry' = <<>>
    /\ phase' = "stored"
    /\ UNCHANGED <<kind, padding, source, given, ours, wire, buffer, out>>

\* The storage returns what it has, or the beginning of it.
Fetch ==
    /\ phase = "stored"
    /\ \E n \in 0 .. Len(text) : text' = SubSeq(text, 1, n) /\ wire' = text'
    /\ phase' = "reading"
    /\ UNCHANGED <<kind, padding, source, given, ours, carry, buffer, out>>

\* What a failing transform has enqueued reaches the reader or is dropped.
Deliver(result) ==
    \E n \in 0 .. Len(result.out) :
        /\ result.fails \/ n = Len(result.out)
        /\ out' = out \o SubSeq(result.out, 1, n)

\* decodeStream: a chunk of bytes; their end.
Read ==
    /\ phase = "reading" /\ wire # <<>>
    /\ \E n \in 1 .. Len(wire) :
          LET decoded == DecodeChunk(SubSeq(wire, 1, n))
          IN /\ buffer' = decoded.buffer
             /\ Deliver(decoded.result)
             /\ phase' = IF decoded.result.fails THEN "failed" ELSE phase
             /\ wire' = SubSeq(wire, n + 1, Len(wire))
    /\ UNCHANGED <<kind, padding, source, given, ours, carry, text>>

CloseRead ==
    /\ phase = "reading" /\ wire = <<>>
    /\ Deliver(DecodeRest)
    /\ phase' = IF DecodeRest.fails THEN "failed" ELSE "done"
    /\ buffer' = EmptyBuffer
    /\ UNCHANGED <<kind, padding, source, given, ours, carry, wire, text>>

Finished == phase \in {"done", "failed"} /\ UNCHANGED vars

Next == Write \/ CloseWrite \/ Fetch \/ Read \/ CloseRead \/ Finished

Spec == Init /\ [][Next]_vars

----------------------------------------------------------------------------
(* properties *)

TypeOK ==
    /\ kind \in Radix \cup {"Hex"} \cup Framed \cup Lines \cup Gathering
    /\ padding \in BOOLEAN /\ ours \in BOOLEAN
    /\ phase \in {"writing", "stored", "reading", "done", "failed"}
    /\ \A s \in {source, given, carry, wire, text, out} : ToSet(s) \subseteq 0 .. 255
    /\ kind \in Framed => 0 <= buffer.read /\ buffer.read <= buffer.write
                          /\ buffer.write <= Len(buffer.bytes)

\* What is written in one chunk.
TextOf(values) ==
    CASE kind \in Radix -> EncodeText(values)
      [] kind = "Hex" -> HexText(values)
      [] kind = "V8Serde" -> FlattenSeq([i \in DOMAIN values |-> Frame(values[i])])
      [] kind = "Cbor" -> FlattenSeq([i \in DOMAIN values |-> Item(values[i])])
      [] kind \in Lines -> FlattenSeq([i \in DOMAIN values |-> Append(Stringify(values[i]), LF)])
      [] kind \in Gathering -> Compressed(values)

\* What is read of a text that need not be whole, without streams: bytes as
\* decode has them; values where each of them is whole and nothing remains.
BytesOf(bytes) ==
    CASE kind \in Radix -> IF bytes = <<>> THEN Success(<<>>) ELSE DecodeChecked(bytes)
      [] kind = "Hex" -> HexDecodeAll(bytes)
      [] kind \in Gathering -> Decompressed(bytes)

\* Lines may be empty, end with a carriage return too, or lack the last line feed.
Bare(bytes) ==
    IF kind \in Lines THEN SelectSeq(bytes, LAMBDA byte : byte \notin {LF, CR}) ELSE bytes

ValuesOf(bytes) ==
    LET whole == {n \in 0 .. Len(given) : Bare(bytes) = Bare(TextOf(SubSeq(given, 1, n)))}
    IN IF whole = {} THEN Failure
       ELSE Success(SubSeq(given, 1, CHOOSE n \in whole : TRUE))

Meaning(bytes) == IF kind \in Framed \cup Lines THEN ValuesOf(bytes) ELSE BytesOf(bytes)

\* encodeStream writes the same bytes however its source is cut to chunks.
EncodingIgnoresChunks == (phase = "stored") => text = TextOf(given)

\* decodeStream ends as it would if the bytes came in one piece, however they
\* are cut: bytes that decode refuses are refused, and others lose nothing.
DecodingIgnoresChunks ==
    /\ (phase = "done") => Meaning(text) = Success(out)
    /\ (phase = "failed") => Meaning(text).fails

\* What comes out went in, in this order; all of it if no byte was lost.  Of the
\* bytes of others nothing comes out but the values in front of what is broken.
NothingIsMadeUp ==
    ours \/ kind \in Framed \cup Lines =>
        /\ IsPrefix(out, given)
        /\ (phase = "done" /\ text = TextOf(given)) => out = given
=============================================================================
