-------------------------- MODULE Observers_proofs --------------------------
(***************************************************************************)
(* Theorems about Observers, for any contents, chunks and hooks.           *)
(***************************************************************************)
EXTENDS Observers, SequenceTheorems, NaturalsInduction, WellFoundedInduction, TLAPS

----------------------------------------------------------------------------
(* sequences of sequences *)

Regroups(B, a, b, c) ==
    a \in Seq(B) /\ b \in Seq(B) /\ c \in Seq(B) => (a \o b) \o c = a \o (b \o c)

LEMMA Regroup ==
    \A B, a, b, c : Regroups(B, a, b, c)
  BY ConcatAssociative DEF Regroups

\* A set of numbers that has 0, and with n also n + 1, has them all.
LEMMA AllNumbers ==
    ASSUME NEW S, 0 \in S, \A n \in Nat : n \in S => n + 1 \in S
    PROVE  \A n \in Nat : n \in S
<1> DEFINE R == OpToRel(<, Nat)
           T == {n \in Nat : n \notin S}
<1>1. IsWellFoundedOn(R, Nat)
  BY NatLessThanWellFounded
<1>2. \A m, n \in Nat : m < n => <<m, n>> \in R
  BY DEF OpToRel
<1> HIDE DEF R
<1>3. SUFFICES ASSUME T # {}
               PROVE  FALSE
  BY <1>3
<1>4. PICK n \in T : \A m \in T : ~(<<m, n>> \in R)
  <2>1. T \subseteq Nat
    OBVIOUS
  <2> HIDE DEF T
  <2> QED
    BY <1>1, <1>3, <2>1, WFMin, Zenon
<1>5. n \in Nat \ {0}
  BY <1>4
<1>6. n - 1 \in Nat /\ n - 1 < n
  BY <1>5
<1>7. n - 1 \in S
  BY <1>2, <1>4, <1>5, <1>6
<1>8. n - 1 + 1 \in S
  BY <1>6, <1>7
<1> QED
  BY <1>4, <1>5, <1>8

\* FlattenSeq is what its recursive definition says.
LEMMA Flattening ==
    ASSUME NEW B, NEW s \in Seq(Seq(B)), s # <<>>
    PROVE  \E f : /\ f[1] = s[1]
                  /\ \A i \in 1 .. Len(s) - 1 : f[i + 1] = f[i] \o s[i + 1]
                  /\ FlattenSeq(s) = f[Len(s)]
<1> DEFINE Upto(f, n) == f = [i \in 1 .. n |-> IF i = 1 THEN s[i] ELSE f[i - 1] \o s[i]]
           S == {n \in Nat : \E f : Upto(f, n)}
<1>1. 0 \in S
  <2>1. Upto(<<>>, 0)
    OBVIOUS
  <2> QED
    BY <2>1
<1>2. ASSUME NEW n \in Nat, n \in S
      PROVE  n + 1 \in S
  <2>1. PICK f : Upto(f, n)
    BY <1>2
  <2> DEFINE g == [i \in 1 .. n + 1 |-> IF i = n + 1 THEN (IF i = 1 THEN s[i] ELSE f[n] \o s[i])
                                        ELSE f[i]]
  <2>2. \A i \in 1 .. n : g[i] = f[i]
    OBVIOUS
  <2>3. \A i \in 1 .. n : f[i] = IF i = 1 THEN s[i] ELSE f[i - 1] \o s[i]
    BY <2>1
  <2>4. \A i \in 1 .. n + 1 : g[i] = IF i = 1 THEN s[i] ELSE g[i - 1] \o s[i]
    BY <2>2, <2>3
  <2>5. DOMAIN g = 1 .. n + 1 /\ g = [i \in 1 .. n + 1 |-> g[i]]
    OBVIOUS
  <2> HIDE DEF g
  <2>6. Upto(g, n + 1)
    BY <2>4, <2>5
  <2>7. n + 1 \in Nat
    OBVIOUS
  <2> HIDE DEF Upto
  <2> QED
    BY <2>6, <2>7
<1>3. Len(s) \in Nat
  OBVIOUS
<1>4. PICK f : Upto(f, Len(s))
  <2> HIDE DEF S
  <2>1. Len(s) \in S
    BY <1>1, <1>2, <1>3, AllNumbers
  <2> QED
    BY <2>1 DEF S
<1> DEFINE flatten == CHOOSE h : Upto(h, Len(s))
<1>5. Upto(flatten, Len(s))
  BY <1>4
<1>6. FlattenSeq(s) = flatten[Len(s)]
  BY DEF FlattenSeq
<1> HIDE DEF flatten
<1>7. \A i \in 1 .. Len(s) : flatten[i] = IF i = 1 THEN s[i] ELSE flatten[i - 1] \o s[i]
  BY <1>5
<1>8. Len(s) \in Nat \ {0}
  OBVIOUS
<1>9. flatten[1] = s[1]
  BY <1>7, <1>8
<1>10. ASSUME NEW i \in 1 .. Len(s) - 1
       PROVE  flatten[i + 1] = flatten[i] \o s[i + 1]
  <2>1. i + 1 \in 1 .. Len(s) /\ i + 1 # 1 /\ (i + 1) - 1 = i
    BY <1>8
  <2>2. flatten[i + 1] = IF i + 1 = 1 THEN s[i + 1] ELSE flatten[(i + 1) - 1] \o s[i + 1]
    BY <1>7, <2>1, Zenon
  <2> QED
    BY <2>1, <2>2, Zenon
<1> QED
  BY <1>6, <1>9, <1>10, Zenon

LEMMA FlatEmpty ==
    FlattenSeq(<<>>) = <<>>
  BY DEF FlattenSeq

LEMMA FlatOne ==
    ASSUME NEW B, NEW c \in Seq(B)
    PROVE  FlattenSeq(<<c>>) = c
<1>1. <<c>> \in Seq(Seq(B)) /\ <<c>> # <<>> /\ Len(<<c>>) = 1 /\ <<c>>[1] = c
  OBVIOUS
<1> QED
  BY <1>1, Flattening, Zenon

LEMMA FlatIn ==
    ASSUME NEW B, NEW s \in Seq(Seq(B))
    PROVE  FlattenSeq(s) \in Seq(B)
<1>1. CASE s = <<>>
  <2>1. <<>> \in Seq(B)
    OBVIOUS
  <2> QED
    BY <1>1, <2>1, FlatEmpty, Zenon
<1>2. CASE s # <<>>
  <2>1. PICK f : /\ f[1] = s[1]
                 /\ \A i \in 1 .. Len(s) - 1 : f[i + 1] = f[i] \o s[i + 1]
                 /\ FlattenSeq(s) = f[Len(s)]
    BY <1>2, Flattening, Zenon
  <2>2. Len(s) \in Nat \ {0} /\ \A i \in 1 .. Len(s) : s[i] \in Seq(B)
    BY <1>2
  <2> DEFINE S == {n \in Nat : n + 1 \in 1 .. Len(s) => f[n + 1] \in Seq(B)}
  <2>3. 0 \in S
    BY <2>1, <2>2
  <2>4. ASSUME NEW n \in Nat, n \in S
        PROVE  n + 1 \in S
    <3> SUFFICES ASSUME n + 1 + 1 \in 1 .. Len(s)
                 PROVE  f[n + 1 + 1] \in Seq(B)
      OBVIOUS
    <3>1. n + 1 \in 1 .. Len(s) - 1 /\ n + 1 \in 1 .. Len(s)
      BY <2>2
    <3>2. f[n + 1] \in Seq(B)
      BY <2>4, <3>1
    <3>3. f[n + 1 + 1] = f[n + 1] \o s[n + 1 + 1]
      BY <2>1, <3>1, Zenon
    <3>4. s[n + 1 + 1] \in Seq(B)
      BY <2>2, Zenon
    <3> QED
      BY <3>2, <3>3, <3>4, ConcatProperties, Zenon
  <2>5. \A n \in Nat : n \in S
    <3> HIDE DEF S
    <3> QED
      BY <2>3, <2>4, AllNumbers
  <2>6. Len(s) - 1 \in Nat /\ Len(s) - 1 + 1 \in 1 .. Len(s) /\ Len(s) - 1 + 1 = Len(s)
    BY <2>2
  <2>7. f[Len(s) - 1 + 1] \in Seq(B)
    BY <2>5, <2>6, Zenon
  <2> QED
    BY <2>1, <2>6, <2>7, Zenon
<1> QED
  BY <1>1, <1>2

\* The first of the sequences comes first.
LEMMA FlatHead ==
    ASSUME NEW B, NEW s \in Seq(Seq(B)), s # <<>>
    PROVE  FlattenSeq(s) = Head(s) \o FlattenSeq(Tail(s))
<1> DEFINE t == Tail(s)
<1>1. t \in Seq(Seq(B)) /\ Len(t) = Len(s) - 1 /\ Len(s) \in Nat \ {0}
  OBVIOUS
<1>2. \A i \in 1 .. Len(t) : t[i] = s[i + 1] /\ t[i] \in Seq(B)
  OBVIOUS
<1>3. Head(s) = s[1] /\ s[1] \in Seq(B)
  OBVIOUS
<1>4. PICK f : /\ f[1] = s[1]
               /\ \A i \in 1 .. Len(s) - 1 : f[i + 1] = f[i] \o s[i + 1]
               /\ FlattenSeq(s) = f[Len(s)]
  BY Flattening, Zenon
<1> HIDE DEF t
<1>6. CASE t = <<>>
  <2>1. Len(s) = 1
    BY <1>1, <1>6
  <2>2. s[1] \o <<>> = s[1]
    BY <1>3
  <2>3. FlattenSeq(t) = <<>>
    BY <1>6, FlatEmpty, Zenon
  <2> QED
    BY <1>3, <1>4, <2>1, <2>2, <2>3, Zenon DEF t
<1>7. CASE t # <<>>
  <2>1. PICK g : /\ g[1] = t[1]
                 /\ \A i \in 1 .. Len(t) - 1 : g[i + 1] = g[i] \o t[i + 1]
                 /\ FlattenSeq(t) = g[Len(t)]
    BY <1>1, <1>7, Flattening, Zenon
  <2>2. Len(t) \in Nat \ {0}
    BY <1>1, <1>7, EmptySeq, Zenon
  <2> DEFINE S == {n \in Nat : n + 1 \in 1 .. Len(t) =>
                       g[n + 1] \in Seq(B) /\ f[n + 1 + 1] = s[1] \o g[n + 1]}
  <2>3. 0 \in S
    <3>1. f[1 + 1] = f[1] \o s[1 + 1] /\ t[1] = s[1 + 1] /\ t[1] \in Seq(B)
      <4>1. 1 \in 1 .. Len(s) - 1 /\ 1 \in 1 .. Len(t)
        BY <1>1, <2>2
      <4> QED
        BY <1>2, <1>4, <4>1, Zenon
    <3>2. 0 + 1 = 1 /\ 0 \in Nat
      OBVIOUS
    <3>3. g[0 + 1] \in Seq(B) /\ f[0 + 1 + 1] = s[1] \o g[0 + 1]
      BY <1>4, <2>1, <3>1, <3>2, Zenon
    <3> QED
      BY <3>2, <3>3, Zenon
  <2>4. ASSUME NEW n \in Nat, n \in S
        PROVE  n + 1 \in S
    <3> SUFFICES ASSUME n + 1 + 1 \in 1 .. Len(t)
                 PROVE  g[n + 1 + 1] \in Seq(B) /\ f[n + 1 + 1 + 1] = s[1] \o g[n + 1 + 1]
      <4>1. n + 1 \in Nat
        OBVIOUS
      <4> QED
        BY <4>1, Zenon
    <3>1. /\ n + 1 \in 1 .. Len(t) - 1 /\ n + 1 \in 1 .. Len(t)
          /\ n + 1 + 1 \in 1 .. Len(s) - 1
      BY <1>1, <2>2
    <3>2. g[n + 1] \in Seq(B) /\ f[n + 1 + 1] = s[1] \o g[n + 1]
      BY <2>4, <3>1
    <3>3. /\ f[n + 1 + 1 + 1] = f[n + 1 + 1] \o s[n + 1 + 1 + 1]
          /\ t[n + 1 + 1] = s[n + 1 + 1 + 1] /\ t[n + 1 + 1] \in Seq(B)
      BY <1>2, <1>4, <3>1, Zenon
    <3>4. g[n + 1 + 1] = g[n + 1] \o t[n + 1 + 1]
      BY <2>1, <3>1, Zenon
    <3>5. (s[1] \o g[n + 1]) \o t[n + 1 + 1] = s[1] \o (g[n + 1] \o t[n + 1 + 1])
      <4>1. Regroups(B, s[1], g[n + 1], t[n + 1 + 1])
        BY Regroup, Zenon
      <4> QED
        BY <1>3, <3>2, <3>3, <4>1, Zenon DEF Regroups
    <3>6. g[n + 1 + 1] \in Seq(B)
      BY <3>2, <3>3, <3>4, ConcatProperties, Zenon
    <3> QED
      BY <3>2, <3>3, <3>4, <3>5, <3>6, Zenon
  <2>5. \A n \in Nat : n \in S
    <3> HIDE DEF S
    <3> QED
      BY <2>3, <2>4, AllNumbers
  <2>6. /\ Len(t) - 1 \in Nat /\ Len(t) - 1 + 1 \in 1 .. Len(t) /\ Len(t) - 1 + 1 = Len(t)
        /\ Len(t) + 1 = Len(s)
    BY <1>1, <2>2
  <2>7. f[Len(t) - 1 + 1 + 1] = s[1] \o g[Len(t) - 1 + 1]
    BY <2>5, <2>6, Zenon
  <2> QED
    BY <1>3, <1>4, <2>1, <2>6, <2>7, Zenon DEF t
<1> QED
  BY <1>6, <1>7

\* The pieces of a chunk are the chunk (Checksum.chunks).
LEMMA PiecesAre ==
    ASSUME Admitted, NEW c \in Seq(Byte)
    PROVE  Pieces(c) \in Seq(Seq(Byte)) /\ FlattenSeq(Pieces(c)) = c
<1> DEFINE M == MaxChunkSize
           L == Len(c)
           q == (L + M - 1) \div M
           end(i) == IF M * i < L THEN M * i ELSE L
           P == Pieces(c)
<1>1. M \in Nat \ {0} /\ L \in Nat
  BY DEF Admitted
<1>2. q \in Nat /\ M * q <= L + M - 1 /\ L + M - 1 < M * q + M
  BY <1>1
<1>3. P = [i \in 1 .. q |-> SubSeq(c, M * (i - 1) + 1, end(i))]
  BY DEF Pieces
<1>4. \A x \in 1 .. L : c[x] \in Byte
  OBVIOUS
<1> HIDE DEF M, L, q
<1>5. \A i \in Nat : M * i \in Nat /\ M * (i + 1) = M * i + M /\ (i < q => M * i <= M * (q - 1))
  BY <1>1, <1>2
<1>6. M * q = M * (q - 1) + M
  BY <1>1, <1>2
<1>7. \A i \in Nat : i < q => M * i < L /\ end(i) = M * i
  BY <1>1, <1>2, <1>5, <1>6
<1>8. end(q) = L
  BY <1>1, <1>2, <1>5
<1>9. \A i \in Nat : end(i) \in 0 .. L /\ (i > 0 => M * (i - 1) \in Nat)
  BY <1>1, <1>5
<1> DEFINE Up(i) == SubSeq(c, M * (i - 1) + 1, end(i))
<1>10. ASSUME NEW i \in 1 .. q
       PROVE  Up(i) \in Seq(Byte)
  <2>1. M * (i - 1) + 1 \in Int /\ end(i) \in Int
    BY <1>2, <1>9
  <2>2. \A x \in M * (i - 1) + 1 .. end(i) : x \in 1 .. L
    BY <1>1, <1>2, <1>9
  <2>3. \A x \in M * (i - 1) + 1 .. end(i) : c[x] \in Byte
    BY <1>4, <2>2
  <2> QED
    BY <2>1, <2>3, SubSeqProperties, Zenon
<1>11. P \in Seq(Seq(Byte)) /\ Len(P) = q
  BY <1>2, <1>3, <1>10
<1>12. CASE q = 0
  <2>1. L = 0
    BY <1>1, <1>2, <1>12
  <2>2. c = <<>>
    BY <2>1 DEF L
  <2>3. P = <<>>
    BY <1>11, <1>12
  <2> QED
    BY <1>11, <2>2, <2>3, FlatEmpty, Zenon
<1>13. CASE q # 0
  <2>1. P # <<>>
    BY <1>11, <1>13
  <2>2. PICK f : /\ f[1] = P[1]
                 /\ \A i \in 1 .. Len(P) - 1 : f[i + 1] = f[i] \o P[i + 1]
                 /\ FlattenSeq(P) = f[Len(P)]
    BY <1>11, <2>1, Flattening, Zenon
  <2> DEFINE S == {n \in Nat : n + 1 \in 1 .. q => f[n + 1] = SubSeq(c, 1, end(n + 1))}
  <2>3. 0 \in S
    <3>1. 1 \in 1 .. q /\ M * (1 - 1) + 1 = 1 /\ 0 + 1 = 1
      BY <1>1, <1>2, <1>13
    <3>2. P[1] = SubSeq(c, M * (1 - 1) + 1, end(1))
      BY <1>3, <3>1, Zenon
    <3>3. f[0 + 1] = SubSeq(c, 1, end(0 + 1))
      BY <2>2, <3>1, <3>2, Zenon
    <3>4. 0 \in Nat
      OBVIOUS
    <3> HIDE DEF end, P
    <3> QED
      BY <3>3, <3>4, Zenon
  <2>4. ASSUME NEW n \in Nat, n \in S
        PROVE  n + 1 \in S
    <3> SUFFICES ASSUME n + 1 + 1 \in 1 .. q
                 PROVE  f[n + 1 + 1] = SubSeq(c, 1, end(n + 1 + 1))
      <4>1. n + 1 \in Nat
        OBVIOUS
      <4> QED
        BY <4>1, Zenon
    <3>1. /\ n + 1 \in 1 .. q - 1 /\ n + 1 \in 1 .. q /\ n + 1 \in Nat /\ n + 1 < q
          /\ (n + 1 + 1) - 1 = n + 1 /\ n + 1 + 1 \in Nat
      BY <1>2
    <3>2. f[n + 1] = SubSeq(c, 1, end(n + 1))
      BY <2>4, <3>1, Zenon
    <3>3. f[n + 1 + 1] = f[n + 1] \o P[n + 1 + 1]
      BY <1>11, <2>2, <3>1, Zenon
    <3>4. P[n + 1 + 1] = SubSeq(c, M * ((n + 1 + 1) - 1) + 1, end(n + 1 + 1))
      BY <1>3, Zenon
    <3>5. end(n + 1) = M * (n + 1)
      BY <1>7, <3>1, Zenon
    <3> DEFINE k == M * (n + 1)
               e == end(n + 1 + 1)
    <3>6. 1 \in 1 .. L + 1 /\ k \in 1 - 1 .. L /\ e \in k .. L
      BY <1>1, <1>5, <1>7, <1>9, <3>1
    <3>7. f[n + 1] = SubSeq(c, 1, k) /\ P[n + 1 + 1] = SubSeq(c, k + 1, e)
      BY <3>1, <3>2, <3>4, <3>5, Zenon
    <3> HIDE DEF k, e
    <3>8. SubSeq(c, 1, k) \o SubSeq(c, k + 1, e) = SubSeq(c, 1, e)
      BY <3>6, ConcatAdjacentSubSeq, Zenon DEF L
    <3> QED
      BY <3>3, <3>7, <3>8, Zenon DEF e
  <2>5. \A n \in Nat : n \in S
    <3> HIDE DEF S
    <3> QED
      BY <2>3, <2>4, AllNumbers
  <2>6. q - 1 \in Nat /\ q - 1 + 1 \in 1 .. q /\ q - 1 + 1 = q
    BY <1>2, <1>13
  <2>7. f[q] = SubSeq(c, 1, L)
    <3>1. f[q - 1 + 1] = SubSeq(c, 1, end(q - 1 + 1))
      BY <2>5, <2>6, Zenon
    <3> QED
      BY <1>8, <2>6, <3>1, Zenon
  <2>8. SubSeq(c, 1, L) = c
    BY DEF L
  <2> QED
    BY <1>11, <2>2, <2>7, <2>8, Zenon
<1> QED
  BY <1>12, <1>13

----------------------------------------------------------------------------
(* the inductive invariant *)

Rest == FlattenSeq(SubSeq(content, taken + 1, Len(content)))

Typed ==
    /\ hook \in Hooks /\ content \in Contents /\ ends \in {"close", "fail"}
    /\ taken \in 0 .. Len(content)
    /\ inner \in Seq(Seq(Byte)) /\ outer \in Seq(Seq(Byte))
    /\ given \in Seq(Byte) /\ hashed \in Seq(Byte)
    /\ innerEnd \in {"open", "closed", "failed", "cancelled"}
    /\ outerEnd \in {"open", "closed", "failed", "cancelled"}
    /\ inside \in {"before", "running", "ok", "failed"}
    /\ consumer \in {"reading", "done", "failed", "cancelled"}
    /\ told \in 0 .. 1 /\ wiped \in 0 .. 1 /\ now \in 0 .. MaxTime
    /\ bytes \in Nat /\ settled \in BOOLEAN

\* Before next() is called, and where there is no stream, nothing has moved.
StartOK ==
    /\ ~Streams => /\ taken = 0 /\ inner = <<>> /\ outer = <<>>
                   /\ innerEnd = "open" /\ outerEnd = "open"
    /\ inside = "before" => /\ given = <<>> /\ consumer = "reading"
                            /\ hashed = <<>> /\ told = 0 /\ bytes = 0
    /\ ~Streams /\ ~hook.plain => /\ given = <<>> /\ consumer \in {"reading", "failed"}
                                  /\ told = 0

\* A plain value arrives as a whole when next() returns, or not at all.
PlainOK ==
    hook.plain =>
        /\ ends = "close"
        /\ consumer # "cancelled"
        /\ inside = "ok" <=> consumer = "done"
        /\ IF inside = "ok" THEN given = All ELSE given = <<>>
        /\ inside \in {"running", "ok"} =>
              /\ ~LacksChecksum
              /\ Checks => /\ ~Finalized(All).fails /\ hashed = All
                           /\ hook.onHash # "none" => told = 1
        /\ hook.name = "Metrics" /\ inside # "before" => bytes = Len(All)

\* What has arrived, what is queued, what was dropped and what is still to come
\* are the content, in this order; nothing is dropped from a stream that goes on
\* or ends well.
WholeOK ==
    ~hook.plain =>
        \E dropped \in Seq(Byte) :
            /\ given \o (FlattenSeq(outer) \o (dropped \o Rest)) = All
            /\ innerEnd \in {"open", "closed"} => dropped = FlattenSeq(inner)

\* How the two queues of a stream end, and what its reader is told.
EndOK ==
    /\ innerEnd = "closed" => taken = Len(content) /\ ends = "close"
    /\ outerEnd = "closed" =>
          /\ outer = <<>> /\ inner = <<>>
          /\ IF hook.name = "Tracing" THEN taken = Len(content) /\ ends = "close" /\ innerEnd = "open"
             ELSE innerEnd = "closed"
    /\ ~Observes => outer = <<>> /\ outerEnd \in {"open", "cancelled"}
    /\ hook.name = "Tracing" => inner = <<>> /\ innerEnd \in {"open", "cancelled"}
    /\ hook.name = "Metrics" /\ innerEnd = "failed" => ends = "fail"
    /\ ~hook.plain /\ consumer = "done" => End = "closed" /\ Queue = <<>>
    /\ innerEnd = "cancelled" <=> outerEnd = "cancelled"
    /\ innerEnd = "cancelled" => consumer = "cancelled"
    /\ innerEnd \in {"failed", "cancelled"} => inner = <<>>
    /\ outerEnd \in {"failed", "cancelled"} => outer = <<>>

\* The hash is that of what was taken, and onHash is told of all of it.
HashOK ==
    /\ Streams /\ Checks => hashed \o Rest = All
    /\ ~hook.plain /\ innerEnd = "open" => told = 0
    /\ told = 1 => hashed = All /\ hook.expected \in {None, All}
    /\ ~hook.plain /\ told = 1 => taken = Len(content)
    /\ Streams /\ innerEnd = "closed" /\ Checks =>
          ~Finalized(All).fails /\ (hook.onHash # "none" => told = 1)

\* Metrics counts what it has taken.
CountOK ==
    hook.name = "Metrics" /\ ~hook.plain => bytes + Len(Rest) = Len(All)

\* There is one report at most, and one where the operation is over; what it says
\* stays true.
ReportOK ==
    /\ reports \in Seq([outcome : {"success", "error"}, bytes : Nat])
    /\ Len(reports) + wiped = IF settled THEN 1 ELSE 0
    /\ summary \in [success : Nat, error : Nat, bytes : Nat]
    /\ summary.success + summary.error = Len(reports)
    /\ summary.bytes = IF reports = <<>> THEN 0 ELSE reports[1].bytes
    /\ inside = "before" => ~settled
    /\ Observes /\ (IsOver \/ outerEnd # "open") => settled
    /\ hook.name = "Metrics" /\ innerEnd = "closed" => settled
    /\ reports # <<>> =>
          IF reports[1].outcome = "success"
          THEN /\ \/ taken = Len(content) /\ ends = "close"
                  \/ hook.plain /\ inside = "ok"
                  \/ hook.name = "Tracing" /\ consumer = "cancelled"
               /\ hook.name = "Metrics" => reports[1].bytes = Len(All)
          ELSE /\ \/ inside = "failed" \/ consumer = "cancelled"
                  \/ outerEnd = "failed" /\ ends = "fail" /\ outer = <<>>
               /\ hook.name = "Metrics" => reports[1].bytes >= Len(given)

Inv ==
    /\ Typed /\ StartOK /\ PlainOK /\ WholeOK /\ EndOK /\ HashOK /\ CountOK /\ ReportOK

----------------------------------------------------------------------------
(* what is still to come *)

LEMMA RestOfNone ==
    ASSUME NEW c \in Seq(Seq(Byte))
    PROVE  FlattenSeq(SubSeq(c, Len(c) + 1, Len(c))) = <<>>
<1>1. SubSeq(c, Len(c) + 1, Len(c)) = <<>>
  BY LenProperties, SubSeqEmpty
<1> QED
  BY <1>1, FlatEmpty, Zenon

LEMMA RestOfAll ==
    ASSUME NEW c \in Seq(Seq(Byte))
    PROVE  FlattenSeq(SubSeq(c, 0 + 1, Len(c))) = FlattenSeq(c)
<1>1. SubSeq(c, 0 + 1, Len(c)) = c
  OBVIOUS
<1> QED
  BY <1>1, Zenon

LEMMA RestOfMore ==
    ASSUME NEW c \in Seq(Seq(Byte)), NEW t \in 0 .. Len(c), t < Len(c)
    PROVE  /\ c[t + 1] \in Seq(Byte)
           /\ FlattenSeq(SubSeq(c, t + 1, Len(c)))
                = c[t + 1] \o FlattenSeq(SubSeq(c, (t + 1) + 1, Len(c)))
<1> DEFINE s == SubSeq(c, t + 1, Len(c))
<1>1. s \in Seq(Seq(Byte)) /\ Len(s) = Len(c) - t /\ Len(c) - t > 0
  OBVIOUS
<1>2. Head(s) = c[t + 1] /\ c[t + 1] \in Seq(Byte)
  OBVIOUS
<1>3. Tail(s) = SubSeq(c, (t + 1) + 1, Len(c))
  <2>1. Tail(s) \in Seq(Seq(Byte)) /\ Len(Tail(s)) = Len(c) - t - 1
    <3> HIDE DEF s
    <3> QED
      BY <1>1
  <2>2. SubSeq(c, (t + 1) + 1, Len(c)) \in Seq(Seq(Byte))
        /\ Len(SubSeq(c, (t + 1) + 1, Len(c))) = Len(c) - t - 1
    OBVIOUS
  <2>3. \A i \in 1 .. Len(c) - t - 1 : Tail(s)[i] = SubSeq(c, (t + 1) + 1, Len(c))[i]
    OBVIOUS
  <2> QED
    BY <2>1, <2>2, <2>3, SeqEqual
<1> HIDE DEF s
<1>4. s # <<>>
  BY <1>1
<1>5. FlattenSeq(s) = Head(s) \o FlattenSeq(Tail(s))
  BY <1>1, <1>4, FlatHead, Zenon
<1> QED
  BY <1>2, <1>3, <1>5, Zenon DEF s

LEMMA RestIn ==
    ASSUME NEW c \in Seq(Seq(Byte)), NEW t \in 0 .. Len(c)
    PROVE  FlattenSeq(SubSeq(c, t + 1, Len(c))) \in Seq(Byte)
<1>1. SubSeq(c, t + 1, Len(c)) \in Seq(Seq(Byte))
  OBVIOUS
<1> QED
  BY <1>1, FlatIn, Zenon

LEMMA RestFacts ==
    ASSUME Admitted, Typed
    PROVE  /\ content \in Seq(Seq(Byte)) /\ All \in Seq(Byte) /\ Rest \in Seq(Byte)
           /\ taken = Len(content) => Rest = <<>>
           /\ taken = 0 => Rest = All
<1>1. content \in Seq(Seq(Byte)) /\ taken \in 0 .. Len(content)
  BY DEF Admitted, Typed
<1>2. All \in Seq(Byte)
  BY <1>1, FlatIn, Zenon DEF All
<1>3. Rest \in Seq(Byte)
  BY <1>1, RestIn, Zenon DEF Rest
<1>4. taken = Len(content) => Rest = <<>>
  BY <1>1, RestOfNone, Zenon DEF Rest
<1>5. taken = 0 => Rest = All
  BY <1>1, RestOfAll, Zenon DEF Rest, All
<1> QED
  BY <1>1, <1>2, <1>3, <1>4, <1>5

LEMMA HookFacts ==
    ASSUME Admitted, Typed
    PROVE  /\ hook.plain \in BOOLEAN /\ hook.required \in BOOLEAN
           /\ hook.name \in {"Metrics", "Tracing", "Checksum", "Expiry", "Debug"}
           /\ hook.onHash \in {"none", "returns", "throws"}
  BY DEF Admitted, Typed, IsHook

LEMMA InitInv ==
    ASSUME Admitted, Init
    PROVE  Inv
<1>1. Typed
  <2>1. content \in Seq(Seq(Byte)) /\ MaxTime \in Nat
    BY DEF Init, Admitted
  <2>2. taken \in 0 .. Len(content) /\ now \in 0 .. MaxTime
    BY <2>1 DEF Init
  <2>3. <<>> \in Seq(Byte) /\ <<>> \in Seq(Seq(Byte))
    OBVIOUS
  <2>4. inner \in Seq(Seq(Byte)) /\ outer \in Seq(Seq(Byte)) /\ given \in Seq(Byte) /\ hashed \in Seq(Byte)
    BY <2>3, Zenon DEF Init
  <2>5. /\ hook \in Hooks /\ content \in Contents /\ ends \in {"close", "fail"}
        /\ innerEnd = "open" /\ outerEnd = "open" /\ inside = "before" /\ consumer = "reading"
        /\ told = 0 /\ wiped = 0 /\ bytes = 0 /\ settled = FALSE
    BY DEF Init
  <2>6. /\ innerEnd \in {"open", "closed", "failed", "cancelled"}
        /\ outerEnd \in {"open", "closed", "failed", "cancelled"}
        /\ inside \in {"before", "running", "ok", "failed"}
        /\ consumer \in {"reading", "done", "failed", "cancelled"}
    BY <2>5
  <2>7. told \in 0 .. 1 /\ wiped \in 0 .. 1 /\ bytes \in Nat
    BY <2>5
  <2>8. settled \in BOOLEAN
    BY <2>5, Zenon
  <2> QED
    BY <2>2, <2>4, <2>5, <2>6, <2>7, <2>8, Zenon DEF Typed
<1> USE DEF Init
<1>2. All \in Seq(Byte) /\ Rest = All
  BY <1>1, RestFacts
<1>3. StartOK
  BY DEF StartOK
<1>4. PlainOK
  BY <1>1, HookFacts DEF PlainOK
<1>5. WholeOK
  <2>1. <<>> \o (FlattenSeq(<<>>) \o (<<>> \o All)) = All /\ <<>> \in Seq(Byte)
    BY <1>2, FlatEmpty
  <2> QED
    BY <1>2, <2>1, FlatEmpty, Zenon DEF WholeOK
<1>6. EndOK
  BY DEF EndOK, Observes, End, Queue
<1>7. HashOK
  BY DEF HashOK, Streams
<1>8. CountOK
  BY <1>2 DEF CountOK
<1>9. ReportOK
  BY DEF ReportOK, IsOver, NoSummary
<1> QED
  BY <1>1, <1>3, <1>4, <1>5, <1>6, <1>7, <1>8, <1>9 DEF Inv

LEMMA BeginInv ==
    ASSUME Admitted, Inv, Begin
    PROVE  Inv'
<1>1. Typed /\ StartOK /\ PlainOK /\ WholeOK /\ EndOK /\ HashOK /\ CountOK /\ ReportOK
  BY DEF Inv
<1>2. All \in Seq(Byte) /\ Rest \in Seq(Byte) /\ (taken = 0 => Rest = All) /\ content \in Seq(Seq(Byte))
  BY <1>1, RestFacts
<1>3. All' = All /\ Rest' = Rest
  BY DEF Begin, All, Rest, sourceVars
<1> USE HookFacts
<1>4. Typed'
  BY <1>1, <1>2 DEF Begin, Typed, sourceVars, outerVars
<1>5. StartOK'
  BY <1>1 DEF Begin, StartOK, Streams, sourceVars, outerVars, LacksChecksum
<1>6. PlainOK'
  BY <1>1, <1>3 DEF Begin, PlainOK, sourceVars, LacksChecksum, Checks, Finalized
<1>7. WholeOK'
  BY <1>1, <1>3 DEF Begin, WholeOK, sourceVars, outerVars
<1>8. EndOK'
  BY <1>1 DEF Begin, EndOK, StartOK, Streams, sourceVars, outerVars, Observes, End, Queue
<1>9. HashOK'
  BY <1>1, <1>2, <1>3 DEF Begin, HashOK, StartOK, sourceVars, Streams, LacksChecksum, Checks, Finalized
<1>10. CountOK'
  BY <1>1, <1>3 DEF Begin, CountOK, sourceVars
<1>11. ReportOK'
  BY <1>1, <1>3 DEF Begin, ReportOK, StartOK, sourceVars, outerVars, Observes, IsOver, LacksChecksum, Checks, Refuses
<1> QED
  BY <1>4, <1>5, <1>6, <1>7, <1>8, <1>9, <1>10, <1>11 DEF Inv

LEMMA Tallied ==
    ASSUME NEW r \in [success : Nat, error : Nat, bytes : Nat], NEW a \in Nat, NEW b \in Nat
    PROVE  /\ [r EXCEPT !.success = a, !.bytes = b] \in [success : Nat, error : Nat, bytes : Nat]
           /\ [r EXCEPT !.error = a, !.bytes = b] \in [success : Nat, error : Nat, bytes : Nat]
  OBVIOUS

\* One more report, where there was none.
LEMMA Reported ==
    ASSUME ReportOK, ~settled, NEW outcome \in {"success", "error"}, NEW size \in Nat,
           settled' = TRUE, Observe(outcome, size), wiped' = wiped, wiped \in Nat
    PROVE  /\ reports' = <<[outcome |-> outcome, bytes |-> size]>>
           /\ reports' \in Seq([outcome : {"success", "error"}, bytes : Nat])
           /\ Len(reports') = 1 /\ wiped' = 0 /\ reports' # <<>>
           /\ summary' \in [success : Nat, error : Nat, bytes : Nat]
           /\ summary'.success + summary'.error = 1 /\ summary'.bytes = size
           /\ reports'[1].outcome = outcome /\ reports'[1].bytes = size
<1>1. reports = <<>>
  <2>1. Len(reports) \in Nat /\ Len(reports) + wiped = 0
    <3>1. Len(reports) + wiped = 0
      BY Zenon DEF ReportOK
    <3>2. Len(reports) \in Nat
      BY LenProperties, Zenon DEF ReportOK
    <3> QED
      BY <3>1, <3>2
  <2>2. Len(reports) = 0
    BY <2>1
  <2>3. reports = <<>>
    BY <2>2, EmptySeq, Zenon DEF ReportOK
  <2> QED
    BY <2>3
<1>2. reports' = <<[outcome |-> outcome, bytes |-> size]>>
  <2> DEFINE r == [outcome |-> outcome, bytes |-> size]
  <2>1. reports' = Append(<<>>, r)
    BY <1>1, Zenon DEF Observe
  <2> HIDE DEF r
  <2>2. Append(<<>>, r) = <<r>>
    OBVIOUS
  <2> QED
    BY <2>1, <2>2, Zenon DEF r
<1>3. /\ summary' \in [success : Nat, error : Nat, bytes : Nat]
      /\ summary'.success + summary'.error = 1 /\ summary'.bytes = size
  <2>1. summary' = [summary EXCEPT ![outcome] = @ + 1, !.bytes = @ + size]
    BY Zenon DEF Observe
  <2>2. /\ summary \in [success : Nat, error : Nat, bytes : Nat]
        /\ summary.success + summary.error = 0 /\ summary.bytes = 0
    BY <1>1 DEF ReportOK
  <2>3. CASE outcome = "success"
    <3>1. summary' = [summary EXCEPT !.success = summary.success + 1, !.bytes = summary.bytes + size]
      BY <2>1, <2>3
    <3>2. summary.success + 1 \in Nat /\ summary.bytes + size \in Nat
      BY <2>2
    <3>3. summary' \in [success : Nat, error : Nat, bytes : Nat]
      BY <2>2, <3>1, <3>2, Tallied, Zenon
    <3> QED
      BY <2>2, <3>1, <3>3
  <2>4. CASE outcome = "error"
    <3>1. summary' = [summary EXCEPT !.error = summary.error + 1, !.bytes = summary.bytes + size]
      BY <2>1, <2>4
    <3>2. summary.error + 1 \in Nat /\ summary.bytes + size \in Nat
      BY <2>2
    <3>3. summary' \in [success : Nat, error : Nat, bytes : Nat]
      BY <2>2, <3>1, <3>2, Tallied, Zenon
    <3> QED
      BY <2>2, <3>1, <3>3
  <2> QED
    BY <2>3, <2>4
<1>4. wiped = 0
  BY <1>1 DEF ReportOK
<1>5. [outcome |-> outcome, bytes |-> size] \in [outcome : {"success", "error"}, bytes : Nat]
  OBVIOUS
<1>6. /\ reports' \in Seq([outcome : {"success", "error"}, bytes : Nat]) /\ Len(reports') = 1
      /\ reports'[1] = [outcome |-> outcome, bytes |-> size]
  <2> DEFINE r == [outcome |-> outcome, bytes |-> size]
  <2>1. reports' = <<r>> /\ r \in [outcome : {"success", "error"}, bytes : Nat]
    BY <1>2, <1>5, Zenon
  <2> HIDE DEF r
  <2>2. /\ reports' \in Seq([outcome : {"success", "error"}, bytes : Nat]) /\ Len(reports') = 1
        /\ reports'[1] = r
    <3> DEFINE R == [outcome : {"success", "error"}, bytes : Nat]
    <3>1. r \in R
      BY <2>1
    <3> HIDE DEF R
    <3>2. <<r>> \in Seq(R) /\ Len(<<r>>) = 1 /\ <<r>>[1] = r
      BY <3>1
    <3> QED
      BY <2>1, <3>2, Zenon DEF R
  <2> QED
    BY <2>2, Zenon DEF r
<1>7. Len(reports') = 1 /\ wiped' = 0 /\ reports' # <<>>
  BY <1>4, <1>6
<1> QED
  BY <1>2, <1>3, <1>6, <1>7

\* The first outcome counts.
LEMMA Settled ==
    ASSUME ReportOK, bytes \in Nat, NEW outcome \in {"success", "error"}, Settle(outcome),
           wiped' = wiped, wiped \in Nat, settled \in BOOLEAN
    PROVE  /\ settled'
           /\ \/ settled /\ UNCHANGED <<reports, summary>>
              \/ /\ ~settled
                 /\ reports' \in Seq([outcome : {"success", "error"}, bytes : Nat])
                 /\ Len(reports') = 1 /\ wiped' = 0 /\ reports' # <<>>
                 /\ summary' \in [success : Nat, error : Nat, bytes : Nat]
                 /\ summary'.success + summary'.error = 1
                 /\ summary'.bytes = reports'[1].bytes
                 /\ reports'[1].outcome = outcome /\ reports'[1].bytes = bytes
<1>1. CASE settled
  BY <1>1 DEF Settle
<1>2. CASE ~settled
  <2>1. settled' = TRUE /\ Observe(outcome, bytes)
    BY <1>2 DEF Settle
  <2> QED
    BY <1>2, <2>1, Reported
<1> QED
  BY <1>1, <1>2

LEMMA SpanFinished ==
    ASSUME ReportOK, NEW success \in BOOLEAN, Finish(success), wiped' = wiped, wiped \in Nat, settled \in BOOLEAN
    PROVE  /\ settled'
           /\ \/ settled /\ UNCHANGED <<reports, summary>>
              \/ /\ ~settled
                 /\ reports' \in Seq([outcome : {"success", "error"}, bytes : Nat])
                 /\ Len(reports') = 1 /\ wiped' = 0 /\ reports' # <<>>
                 /\ summary' \in [success : Nat, error : Nat, bytes : Nat]
                 /\ summary'.success + summary'.error = 1
                 /\ summary'.bytes = reports'[1].bytes
                 /\ reports'[1].outcome = (IF success THEN "success" ELSE "error")
<1>1. CASE settled
  BY <1>1 DEF Finish
<1>2. CASE ~settled
  <2> DEFINE outcome == IF success THEN "success" ELSE "error"
  <2>1. settled' = TRUE /\ Observe(outcome, 0) /\ outcome \in {"success", "error"}
    BY <1>2 DEF Finish
  <2> HIDE DEF outcome
  <2>2. /\ reports' \in Seq([outcome : {"success", "error"}, bytes : Nat])
        /\ Len(reports') = 1 /\ wiped' = 0 /\ reports' # <<>>
        /\ summary' \in [success : Nat, error : Nat, bytes : Nat]
        /\ summary'.success + summary'.error = 1
        /\ summary'.bytes = reports'[1].bytes
        /\ reports'[1].outcome = outcome
    BY <1>2, <2>1, Reported
  <2> QED
    BY <1>2, <2>1, <2>2 DEF outcome
<1> QED
  BY <1>1, <1>2

----------------------------------------------------------------------------
(* the steps *)

\* What every step keeps.
LEMMA Kept ==
    ASSUME Admitted, Inv, UNCHANGED sourceVars
    PROVE  /\ Typed /\ StartOK /\ PlainOK /\ WholeOK /\ EndOK /\ HashOK /\ CountOK /\ ReportOK
           /\ hook' = hook /\ content' = content /\ ends' = ends
           /\ content \in Seq(Seq(Byte)) /\ All \in Seq(Byte) /\ Rest \in Seq(Byte)
           /\ All' = All /\ (taken' = taken => Rest' = Rest)
           /\ taken = Len(content) => Rest = <<>>
  BY RestFacts DEF Inv, sourceVars, All, Rest

LEMMA TickInv ==
    ASSUME Admitted, Inv, Tick
    PROVE  Inv'
<1> USE DEF sourceVars, innerVars, outerVars, clientVars, reportVars
<1>1. UNCHANGED sourceVars /\ taken' = taken
  BY DEF Tick
<1>2. /\ Typed /\ StartOK /\ PlainOK /\ WholeOK /\ EndOK /\ HashOK /\ CountOK /\ ReportOK
      /\ All' = All /\ Rest' = Rest
  BY <1>1, Kept
<1>3. Typed'
  BY <1>2 DEF Tick, Typed, Admitted
<1>4. StartOK' /\ EndOK' /\ ReportOK'
  BY <1>2 DEF Tick, StartOK, EndOK, ReportOK, Streams, LacksChecksum, Observes, End, Queue, IsOver
<1>5. PlainOK' /\ HashOK' /\ CountOK'
  BY <1>2 DEF Tick, PlainOK, HashOK, CountOK, Streams, LacksChecksum, Checks, Finalized
<1>6. WholeOK'
  BY <1>2 DEF Tick, WholeOK
<1> QED
  BY <1>3, <1>4, <1>5, <1>6 DEF Inv

LEMMA ResetInv ==
    ASSUME Admitted, Inv, Reset
    PROVE  Inv'
<1> USE DEF sourceVars, innerVars, outerVars, clientVars
<1>1. UNCHANGED sourceVars /\ taken' = taken
  BY DEF Reset
<1>2. /\ Typed /\ StartOK /\ PlainOK /\ WholeOK /\ EndOK /\ HashOK /\ CountOK /\ ReportOK
      /\ All' = All /\ Rest' = Rest
  BY <1>1, Kept
<1>3. Len(reports) \in 0 .. 1
  <2>1. Len(reports) \in Nat /\ Len(reports) + wiped \in 0 .. 1 /\ wiped \in 0 .. 1
    BY <1>2, LenProperties DEF ReportOK, Typed
  <2> QED
    BY <2>1
<1>4. Typed'
  BY <1>2, <1>3 DEF Reset, Typed
<1>5. StartOK' /\ EndOK'
  BY <1>2 DEF Reset, StartOK, EndOK, Streams, LacksChecksum, Observes, End, Queue
<1>6. PlainOK' /\ HashOK' /\ CountOK'
  BY <1>2 DEF Reset, PlainOK, HashOK, CountOK, Streams, LacksChecksum, Checks, Finalized
<1>7. WholeOK'
  BY <1>2 DEF Reset, WholeOK
<1>8. ReportOK'
  <2>1. /\ reports' = <<>> /\ Len(<<>>) = 0 /\ wiped' = Len(reports) /\ wiped = 0
        /\ summary' = NoSummary
    BY DEF Reset
  <2>2. reports' \in Seq([outcome : {"success", "error"}, bytes : Nat])
    BY <2>1
  <2>3. Len(reports') + wiped' = IF settled' THEN 1 ELSE 0
    BY <1>2, <1>3, <2>1 DEF Reset, ReportOK
  <2>4. /\ summary' \in [success : Nat, error : Nat, bytes : Nat]
        /\ summary'.success + summary'.error = Len(reports') /\ summary'.bytes = 0
    BY <2>1 DEF NoSummary
  <2> QED
    BY <1>2, <2>1, <2>2, <2>3, <2>4 DEF Reset, ReportOK, Observes, IsOver
<1> QED
  BY <1>4, <1>5, <1>6, <1>7, <1>8 DEF Inv

\* A report that is made now: what it says, and that it is the only one.
Fresh(outcome) ==
    /\ ~settled /\ settled'
    /\ reports' \in Seq([outcome : {"success", "error"}, bytes : Nat])
    /\ Len(reports') = 1 /\ wiped' = 0 /\ reports' # <<>>
    /\ summary' \in [success : Nat, error : Nat, bytes : Nat]
    /\ summary'.success + summary'.error = 1
    /\ summary'.bytes = reports'[1].bytes
    /\ reports'[1].outcome = outcome
    /\ hook.name = "Metrics" => reports'[1].bytes = bytes

LEMMA SettleIs ==
    ASSUME Typed, ReportOK, NEW outcome \in {"success", "error"}, Settle(outcome), wiped' = wiped
    PROVE  settled' /\ (UNCHANGED <<settled, reports, summary>> \/ Fresh(outcome))
<1>1. bytes \in Nat /\ wiped \in Nat /\ settled \in BOOLEAN
  BY DEF Typed
<1> QED
  BY <1>1, Settled DEF Fresh, Settle

LEMMA FinishIs ==
    ASSUME Typed, ReportOK, NEW success \in BOOLEAN, Finish(success), wiped' = wiped,
           hook.name = "Tracing"
    PROVE  /\ settled'
           /\ UNCHANGED <<settled, reports, summary>> \/ Fresh(IF success THEN "success" ELSE "error")
<1>1. wiped \in Nat /\ settled \in BOOLEAN
  BY DEF Typed
<1> QED
  BY <1>1, SpanFinished DEF Fresh, Finish

LEMMA MeasureIs ==
    ASSUME Admitted, Typed, ReportOK, NEW success \in BOOLEAN, Measure(success), wiped' = wiped
    PROVE  /\ Observes /\ (hook.plain \/ ~success) => settled'
           /\ \/ UNCHANGED <<settled, reports, summary>>
              \/ Fresh(IF success THEN "success" ELSE "error") /\ (hook.plain \/ ~success)
<1> DEFINE outcome == IF success THEN "success" ELSE "error"
<1>1. outcome \in {"success", "error"}
  OBVIOUS
<1>2. hook.plain \in BOOLEAN
  BY HookFacts
<1>3. CASE hook.name = "Metrics" /\ (hook.plain \/ ~success)
  <2>1. Settle(outcome)
    BY <1>2, <1>3 DEF Measure
  <2> HIDE DEF outcome
  <2>2. settled' /\ (UNCHANGED <<settled, reports, summary>> \/ Fresh(outcome))
    BY <1>1, <2>1, SettleIs
  <2> QED
    BY <1>3, <2>2 DEF outcome
<1>4. CASE hook.name = "Tracing" /\ (hook.plain \/ ~success)
  <2>1. Finish(success)
    BY <1>2, <1>4 DEF Measure
  <2> QED
    BY <1>4, <2>1, FinishIs
<1>5. CASE ~(Observes /\ (hook.plain \/ ~success))
  <2>1. UNCHANGED <<settled, reports, summary>>
    BY <1>2, <1>5 DEF Measure, Observes
  <2> QED
    BY <1>5, <2>1
<1> QED
  BY <1>3, <1>4, <1>5 DEF Observes

\* What has arrived has been counted.
LEMMA Counted ==
    ASSUME Admitted, Typed, WholeOK, CountOK, hook.name = "Metrics", ~hook.plain
    PROVE  bytes >= Len(given)
<1>1. PICK dropped \in Seq(Byte) : given \o (FlattenSeq(outer) \o (dropped \o Rest)) = All
  BY DEF WholeOK
<1>2. given \in Seq(Byte) /\ FlattenSeq(outer) \in Seq(Byte) /\ Rest \in Seq(Byte) /\ bytes \in Nat
  BY FlatIn, RestFacts, Zenon DEF Typed
<1>3. Len(All) = Len(given) + (Len(FlattenSeq(outer)) + (Len(dropped) + Len(Rest)))
  BY <1>1, <1>2
<1>4. bytes + Len(Rest) = Len(All)
  BY DEF CountOK
<1>5. /\ Len(given) \in Nat /\ Len(FlattenSeq(outer)) \in Nat /\ Len(dropped) \in Nat
      /\ Len(Rest) \in Nat /\ Len(All) \in Nat
  BY <1>2, <1>3, LenProperties
<1> QED
  BY <1>2, <1>3, <1>4, <1>5

\* What a report says.
SaysSuccess ==
    \/ taken = Len(content) /\ ends = "close"
    \/ hook.plain /\ inside = "ok"
    \/ hook.name = "Tracing" /\ consumer = "cancelled"
SaysError ==
    \/ inside = "failed" \/ consumer = "cancelled"
    \/ outerEnd = "failed" /\ ends = "fail" /\ outer = <<>>

\* A step that reports nothing, or one outcome that is true.
LEMMA ReportStep ==
    ASSUME ReportOK, UNCHANGED sourceVars, All' = All, wiped' = wiped,
           NEW outcome \in {"success", "error"},
           UNCHANGED <<settled, reports, summary>> \/ Fresh(outcome),
           inside' # "before",
           Observes /\ (IsOver' \/ outerEnd' # "open") => settled',
           hook.name = "Metrics" /\ innerEnd' = "closed" => settled',
           SaysSuccess => SaysSuccess',
           SaysError => SaysError' /\ (hook.name = "Metrics" => given' = given),
           Fresh(outcome) => IF outcome = "success"
                             THEN SaysSuccess' /\ (hook.name = "Metrics" => bytes = Len(All))
                             ELSE SaysError' /\ (hook.name = "Metrics" => bytes >= Len(given'))
    PROVE  ReportOK'
<1>1. hook' = hook /\ content' = content /\ ends' = ends
  BY DEF sourceVars
<1>2. CASE UNCHANGED <<settled, reports, summary>>
  BY <1>1, <1>2 DEF ReportOK, Observes, SaysSuccess, SaysError
<1>3. CASE Fresh(outcome)
  BY <1>1, <1>3 DEF Fresh, ReportOK, Observes, SaysSuccess, SaysError
<1> QED
  BY <1>2, <1>3

LEMMA NextEndsInv ==
    ASSUME Admitted, Inv, NextEnds
    PROVE  Inv'
<1> USE DEF sourceVars, innerVars, outerVars
<1>1. UNCHANGED sourceVars /\ taken' = taken
  BY DEF NextEnds
<1>2. /\ Typed /\ StartOK /\ PlainOK /\ WholeOK /\ EndOK /\ HashOK /\ CountOK /\ ReportOK
      /\ All' = All /\ Rest' = Rest /\ All \in Seq(Byte)
  BY <1>1, Kept
<1> USE HookFacts
<1>3. Typed'
  <2>1. settled' \in BOOLEAN
    BY <1>2 DEF NextEnds, Measure, Settle, Finish, Typed
  <2> QED
    BY <1>2, <2>1 DEF NextEnds, Typed
<1>4. StartOK'
  BY <1>2 DEF NextEnds, StartOK, Streams, LacksChecksum
<1>5. PlainOK'
  BY <1>2 DEF NextEnds, PlainOK, LacksChecksum, Checks, Finalized
<1>6. WholeOK'
  BY <1>2 DEF NextEnds, WholeOK
<1>7. EndOK'
  BY <1>2 DEF NextEnds, EndOK, PlainOK, StartOK, Streams, Observes, End, Queue
<1>8. HashOK' /\ CountOK'
  BY <1>2 DEF NextEnds, HashOK, CountOK, Streams, LacksChecksum, Checks, Finalized
<1>9. ReportOK'
  <2>1. PICK success \in BOOLEAN :
           /\ Measure(success)
           /\ inside' = IF success THEN "ok" ELSE "failed"
           /\ hook.plain => IF success THEN given' = All ELSE given' = given /\ consumer' = "failed"
           /\ ~hook.plain => given' = given /\ consumer' = consumer
    BY <1>2 DEF NextEnds
  <2> DEFINE outcome == IF success THEN "success" ELSE "error"
  <2>2. /\ Observes /\ (hook.plain \/ ~success) => settled'
        /\ \/ UNCHANGED <<settled, reports, summary>>
           \/ Fresh(outcome) /\ (hook.plain \/ ~success)
    <3>1. wiped' = wiped
      BY DEF NextEnds
    <3> QED
      <4>1. /\ Observes /\ (hook.plain \/ ~success) => settled'
            /\ \/ UNCHANGED <<settled, reports, summary>>
               \/ Fresh(IF success THEN "success" ELSE "error") /\ (hook.plain \/ ~success)
        BY <1>2, <2>1, <3>1, MeasureIs, Zenon
      <4> QED
        BY <4>1, Zenon
  <2>3. outcome \in {"success", "error"} /\ (outcome = "success" <=> success)
    OBVIOUS
  <2>4. /\ inside = "running" /\ wiped' = wiped /\ bytes' = bytes /\ UNCHANGED sourceVars
        /\ innerEnd' = innerEnd /\ outerEnd' = outerEnd /\ outer' = outer /\ inner' = inner
    BY DEF NextEnds
  <2> HIDE DEF outcome
  <2>5. inside' # "before"
    BY <2>1
  <2>6. Observes /\ (IsOver' \/ outerEnd' # "open") => settled'
    BY <1>2, <2>1, <2>2, <2>4 DEF ReportOK, IsOver, PlainOK, StartOK, Streams
  <2>7. hook.name = "Metrics" /\ innerEnd' = "closed" => settled'
    BY <1>2, <2>2, <2>4 DEF ReportOK, Fresh
  <2>8. SaysSuccess => SaysSuccess'
    BY <1>1, <1>2, <2>1, <2>4 DEF SaysSuccess, PlainOK
  <2>9. SaysError => SaysError' /\ (hook.name = "Metrics" => given' = given)
    BY <1>2, <2>1, <2>4 DEF SaysError, PlainOK, StartOK, Streams
  <2>10. Fresh(outcome) => IF outcome = "success"
                           THEN SaysSuccess' /\ (hook.name = "Metrics" => bytes = Len(All))
                           ELSE SaysError' /\ (hook.name = "Metrics" => bytes >= Len(given'))
    <3>1. CASE success /\ Fresh(outcome)
      BY <1>2, <2>1, <2>2, <2>3, <2>4, <3>1 DEF SaysSuccess, PlainOK, Fresh
    <3>2. CASE ~success /\ hook.plain
      <4>1. given' = <<>> /\ Len(<<>>) = 0
        BY <1>2, <2>1, <2>4, <3>2 DEF PlainOK
      <4> QED
        BY <1>2, <2>1, <2>3, <2>4, <3>2, <4>1 DEF SaysError, Typed
    <3>3. CASE ~success /\ ~hook.plain
      <4>1. hook.name = "Metrics" => bytes >= Len(given')
        BY <1>2, <2>1, <3>3, Counted
      <4> QED
        BY <2>1, <2>3, <3>3, <4>1 DEF SaysError
    <3>4. CASE success /\ ~Fresh(outcome)
      BY <3>4
    <3> QED
      BY <3>1, <3>2, <3>3, <3>4
  <2> QED
    BY <1>2, <2>2, <2>3, <2>4, <2>5, <2>6, <2>7, <2>8, <2>9, <2>10, ReportStep
<1> QED
  BY <1>3, <1>4, <1>5, <1>6, <1>7, <1>8, <1>9 DEF Inv

\* A chunk that is taken is the first of what is still to come.
LEMMA Taken ==
    ASSUME Admitted, Typed, taken < Len(content), content' = content, taken' = taken + 1
    PROVE  /\ content[taken + 1] \in Seq(Byte) /\ Rest \in Seq(Byte) /\ Rest' \in Seq(Byte)
           /\ Rest = content[taken + 1] \o Rest'
           /\ taken' \in 0 .. Len(content)
<1>1. content \in Seq(Seq(Byte)) /\ taken \in 0 .. Len(content) /\ Rest \in Seq(Byte)
  BY RestFacts DEF Typed
<1>2. taken + 1 \in 0 .. Len(content)
  BY <1>1
<1>3. Rest' = FlattenSeq(SubSeq(content, (taken + 1) + 1, Len(content)))
  BY DEF Rest
<1>4. Rest' \in Seq(Byte)
  BY <1>1, <1>2, <1>3, RestIn, Zenon
<1>5. content[taken + 1] \in Seq(Byte) /\ Rest = content[taken + 1] \o Rest'
  BY <1>1, <1>3, RestOfMore, Zenon DEF Rest
<1> QED
  BY <1>1, <1>2, <1>4, <1>5, Zenon

LEMMA FlushInv ==
    ASSUME Admitted, Inv, Flush
    PROVE  Inv'
<1> USE DEF sourceVars, outerVars, clientVars
<1>1. UNCHANGED sourceVars /\ taken' = taken
  BY DEF Flush
<1>2. /\ Typed /\ StartOK /\ PlainOK /\ WholeOK /\ EndOK /\ HashOK /\ CountOK /\ ReportOK
      /\ All' = All /\ Rest' = Rest /\ All \in Seq(Byte) /\ Rest = <<>>
  BY <1>1, Kept DEF Flush
<1>3. /\ ~hook.plain /\ inside # "before" /\ ~LacksChecksum /\ innerEnd = "open" /\ told = 0
      /\ hook.name # "Tracing" /\ ends = "close" /\ taken = Len(content)
      /\ outer' = outer /\ outerEnd' = outerEnd /\ wiped' = wiped /\ bytes' = bytes
      /\ inside' = inside /\ given' = given /\ consumer' = consumer /\ hashed' = hashed
  BY <1>2 DEF Flush, Streams, Transforms, HashOK
<1>4. hashed \in Seq(Byte) /\ (Checks => hashed = All)
  <2>1. hashed \in Seq(Byte)
    BY <1>2 DEF Typed
  <2>2. ASSUME Checks PROVE hashed = All
    <3>1. hashed \o <<>> = All
      BY <1>1, <1>2, <1>3, <2>2 DEF HashOK, Streams
    <3> QED
      BY <2>1, <3>1
  <2> QED
    BY <2>1, <2>2
<1> USE HookFacts
<1>5. Typed'
  <2>1. settled' \in BOOLEAN
    BY <1>2 DEF Flush, Settle, Typed
  <2>2. told' \in 0 .. 1 /\ inner' \in Seq(Seq(Byte))
    BY <1>1, <1>2, <1>3 DEF Flush, Typed
  <2> QED
    BY <1>2, <2>1, <2>2 DEF Flush, Typed
<1>6. StartOK' /\ PlainOK'
  BY <1>1, <1>2, <1>3 DEF StartOK, PlainOK, Streams, LacksChecksum
<1>7. WholeOK'
  BY <1>1, <1>2, <1>3 DEF Flush, WholeOK
<1>8. EndOK'
  BY <1>1, <1>2, <1>3 DEF Flush, EndOK, Checks, Observes, End, Queue
<1>9. HashOK'
  <2>1. hashed' \o Rest' = hashed \o Rest
    BY <1>2, <1>3
  <2>2. Streams' /\ Checks' => hashed' \o Rest' = All'
    BY <1>1, <1>2, <1>3, <2>1 DEF HashOK, Streams, LacksChecksum, Checks
  <2>3. CASE Checks
    <3>1. hashed = All
      BY <1>4, <2>3
    <3>2. /\ innerEnd' = IF Finalized(All).fails THEN "failed" ELSE "closed"
          /\ told' = IF Finalized(All).told THEN 1 ELSE 0
      BY <1>3, <2>3, <3>1 DEF Flush
    <3>3. Finalized(All)' = Finalized(All)
      BY <1>1, <1>2 DEF Finalized
    <3>4. Finalized(All).told => hook.expected \in {None, All}
      BY DEF Finalized
    <3>5. ~Finalized(All).fails => (hook.onHash # "none" => Finalized(All).told)
      BY DEF Finalized
    <3> QED
      BY <1>1, <1>2, <1>3, <2>2, <3>1, <3>2, <3>3, <3>4, <3>5 DEF HashOK
  <2>4. CASE ~Checks
    <3>1. told' = told /\ ~Checks'
      BY <1>1, <2>4 DEF Flush, Checks
    <3> QED
      BY <1>1, <1>2, <1>3, <2>2, <3>1 DEF HashOK
  <2> QED
    BY <2>3, <2>4
<1>10. CountOK'
  BY <1>1, <1>2, <1>3 DEF CountOK
<1>11. ReportOK'
  <2>1. IF hook.name = "Metrics" THEN Settle("success") ELSE UNCHANGED <<settled, reports, summary>>
    BY DEF Flush
  <2>2. /\ UNCHANGED <<settled, reports, summary>> \/ Fresh("success")
        /\ hook.name = "Metrics" => settled'
    BY <1>1, <1>2, <1>3, <2>1, SettleIs
  <2>3. Observes /\ (IsOver' \/ outerEnd' # "open") => settled'
    BY <1>1, <1>2, <1>3, <2>2 DEF ReportOK, Fresh, IsOver
  <2>4. hook.name = "Metrics" => bytes = Len(All)
    BY <1>1, <1>2, <1>3 DEF CountOK, Typed
  <2> QED
    BY <1>1, <1>2, <1>3, <2>2, <2>3, <2>4, ReportStep DEF SaysSuccess, SaysError
<1> QED
  BY <1>5, <1>6, <1>7, <1>8, <1>9, <1>10, <1>11 DEF Inv

LEMMA SourceFailsInv ==
    ASSUME Admitted, Inv, SourceFails
    PROVE  Inv'
<1> USE DEF sourceVars, outerVars, clientVars, reportVars
<1>1. UNCHANGED sourceVars /\ taken' = taken
  BY DEF SourceFails
<1>2. /\ Typed /\ StartOK /\ PlainOK /\ WholeOK /\ EndOK /\ HashOK /\ CountOK /\ ReportOK
      /\ All' = All /\ Rest' = Rest
  BY <1>1, Kept
<1> USE HookFacts
<1>3. Typed'
  BY <1>2 DEF SourceFails, Typed
<1>4. StartOK' /\ PlainOK' /\ WholeOK'
  BY <1>2 DEF SourceFails, StartOK, PlainOK, WholeOK, Streams, LacksChecksum
<1>5. EndOK'
  BY <1>2 DEF SourceFails, EndOK, Transforms, Observes, End, Queue
<1>6. HashOK' /\ CountOK'
  BY <1>2 DEF SourceFails, HashOK, CountOK, Streams, LacksChecksum, Checks, Finalized
<1>7. ReportOK'
  BY <1>2 DEF SourceFails, ReportOK, Observes, IsOver
<1> QED
  BY <1>3, <1>4, <1>5, <1>6, <1>7 DEF Inv

LEMMA TransformInv ==
    ASSUME Admitted, Inv, Transform
    PROVE  Inv'
<1> USE DEF sourceVars, outerVars, clientVars
<1>1. UNCHANGED sourceVars /\ taken < Len(content) /\ taken' = taken + 1
  BY DEF Transform
<1>2. /\ Typed /\ StartOK /\ PlainOK /\ WholeOK /\ EndOK /\ HashOK /\ CountOK /\ ReportOK
      /\ All' = All /\ All \in Seq(Byte)
  BY <1>1, Kept
<1> DEFINE chunk == content[taken + 1]
<1>3. /\ chunk \in Seq(Byte) /\ Rest \in Seq(Byte) /\ Rest' \in Seq(Byte)
      /\ Rest = chunk \o Rest' /\ taken' \in 0 .. Len(content)
  BY <1>1, <1>2, Taken
<1>4. /\ ~hook.plain /\ inside # "before" /\ ~LacksChecksum /\ innerEnd = "open" /\ inner = <<>>
      /\ hook.name # "Tracing" /\ told = 0
      /\ told' = told /\ outer' = outer /\ outerEnd' = outerEnd /\ wiped' = wiped
      /\ inside' = inside /\ given' = given /\ consumer' = consumer /\ now' = now
      /\ UNCHANGED <<settled, reports, summary>>
      /\ innerEnd' = IF Refuses(chunk) THEN "failed" ELSE "open"
      /\ bytes' = IF hook.name = "Metrics" THEN bytes + Len(chunk) ELSE bytes
  BY <1>2 DEF Transform, Streams, Transforms, HashOK, AfterRefusal
<1>5. /\ Checks => inner' = Pieces(chunk) /\ hashed' = hashed \o FlattenSeq(Pieces(chunk))
      /\ ~Checks => /\ inner' = (IF Refuses(chunk) THEN <<>> ELSE <<chunk>>)
                    /\ hashed' = hashed
      /\ Checks => ~Refuses(chunk)
      /\ Refuses(chunk) => hook.name = "Expiry"
  BY DEF Transform, Hash, Checks, Refuses
<1>6. Pieces(chunk) \in Seq(Seq(Byte)) /\ FlattenSeq(Pieces(chunk)) = chunk
  <2> HIDE DEF chunk
  <2> QED
    BY <1>3, PiecesAre, Zenon
<1>7. <<chunk>> \in Seq(Seq(Byte)) /\ FlattenSeq(<<chunk>>) = chunk
  <2> HIDE DEF chunk
  <2>1. <<chunk>> \in Seq(Seq(Byte))
    BY <1>3
  <2> QED
    BY <1>3, <2>1, FlatOne, Zenon
<1> HIDE DEF chunk
<1>8. hashed \in Seq(Byte) /\ given \in Seq(Byte) /\ bytes \in Nat /\ FlattenSeq(outer) \in Seq(Byte)
  BY <1>2, FlatIn DEF Typed
<1>9. /\ inner' \in Seq(Seq(Byte)) /\ hashed' \in Seq(Byte)
      /\ ~Refuses(chunk) => FlattenSeq(inner') = chunk
      /\ Refuses(chunk) => inner' = <<>>
      /\ Checks => hashed' = hashed \o chunk
  <2>1. CASE Checks
    <3>1. hashed \o chunk \in Seq(Byte)
      BY <1>3, <1>8
    <3> QED
      BY <1>5, <1>6, <2>1, <3>1, Zenon
  <2>2. CASE ~Checks
    <3>1. <<>> \in Seq(Seq(Byte))
      OBVIOUS
    <3> QED
      BY <1>5, <1>7, <1>8, <2>2, <3>1, Zenon
  <2> QED
    BY <2>1, <2>2
<1> USE HookFacts
<1>10. Typed'
  BY <1>1, <1>2, <1>3, <1>4, <1>8, <1>9 DEF Typed
<1>11. StartOK' /\ PlainOK'
  BY <1>1, <1>2, <1>4 DEF StartOK, PlainOK, Streams, LacksChecksum
<1>12. WholeOK'
  <2>1. PICK dropped \in Seq(Byte) :
          /\ given \o (FlattenSeq(outer) \o (dropped \o Rest)) = All
          /\ dropped = FlattenSeq(inner)
    BY <1>2, <1>4 DEF WholeOK
  <2>2. dropped = <<>>
    BY <1>4, <2>1, FlatEmpty, Zenon
  <2>3. dropped \o Rest = chunk \o Rest'
    BY <1>3, <2>2
  <2>4. given \o (FlattenSeq(outer) \o (chunk \o Rest')) = All
    BY <2>1, <2>3, Zenon
  <2>5. innerEnd' \in {"open", "closed"} => chunk = FlattenSeq(inner')
    BY <1>4, <1>9
  <2>6. given' \o (FlattenSeq(outer)' \o (chunk \o Rest')) = All'
    BY <1>2, <1>4, <2>4, Zenon
  <2> QED
    BY <1>3, <2>5, <2>6, Zenon DEF WholeOK
<1>13. EndOK'
  BY <1>1, <1>2, <1>4, <1>5, <1>9 DEF EndOK, Observes, End, Queue
<1>14. HashOK'
  <2>1. Streams' /\ Checks' => hashed' \o Rest' = All'
    <3> SUFFICES ASSUME Checks PROVE hashed' \o Rest' = All
      BY <1>1, <1>2 DEF Checks
    <3>1. hashed \o (chunk \o Rest') = All
      BY <1>2, <1>3, <1>4 DEF HashOK, Streams
    <3>2. Regroups(Byte, hashed, chunk, Rest')
      BY <1>3, <1>8, Regroup, Zenon
    <3> QED
      <4>1. (hashed \o chunk) \o Rest' = All
        BY <1>3, <1>8, <3>1, <3>2, Zenon DEF Regroups
      <4>2. hashed' = hashed \o chunk
        BY <1>9
      <4> QED
        BY <4>1, <4>2, Zenon
  <2> QED
    BY <1>1, <1>2, <1>4, <2>1 DEF HashOK
<1>15. CountOK'
  <2>1. hook.name = "Metrics" => bytes + Len(Rest) = Len(All)
    BY <1>2, <1>4 DEF CountOK
  <2>2. Len(Rest) = Len(chunk) + Len(Rest') /\ Len(chunk) \in Nat /\ Len(Rest') \in Nat
    BY <1>3
  <2>3. hook.name = "Metrics" => bytes' + Len(Rest') = Len(All)
    BY <1>4, <1>8, <2>1, <2>2
  <2> QED
    BY <1>1, <1>2, <2>3 DEF CountOK
<1>16. ReportOK'
  <2>1. Observes /\ (IsOver' \/ outerEnd' # "open") => settled'
    BY <1>2, <1>4 DEF ReportOK, IsOver
  <2>2. ~Fresh("success")
    BY <1>4 DEF Fresh
  <2>3. (SaysSuccess => SaysSuccess') /\ (SaysError => SaysError')
    BY <1>1, <1>4 DEF SaysSuccess, SaysError
  <2>4. hook.name = "Metrics" /\ innerEnd' = "closed" => settled'
    BY <1>4
  <2> QED
    BY <1>1, <1>2, <1>4, <2>1, <2>2, <2>3, <2>4, ReportStep
<1> QED
  BY <1>10, <1>11, <1>12, <1>13, <1>14, <1>15, <1>16 DEF Inv

\* The first chunk of a queue moves on.
LEMMA HeadMoves ==
    ASSUME NEW q \in Seq(Seq(Byte)), q # <<>>
    PROVE  /\ Head(q) \in Seq(Byte) /\ Tail(q) \in Seq(Seq(Byte))
           /\ <<Head(q)>> \in Seq(Seq(Byte)) /\ FlattenSeq(<<Head(q)>>) = Head(q)
           /\ FlattenSeq(q) \in Seq(Byte) /\ FlattenSeq(Tail(q)) \in Seq(Byte)
           /\ FlattenSeq(q) = Head(q) \o FlattenSeq(Tail(q))
<1>1. Head(q) \in Seq(Byte) /\ Tail(q) \in Seq(Seq(Byte))
  OBVIOUS
<1>2. <<Head(q)>> \in Seq(Seq(Byte)) /\ FlattenSeq(<<Head(q)>>) = Head(q)
  <2> DEFINE h == Head(q)
  <2>1. h \in Seq(Byte)
    BY <1>1
  <2> HIDE DEF h
  <2>2. <<h>> \in Seq(Seq(Byte))
    BY <2>1
  <2>3. FlattenSeq(<<h>>) = h
    BY <2>1, FlatOne, Zenon
  <2> QED
    BY <2>2, <2>3, Zenon DEF h
<1>3. FlattenSeq(q) \in Seq(Byte) /\ FlattenSeq(Tail(q)) \in Seq(Byte)
  BY <1>1, FlatIn, Zenon
<1>4. FlattenSeq(q) = Head(q) \o FlattenSeq(Tail(q))
  BY FlatHead, Zenon
<1> QED
  BY <1>1, <1>2, <1>3, <1>4

LEMMA PullMetricsInv ==
    ASSUME Admitted, Inv, PullMetrics
    PROVE  Inv'
<1> USE DEF sourceVars, clientVars
<1>1. UNCHANGED sourceVars /\ taken' = taken
  BY DEF PullMetrics
<1>2. /\ Typed /\ StartOK /\ PlainOK /\ WholeOK /\ EndOK /\ HashOK /\ CountOK /\ ReportOK
      /\ All' = All /\ Rest' = Rest /\ All \in Seq(Byte) /\ Rest \in Seq(Byte)
  BY <1>1, Kept
<1>3. /\ ~hook.plain /\ inside # "before" /\ hook.name = "Metrics" /\ Observes
      /\ outerEnd = "open" /\ outer = <<>> /\ Streams /\ consumer # "done"
      /\ innerEnd' = innerEnd /\ hashed' = hashed /\ told' = told /\ now' = now /\ wiped' = wiped
      /\ inside' = inside /\ given' = given /\ consumer' = consumer /\ bytes' = bytes
  BY <1>2 DEF PullMetrics, Streams, Observes, EndOK, End
<1>4. inner \in Seq(Seq(Byte)) /\ given \in Seq(Byte) /\ FlattenSeq(<<>>) = <<>>
  BY <1>2, FlatEmpty DEF Typed
<1>5. ~Checks
  BY <1>3 DEF Checks
<1>6. StartOK' /\ PlainOK' /\ HashOK' /\ CountOK'
  BY <1>1, <1>2, <1>3, <1>5 DEF StartOK, PlainOK, HashOK, CountOK, Streams, LacksChecksum, Checks
<1>7. CASE /\ inner # <<>>
           /\ outer' = <<Head(inner)>> /\ inner' = Tail(inner)
           /\ UNCHANGED <<outerEnd, settled, reports, summary>>
  <2>1. /\ Head(inner) \in Seq(Byte) /\ inner' \in Seq(Seq(Byte)) /\ outer' \in Seq(Seq(Byte))
        /\ FlattenSeq(outer') = Head(inner) /\ FlattenSeq(inner') \in Seq(Byte)
        /\ FlattenSeq(inner) = Head(inner) \o FlattenSeq(inner')
    BY <1>4, <1>7, HeadMoves, Zenon
  <2>2. Typed'
    BY <1>1, <1>2, <1>3, <1>7, <2>1 DEF Typed
  <2>3. WholeOK'
    <3>1. innerEnd \in {"open", "closed"}
      BY <1>2, <1>7 DEF EndOK, Typed
    <3>2. given \o (<<>> \o (FlattenSeq(inner) \o Rest)) = All
      BY <1>2, <1>3, <1>4, <3>1 DEF WholeOK
    <3> DEFINE a == Head(inner)
               b == FlattenSeq(inner')
    <3>3. a \in Seq(Byte) /\ b \in Seq(Byte)
      BY <2>1
    <3>4. given \o (<<>> \o ((a \o b) \o Rest)) = All
      BY <2>1, <3>2, Zenon
    <3> HIDE DEF a, b
    <3>5. given \o (a \o (b \o Rest)) = All
      <4>1. (a \o b) \o Rest = a \o (b \o Rest)
        <5>1. Regroups(Byte, a, b, Rest)
          BY Regroup, Zenon
        <5> QED
          BY <1>2, <3>3, <5>1, Zenon DEF Regroups
      <4>2. a \o (b \o Rest) \in Seq(Byte)
        BY <1>2, <3>3
      <4>3. <<>> \o (a \o (b \o Rest)) = a \o (b \o Rest)
        BY <4>2
      <4> QED
        BY <3>4, <4>1, <4>3, Zenon
    <3>6. given' \o (FlattenSeq(outer') \o (b \o Rest')) = All'
      BY <1>2, <1>3, <2>1, <3>5, Zenon DEF a
    <3> QED
      BY <3>3, <3>6, Zenon DEF WholeOK, b
  <2>4. EndOK'
    BY <1>1, <1>2, <1>3, <1>7 DEF EndOK, Observes, End, Queue
  <2>5. ReportOK'
    <3>1. ~Fresh("error")
      BY <1>7 DEF Fresh
    <3>2. Observes /\ (IsOver' \/ outerEnd' # "open") => settled'
      BY <1>2, <1>3, <1>7 DEF ReportOK, IsOver
    <3>3. hook.name = "Metrics" /\ innerEnd' = "closed" => settled'
      BY <1>2, <1>3, <1>7 DEF ReportOK
    <3>4. (SaysSuccess => SaysSuccess') /\ (SaysError => SaysError')
      BY <1>1, <1>3, <1>7 DEF SaysSuccess, SaysError
    <3> QED
      BY <1>1, <1>2, <1>3, <1>7, <3>1, <3>2, <3>3, <3>4, ReportStep
  <2> QED
    BY <1>6, <2>2, <2>3, <2>4, <2>5 DEF Inv
<1>8. CASE inner = <<>> /\ outer' = outer /\ inner' = inner /\
           \/ /\ innerEnd = "closed" /\ outerEnd' = "closed"
              /\ UNCHANGED <<settled, reports, summary>>
           \/ /\ innerEnd = "failed" /\ outerEnd' = "failed" /\ Settle("error")
  <2>1. UNCHANGED <<settled, reports, summary>> \/ Fresh("error")
    BY <1>2, <1>3, <1>8, SettleIs
  <2>2. settled' /\ settled' \in BOOLEAN
    <3>1. CASE innerEnd = "closed" /\ UNCHANGED <<settled, reports, summary>>
      BY <1>2, <1>3, <3>1 DEF ReportOK, Typed
    <3>2. CASE Settle("error")
      BY <1>2, <3>2 DEF Settle, Typed
    <3> QED
      BY <1>8, <3>1, <3>2
  <2>3. Typed'
    BY <1>1, <1>2, <1>3, <1>8, <2>2 DEF Typed
  <2>4. WholeOK'
    BY <1>2, <1>3, <1>8 DEF WholeOK
  <2>5. EndOK'
    BY <1>1, <1>2, <1>3, <1>8 DEF EndOK, Observes, End, Queue
  <2>6. ReportOK'
    <3>1. SaysSuccess => SaysSuccess'
      BY <1>1, <1>3, <1>8 DEF SaysSuccess
    <3>2. SaysError => SaysError'
      BY <1>1, <1>3, <1>8 DEF SaysError
    <3>3. Fresh("error") => SaysError' /\ bytes >= Len(given')
      <4>1. bytes >= Len(given')
        BY <1>2, <1>3, Counted
      <4>2. Fresh("error") => innerEnd = "failed" /\ outerEnd' = "failed"
        BY <1>8 DEF Fresh
      <4> QED
        BY <1>1, <1>2, <1>3, <1>8, <4>1, <4>2 DEF SaysError, EndOK
    <3> QED
      BY <1>1, <1>2, <1>3, <1>8, <2>1, <2>2, <3>1, <3>2, <3>3, ReportStep
  <2> QED
    BY <1>6, <2>3, <2>4, <2>5, <2>6 DEF Inv
<1> QED
  BY <1>7, <1>8 DEF PullMetrics

LEMMA PullTracingInv ==
    ASSUME Admitted, Inv, PullTracing
    PROVE  Inv'
<1> USE DEF sourceVars, clientVars
<1>1. UNCHANGED sourceVars
  BY DEF PullTracing
<1>2. /\ Typed /\ StartOK /\ PlainOK /\ WholeOK /\ EndOK /\ HashOK /\ CountOK /\ ReportOK
      /\ All' = All /\ All \in Seq(Byte) /\ Rest \in Seq(Byte)
      /\ (taken' = taken => Rest' = Rest)
  BY <1>1, Kept
<1>3. /\ ~hook.plain /\ inside # "before" /\ hook.name = "Tracing" /\ Observes
      /\ outerEnd = "open" /\ outer = <<>> /\ Streams /\ consumer # "done"
      /\ inner = <<>> /\ innerEnd = "open" /\ inner' = inner
      /\ innerEnd' = innerEnd /\ hashed' = hashed /\ told' = told /\ now' = now /\ wiped' = wiped
      /\ inside' = inside /\ given' = given /\ consumer' = consumer /\ bytes' = bytes
  BY <1>2 DEF PullTracing, Streams, Observes, EndOK, End
<1>4. ~Checks
  BY <1>3 DEF Checks
<1>5. StartOK' /\ PlainOK' /\ CountOK'
  BY <1>1, <1>2, <1>3 DEF StartOK, PlainOK, CountOK, Streams, LacksChecksum
<1>6. HashOK'
  BY <1>1, <1>2, <1>3, <1>4 DEF HashOK, Streams, LacksChecksum, Checks
<1>7. given \in Seq(Byte) /\ FlattenSeq(<<>>) = <<>> /\ given \o (<<>> \o (<<>> \o Rest)) = All
  BY <1>2, <1>3, FlatEmpty DEF WholeOK, Typed
<1>8. given \o Rest = All
  BY <1>2, <1>7
<1>9. CASE /\ taken < Len(content)
           /\ outer' = <<content[taken + 1]>> /\ taken' = taken + 1
           /\ UNCHANGED <<outerEnd, settled, reports, summary>>
  <2> DEFINE chunk == content[taken + 1]
  <2>1. /\ chunk \in Seq(Byte) /\ Rest' \in Seq(Byte)
        /\ Rest = chunk \o Rest' /\ taken' \in 0 .. Len(content)
    BY <1>1, <1>2, <1>9, Taken
  <2>2. outer' = <<chunk>>
    BY <1>9
  <2> HIDE DEF chunk
  <2>3. outer' \in Seq(Seq(Byte)) /\ FlattenSeq(outer') = chunk
    <3>1. <<chunk>> \in Seq(Seq(Byte))
      BY <2>1
    <3> QED
      BY <2>1, <2>2, <3>1, FlatOne, Zenon
  <2>4. Typed'
    BY <1>1, <1>2, <1>3, <1>9, <2>1, <2>3 DEF Typed
  <2>5. WholeOK'
    <3>1. <<>> \o Rest' = Rest' /\ <<>> \in Seq(Byte)
      BY <2>1
    <3>2. given' \o (FlattenSeq(outer') \o (<<>> \o Rest')) = All'
      BY <1>2, <1>3, <1>8, <2>1, <2>3, <3>1, Zenon
    <3>3. FlattenSeq(inner') = <<>>
      BY <1>3, <1>7, Zenon
    <3> QED
      BY <3>1, <3>2, <3>3, Zenon DEF WholeOK
  <2>6. EndOK'
    BY <1>1, <1>2, <1>3, <1>9 DEF EndOK, Observes, End, Queue
  <2>7. ReportOK'
    <3>1. ~Fresh("error")
      BY <1>9 DEF Fresh
    <3>2. IsOver' \/ outerEnd' # "open" => settled'
      BY <1>2, <1>3, <1>9 DEF ReportOK, IsOver
    <3>3. (SaysSuccess => SaysSuccess') /\ (SaysError => SaysError')
      BY <1>1, <1>2, <1>3, <1>9 DEF SaysSuccess, SaysError, Typed
    <3> QED
      BY <1>1, <1>2, <1>3, <1>9, <3>1, <3>2, <3>3, ReportStep
  <2> QED
    BY <1>5, <1>6, <2>4, <2>5, <2>6, <2>7 DEF Inv
<1>10. CASE /\ taken >= Len(content) /\ outer' = outer /\ taken' = taken
            /\ outerEnd' = IF ends = "close" THEN "closed" ELSE "failed"
            /\ Finish(ends = "close")
  <2> DEFINE outcome == IF ends = "close" THEN "success" ELSE "error"
  <2>1. settled' /\ (UNCHANGED <<settled, reports, summary>> \/ Fresh(outcome))
    <3>1. (ends = "close") \in BOOLEAN
      OBVIOUS
    <3> QED
      BY <1>2, <1>3, <1>10, <3>1, FinishIs
  <2>2. outcome \in {"success", "error"} /\ (outcome = "success" <=> ends = "close")
    OBVIOUS
  <2> HIDE DEF outcome
  <2>3. taken = Len(content) /\ content \in Seq(Seq(Byte))
    BY <1>2, <1>10, RestFacts DEF Typed
  <2>4. Typed'
    <3>1. settled' \in BOOLEAN
      BY <1>2, <1>10 DEF Finish, Typed
    <3> QED
      BY <1>1, <1>2, <1>3, <1>10, <3>1 DEF Typed
  <2>5. WholeOK'
    BY <1>2, <1>3, <1>10 DEF WholeOK
  <2>6. EndOK'
    BY <1>1, <1>2, <1>3, <1>10, <2>3 DEF EndOK, Observes, End, Queue
  <2>7. ReportOK'
    <3>1. (SaysSuccess => SaysSuccess') /\ (SaysError => SaysError')
      BY <1>1, <1>2, <1>3, <1>10 DEF SaysSuccess, SaysError
    <3>2. IF outcome = "success" THEN SaysSuccess' ELSE SaysError'
      BY <1>1, <1>2, <1>3, <1>10, <2>2, <2>3 DEF SaysSuccess, SaysError, Typed
    <3> QED
      BY <1>1, <1>2, <1>3, <1>10, <2>1, <2>2, <3>1, <3>2, ReportStep
  <2> QED
    BY <1>5, <1>6, <2>4, <2>5, <2>6, <2>7 DEF Inv
<1>11. taken \in Nat /\ Len(content) \in Nat
  BY <1>2, RestFacts DEF Typed
<1> QED
  BY <1>9, <1>10, <1>11 DEF PullTracing

LEMMA TakeInv ==
    ASSUME Admitted, Inv, Take
    PROVE  Inv'
<1> USE DEF sourceVars, reportVars
<1>1. UNCHANGED sourceVars /\ taken' = taken
  BY DEF Take
<1>2. /\ Typed /\ StartOK /\ PlainOK /\ WholeOK /\ EndOK /\ HashOK /\ CountOK /\ ReportOK
      /\ All' = All /\ Rest' = Rest /\ All \in Seq(Byte) /\ Rest \in Seq(Byte)
  BY <1>1, Kept
<1>3. /\ ~hook.plain /\ inside = "ok" /\ consumer = "reading" /\ Streams
      /\ innerEnd' = innerEnd /\ outerEnd' = outerEnd /\ hashed' = hashed /\ told' = told
      /\ now' = now /\ inside' = inside /\ UNCHANGED reportVars
  BY <1>2 DEF Take, Streams
<1>4. /\ inner \in Seq(Seq(Byte)) /\ outer \in Seq(Seq(Byte)) /\ given \in Seq(Byte)
      /\ FlattenSeq(<<>>) = <<>>
      /\ FlattenSeq(outer) \in Seq(Byte) /\ FlattenSeq(inner) \in Seq(Byte)
  BY <1>2, FlatEmpty, FlatIn DEF Typed
<1>5. StartOK' /\ PlainOK' /\ CountOK'
  BY <1>1, <1>2, <1>3 DEF StartOK, PlainOK, CountOK, Streams, LacksChecksum
<1>6. HashOK'
  BY <1>1, <1>2, <1>3 DEF HashOK, Streams, LacksChecksum, Checks, Finalized
<1>7. CASE /\ Queue # <<>> /\ given' = given \o Head(Queue)
           /\ IF Observes THEN outer' = Tail(outer) /\ inner' = inner
              ELSE inner' = Tail(inner) /\ outer' = outer
           /\ consumer' = consumer
  <2>1. Queue \in Seq(Seq(Byte))
    BY <1>4 DEF Queue
  <2>2. /\ Head(Queue) \in Seq(Byte) /\ Tail(Queue) \in Seq(Seq(Byte))
        /\ FlattenSeq(Tail(Queue)) \in Seq(Byte)
        /\ FlattenSeq(Queue) = Head(Queue) \o FlattenSeq(Tail(Queue))
    BY <1>7, <2>1, HeadMoves, Zenon
  <2>3. given' \in Seq(Byte)
    BY <1>4, <1>7, <2>2
  <2>4. Typed'
    BY <1>1, <1>2, <1>3, <1>4, <1>7, <2>2, <2>3 DEF Typed, Queue
  <2> DEFINE h == Head(Queue)
             u == FlattenSeq(Tail(Queue))
  <2>5. h \in Seq(Byte) /\ u \in Seq(Byte) /\ given' = given \o h /\ FlattenSeq(Queue) = h \o u
    BY <1>7, <2>2, Zenon
  <2>6. PICK dropped \in Seq(Byte) :
          /\ given \o (FlattenSeq(outer) \o (dropped \o Rest)) = All
          /\ innerEnd \in {"open", "closed"} => dropped = FlattenSeq(inner)
    BY <1>2, <1>3 DEF WholeOK
  <2>7. ASSUME NEW r \in Seq(Byte), given \o (FlattenSeq(Queue) \o r) = All
        PROVE  given' \o (u \o r) = All
    <3> HIDE DEF h, u
    <3>1. Regroups(Byte, h, u, r) /\ Regroups(Byte, given, h, u \o r)
      BY Regroup, Zenon
    <3>2. u \o r \in Seq(Byte)
      BY <2>5
    <3>3. given \o (h \o (u \o r)) = All
      <4>1. (h \o u) \o r = h \o (u \o r)
        BY <2>5, <3>1, Zenon DEF Regroups
      <4> QED
        BY <2>5, <2>7, <4>1, Zenon
    <3> QED
      BY <1>4, <2>5, <3>1, <3>2, <3>3, Zenon DEF Regroups
  <2>8. CASE Observes
    <3>1. outer' = Tail(Queue) /\ inner' = inner /\ Queue = outer
      BY <1>7, <2>8 DEF Queue
    <3>2. dropped \o Rest \in Seq(Byte)
      BY <1>2
    <3>3. given' \o (u \o (dropped \o Rest)) = All
      BY <2>6, <2>7, <3>1, <3>2, Zenon
    <3>4. given' \o (FlattenSeq(outer') \o (dropped \o Rest')) = All'
      BY <1>2, <3>1, <3>3, Zenon
    <3>5. WholeOK'
      BY <1>3, <2>6, <3>1, <3>4, Zenon DEF WholeOK
    <3>6. EndOK'
      BY <1>1, <1>2, <1>3, <1>7, <2>8, <3>1 DEF EndOK, Observes, End, Queue
    <3>7. ReportOK'
      BY <1>1, <1>2, <1>3, <1>7, <2>8, <3>1 DEF ReportOK, Observes, IsOver
    <3> QED
      BY <1>5, <1>6, <2>4, <3>5, <3>6, <3>7 DEF Inv
  <2>9. CASE ~Observes
    <3>1. inner' = Tail(Queue) /\ outer' = outer /\ Queue = inner /\ outer = <<>>
      BY <1>2, <1>7, <2>9 DEF Queue, EndOK
    <3>2. innerEnd \in {"open", "closed"}
      BY <1>2, <1>7, <3>1 DEF EndOK, Typed
    <3>3. dropped = FlattenSeq(Queue) /\ FlattenSeq(outer) = <<>>
      BY <1>4, <2>6, <3>1, <3>2, Zenon
    <3>4. given \o (FlattenSeq(Queue) \o Rest) = All
      <4>1. dropped \o Rest \in Seq(Byte)
        BY <1>2
      <4>2. <<>> \o (dropped \o Rest) = dropped \o Rest
        BY <4>1
      <4> QED
        BY <2>6, <3>3, <4>2, Zenon
    <3>5. given' \o (u \o Rest) = All
      BY <1>2, <2>7, <3>4, Zenon
    <3>6. <<>> \o (u \o Rest) = u \o Rest
      <4> HIDE DEF u
      <4>1. u \o Rest \in Seq(Byte)
        BY <1>2, <2>5
      <4> QED
        BY <4>1
    <3>7. given' \o (FlattenSeq(outer') \o (FlattenSeq(inner') \o Rest')) = All'
      BY <1>2, <3>1, <3>3, <3>5, <3>6, Zenon
    <3>8. FlattenSeq(inner') \in Seq(Byte)
      BY <2>5, <3>1, Zenon
    <3>9. WholeOK'
      BY <3>7, <3>8, Zenon DEF WholeOK
    <3>10. EndOK'
      BY <1>1, <1>2, <1>3, <1>7, <2>9, <3>1 DEF EndOK, Observes, End, Queue
    <3>11. ReportOK'
      <4>1. hook.name # "Metrics" /\ ~Observes'
        BY <1>1, <2>9 DEF Observes
      <4> QED
        BY <1>1, <1>2, <1>3, <1>7, <3>1, <4>1 DEF ReportOK, IsOver
    <3> QED
      BY <1>5, <1>6, <2>4, <3>9, <3>10, <3>11 DEF Inv
  <2> QED
    BY <2>8, <2>9
<1>8. CASE /\ Queue = <<>> /\ End \in {"closed", "failed"}
           /\ consumer' = IF End = "closed" THEN "done" ELSE "failed"
           /\ UNCHANGED <<given, inner, outer>>
  <2>1. Typed' /\ WholeOK'
    BY <1>1, <1>2, <1>3, <1>8 DEF Typed, WholeOK
  <2>2. EndOK'
    BY <1>1, <1>2, <1>3, <1>8 DEF EndOK, Observes, End, Queue
  <2>3. ReportOK'
    BY <1>1, <1>2, <1>3, <1>8 DEF ReportOK, Observes, End, IsOver
  <2> QED
    BY <1>5, <1>6, <2>1, <2>2, <2>3 DEF Inv
<1> QED
  BY <1>7, <1>8 DEF Take

LEMMA CancelInv ==
    ASSUME Admitted, Inv, Cancel
    PROVE  Inv'
<1> USE DEF sourceVars
<1>1. UNCHANGED sourceVars /\ taken' = taken
  BY DEF Cancel
<1>2. /\ Typed /\ StartOK /\ PlainOK /\ WholeOK /\ EndOK /\ HashOK /\ CountOK /\ ReportOK
      /\ All' = All /\ Rest' = Rest /\ All \in Seq(Byte) /\ Rest \in Seq(Byte)
  BY <1>1, Kept
<1>3. /\ ~hook.plain /\ inside \in {"ok", "failed"} /\ consumer = "reading" /\ Streams
      /\ consumer' = "cancelled" /\ hashed' = hashed /\ told' = told /\ bytes' = bytes
      /\ now' = now /\ inside' = inside /\ given' = given /\ wiped' = wiped
  BY <1>2 DEF Cancel, Streams
<1>4. PlainOK' /\ CountOK'
  BY <1>1, <1>2, <1>3 DEF PlainOK, CountOK
<1>5. StartOK'
  BY <1>1, <1>2, <1>3 DEF StartOK, Streams, LacksChecksum
<1>6. CASE /\ inner' = <<>> /\ outer' = <<>>
           /\ innerEnd' = "cancelled" /\ outerEnd' = "cancelled"
           /\ hook.name = "Metrics" => Settle("error")
           /\ hook.name = "Tracing" => Finish(TRUE)
           /\ ~Observes => UNCHANGED <<settled, reports, summary>>
  <2> DEFINE outcome == IF hook.name = "Tracing" THEN "success" ELSE "error"
  <2>1. /\ Observes => settled'
        /\ UNCHANGED <<settled, reports, summary>> \/ (Observes /\ Fresh(outcome))
    <3>1. CASE hook.name = "Metrics"
      <4>1. settled' /\ (UNCHANGED <<settled, reports, summary>> \/ Fresh("error"))
        BY <1>2, <1>3, <1>6, <3>1, SettleIs
      <4>2. outcome = "error"
        BY <3>1
      <4> QED
        BY <3>1, <4>1, <4>2, Zenon DEF Observes
    <3>2. CASE hook.name = "Tracing"
      <4>1. settled' /\ (UNCHANGED <<settled, reports, summary>> \/ Fresh("success"))
        BY <1>2, <1>3, <1>6, <3>2, FinishIs
      <4>2. outcome = "success"
        BY <3>2
      <4> QED
        BY <3>2, <4>1, <4>2, Zenon DEF Observes
    <3>3. CASE ~Observes
      BY <1>6, <3>3, Zenon
    <3> QED
      BY <3>1, <3>2, <3>3 DEF Observes
  <2>2. /\ outcome \in {"success", "error"}
        /\ outcome = "success" <=> hook.name = "Tracing"
    OBVIOUS
  <2> HIDE DEF outcome
  <2>3. Typed'
    <3>1. settled' \in BOOLEAN
      BY <1>2, <2>1 DEF Typed, Fresh
    <3>2. <<>> \in Seq(Seq(Byte))
      OBVIOUS
    <3> QED
      BY <1>1, <1>2, <1>3, <1>6, <3>1, <3>2 DEF Typed
  <2>4. WholeOK'
    <3>1. PICK dropped \in Seq(Byte) : given \o (FlattenSeq(outer) \o (dropped \o Rest)) = All
      BY <1>2, <1>3 DEF WholeOK
    <3> DEFINE f == FlattenSeq(outer)
    <3>2. f \in Seq(Byte) /\ given \in Seq(Byte)
      BY <1>2, FlatIn DEF Typed
    <3>3. given \o (f \o (dropped \o Rest)) = All
      BY <3>1
    <3> HIDE DEF f
    <3>4. (f \o dropped) \o Rest = f \o (dropped \o Rest) /\ f \o dropped \in Seq(Byte)
      <4>1. Regroups(Byte, f, dropped, Rest)
        BY Regroup, Zenon
      <4>2. f \o dropped \in Seq(Byte)
        BY <3>2
      <4> QED
        BY <1>2, <3>2, <4>1, <4>2, Zenon DEF Regroups
    <3>5. <<>> \o ((f \o dropped) \o Rest) = (f \o dropped) \o Rest
      <4>1. (f \o dropped) \o Rest \in Seq(Byte)
        BY <1>2, <3>4
      <4> QED
        BY <4>1
    <3>6. given' \o (FlattenSeq(outer') \o ((f \o dropped) \o Rest')) = All'
      BY <1>2, <1>3, <1>6, <3>3, <3>4, <3>5, FlatEmpty, Zenon
    <3>7. innerEnd' \notin {"open", "closed"}
      BY <1>6
    <3> QED
      BY <3>4, <3>6, <3>7, Zenon DEF WholeOK
  <2>5. EndOK'
    BY <1>1, <1>2, <1>3, <1>6 DEF EndOK, Observes, End, Queue
  <2>6. HashOK'
    BY <1>1, <1>2, <1>3, <1>6 DEF HashOK, Streams, LacksChecksum, Checks, Finalized
  <2>7. ReportOK'
    <3>1. SaysSuccess => SaysSuccess'
      BY <1>1, <1>3 DEF SaysSuccess
    <3>2. SaysError'
      BY <1>3 DEF SaysError
    <3>3. hook.name = "Metrics" => bytes >= Len(given')
      BY <1>2, <1>3, Counted
    <3>4. hook.name = "Tracing" => SaysSuccess'
      BY <1>1, <1>3 DEF SaysSuccess
    <3>5. hook.name = "Metrics" /\ innerEnd' = "closed" => settled'
      BY <1>6
    <3> QED
      BY <1>1, <1>2, <1>3, <2>1, <2>2, <3>1, <3>2, <3>3, <3>4, <3>5, ReportStep
  <2> QED
    BY <1>4, <1>5, <2>3, <2>4, <2>5, <2>6, <2>7 DEF Inv
<1>7. CASE /\ End # "open" /\ Queue = <<>>
           /\ UNCHANGED <<inner, outer, innerEnd, outerEnd, settled, reports, summary>>
  <2>1. Typed' /\ WholeOK'
    BY <1>1, <1>2, <1>3, <1>7 DEF Typed, WholeOK
  <2>2. EndOK'
    BY <1>1, <1>2, <1>3, <1>7 DEF EndOK, Observes, End, Queue
  <2>3. HashOK'
    BY <1>1, <1>2, <1>3, <1>7 DEF HashOK, Streams, LacksChecksum, Checks, Finalized
  <2>4. ReportOK'
    BY <1>1, <1>2, <1>3, <1>7 DEF ReportOK, Observes, End, IsOver
  <2> QED
    BY <1>4, <1>5, <2>1, <2>2, <2>3, <2>4 DEF Inv
<1>8. ~Observes <=> hook.name \notin {"Metrics", "Tracing"}
  BY DEF Observes
<1> QED
  BY <1>6, <1>7, <1>8 DEF Cancel

LEMMA NextInv ==
    ASSUME Admitted, Inv, [Next]_vars
    PROVE  Inv'
<1>1. CASE UNCHANGED vars
  <2> USE <1>1 DEF vars, sourceVars, innerVars, outerVars, clientVars, reportVars
  <2>1. All' = All /\ Rest' = Rest
    BY DEF All, Rest
  <2>2. /\ Typed => Typed'
        /\ StartOK => StartOK'
    BY DEF Typed, StartOK, Streams, LacksChecksum
  <2>3. PlainOK => PlainOK'
    BY <2>1 DEF PlainOK, LacksChecksum, Checks, Finalized
  <2>4. WholeOK => WholeOK'
    BY <2>1 DEF WholeOK
  <2>5. EndOK => EndOK'
    BY DEF EndOK, Observes, End, Queue
  <2>6. HashOK => HashOK'
    BY <2>1 DEF HashOK, Streams, LacksChecksum, Checks, Finalized
  <2>7. CountOK => CountOK'
    BY <2>1 DEF CountOK
  <2>8. ReportOK => ReportOK'
    BY <2>1 DEF ReportOK, Observes, IsOver
  <2> QED
    BY <2>2, <2>3, <2>4, <2>5, <2>6, <2>7, <2>8 DEF Inv
<1>2. CASE Finished
  <2>1. UNCHANGED vars
    BY <1>2 DEF Finished
  <2> QED
    BY <1>1, <2>1
<1> QED
  BY <1>1, <1>2, BeginInv, NextEndsInv, TickInv, ResetInv, TransformInv, FlushInv, SourceFailsInv,
     PullMetricsInv, PullTracingInv, TakeInv, CancelInv DEF Next

----------------------------------------------------------------------------
(* the theorems *)

\* The inductive invariant of a hook: what of the content has arrived, is queued
\* and is still to come, how the queues end, and what was hashed, counted and
\* reported of it (Metrics, Tracing, Checksum, Expiry, Debug).
THEOREM Invariance ==
    ASSUME Admitted
    PROVE  Spec => []Inv
<1>1. Init => Inv
  BY InitInv
<1>2. Inv /\ [Next]_vars => Inv'
  BY NextInv
<1> QED
  BY <1>1, <1>2, PTL DEF Spec

\* Every variable keeps its type.
THEOREM TypeCorrect ==
    ASSUME Admitted
    PROVE  Spec => []TypeOK
<1>1. Inv => TypeOK
  BY DEF Inv, Typed, TypeOK
<1> QED
  BY <1>1, Invariance, PTL

\* One report at most, and one when the caller has learnt of the end: settle of
\* Metrics and finish of Tracing, which every end of an operation calls.
THEOREM ReportedOnceAlways ==
    ASSUME Admitted
    PROVE  Spec => []ReportedOnce
<1>1. Inv => ReportedOnce
  <2> SUFFICES ASSUME Inv, Observes
               PROVE  /\ Len(reports) + wiped <= 1
                      /\ IsOver => Len(reports) + wiped = 1
    BY DEF ReportedOnce
  <2>1. Len(reports) + wiped = IF settled THEN 1 ELSE 0
    BY DEF Inv, ReportOK
  <2>2. IsOver => settled
    BY DEF Inv, ReportOK
  <2> QED
    BY <2>1, <2>2
<1> QED
  BY <1>1, Invariance, PTL

LEMMA SumOfNone ==
    FoldSeq(LAMBDA r, sum : sum + r.bytes, 0, <<>>) = 0
<1> DEFINE iter == CHOOSE iter : iter = [s \in SUBSET {} |->
                     IF s = {} THEN 0
                     ELSE iter[s \ {CHOOSE x \in s : TRUE}] + <<>>[CHOOSE x \in s : TRUE].bytes]
<1>1. FoldSeq(LAMBDA r, sum : sum + r.bytes, 0, <<>>) = iter[{}]
  BY DEF FoldSeq, FoldFunction, FoldFunctionOnSet, MapThenFoldSet
<1> QED
  BY <1>1

LEMMA SumOfOne ==
    ASSUME NEW e, e.bytes \in Nat
    PROVE  FoldSeq(LAMBDA r, sum : sum + r.bytes, 0, <<e>>) = e.bytes
<1> DEFINE F(it) == [s \in SUBSET {1} |->
                       IF s = {} THEN 0
                       ELSE it[s \ {CHOOSE x \in s : TRUE}] + <<e>>[CHOOSE x \in s : TRUE].bytes]
           iter == CHOOSE it : it = F(it)
           g == [s \in SUBSET {1} |-> IF s = {} THEN 0 ELSE e.bytes]
<1>1. DOMAIN <<e>> = {1} /\ <<e>>[1] = e
  OBVIOUS
<1>2. FoldSeq(LAMBDA r, sum : sum + r.bytes, 0, <<e>>) = iter[{1}]
  BY <1>1 DEF FoldSeq, FoldFunction, FoldFunctionOnSet, MapThenFoldSet
<1>3. \A s \in SUBSET {1} : s # {} => s = {1} /\ (CHOOSE x \in s : TRUE) = 1
  OBVIOUS
<1>4. {1} \ {1} = {} /\ {} \in SUBSET {1} /\ {1} \in SUBSET {1}
  OBVIOUS
<1>5. ASSUME NEW s \in SUBSET {1}
      PROVE  F(g)[s] = g[s]
  BY <1>1, <1>3, <1>4
<1>6. g = F(g)
  BY <1>5
<1> HIDE DEF g, F
<1>7. iter = F(iter)
  BY <1>6, Zenon
<1> HIDE DEF iter
<1>8. iter[{}] = 0
  BY <1>4, <1>7 DEF F
<1>9. iter[{1}] = iter[{1} \ {CHOOSE x \in {1} : TRUE}] + <<e>>[CHOOSE x \in {1} : TRUE].bytes
  BY <1>4, <1>7 DEF F
<1>10. (CHOOSE x \in {1} : TRUE) = 1
  BY <1>3, <1>4
<1>11. iter[{1}] = iter[{}] + e.bytes
  BY <1>1, <1>4, <1>9, <1>10, Zenon
<1>12. iter[{1}] = e.bytes
  BY <1>8, <1>11
<1> QED
  BY <1>2, <1>12, Zenon

\* What is reported is what happened: a success only of what went well, with all
\* of its bytes, an error only of what did not, and the summary adds up.
THEOREM ReportsAreTrueAlways ==
    ASSUME Admitted
    PROVE  Spec => []ReportsAreTrue
<1>1. Inv => ReportsAreTrue
  <2> SUFFICES ASSUME Inv
               PROVE  ReportsAreTrue
    OBVIOUS
  <2>1. ReportOK /\ Typed
    BY DEF Inv
  <2>2. /\ reports \in Seq([outcome : {"success", "error"}, bytes : Nat])
        /\ Len(reports) \in Nat /\ Len(reports) + wiped = IF settled THEN 1 ELSE 0
        /\ wiped \in 0 .. 1
    BY <2>1, LenProperties DEF ReportOK, Typed
  <2>3. Len(reports) \in 0 .. 1
    <3> DEFINE n == Len(reports)
    <3>1. n + wiped <= 1
      BY <2>2
    <3>2. n \in Nat /\ wiped \in 0 .. 1
      BY <2>2
    <3> HIDE DEF n
    <3>3. n \in 0 .. 1
      BY <3>1, <3>2
    <3> QED
      BY <3>3 DEF n
  <2>4. summary.success + summary.error = Len(reports)
    BY <2>1 DEF ReportOK
  <2>5. summary.bytes = FoldSeq(LAMBDA r, sum : sum + r.bytes, 0, reports)
    <3>1. CASE reports = <<>>
      BY <2>1, <3>1, SumOfNone DEF ReportOK
    <3>2. CASE reports # <<>>
      <4>1. Len(reports) = 1
        BY <2>2, <2>3, <3>2
      <4> DEFINE e == reports[1]
      <4>2. reports = <<e>> /\ e.bytes \in Nat
        <5> DEFINE R == [outcome : {"success", "error"}, bytes : Nat]
        <5>1. reports \in Seq(R)
          BY <2>2
        <5>2. \A r \in R : r.bytes \in Nat
          OBVIOUS
        <5> HIDE DEF R
        <5>3. reports = <<reports[1]>> /\ reports[1] \in R
          BY <4>1, <5>1
        <5> QED
          BY <5>2, <5>3
      <4> HIDE DEF e
      <4>3. FoldSeq(LAMBDA r, sum : sum + r.bytes, 0, <<e>>) = e.bytes
        BY <4>2, SumOfOne
      <4>4. summary.bytes = e.bytes
        BY <2>1, <3>2 DEF ReportOK, e
      <4> QED
        BY <4>2, <4>3, <4>4
    <3> QED
      BY <3>1, <3>2
  <2>6. ASSUME NEW i \in DOMAIN reports
        PROVE  IF reports[i].outcome = "success"
               THEN /\ \/ taken = Len(content) /\ ends = "close"
                       \/ hook.plain /\ inside = "ok"
                       \/ hook.name = "Tracing" /\ consumer = "cancelled"
                    /\ hook.name = "Metrics" => reports[i].bytes = Len(All)
               ELSE /\ \/ inside = "failed" \/ ends = "fail" \/ consumer = "cancelled"
                    /\ hook.name = "Metrics" => reports[i].bytes >= Len(given)
    <3>1. i = 1 /\ reports # <<>>
      BY <2>2, <2>3
    <3> QED
      BY <2>1, <3>1 DEF ReportOK
  <2> QED
    BY <2>4, <2>5, <2>6 DEF ReportsAreTrue
<1> QED
  BY <1>1, Invariance, PTL

LEMMA AppendedPrefix ==
    ASSUME NEW B, NEW a \in Seq(B), NEW b \in Seq(B)
    PROVE  IsPrefix(a, a \o b)
  BY DEF IsPrefix

\* Nothing is lost, added or reordered, and a reader who sees the end has had all
\* of it: the queues of a TransformStream and of the stream a hook reads, in any
\* order of the source, the hook and the reader.
THEOREM StreamsArriveWholeAlways ==
    ASSUME Admitted
    PROVE  Spec => []StreamsArriveWhole
<1>1. Inv => StreamsArriveWhole
  <2> SUFFICES ASSUME Inv
               PROVE  StreamsArriveWhole
    OBVIOUS
  <2>1. Typed /\ StartOK /\ PlainOK /\ WholeOK /\ EndOK
    BY DEF Inv
  <2>2. /\ All \in Seq(Byte) /\ Rest \in Seq(Byte) /\ given \in Seq(Byte) /\ <<>> \in Seq(Byte)
        /\ taken = Len(content) => Rest = <<>>
    BY <2>1, RestFacts DEF Typed
  <2>3. CASE hook.plain
    <3>1. given = All \/ given = <<>>
      BY <2>1, <2>3 DEF PlainOK
    <3>2. given \o All = All \/ given \o <<>> = All
      BY <2>2, <3>1
    <3>3. IsPrefix(given, All)
      BY <2>2, <3>2, AppendedPrefix
    <3> QED
      BY <2>1, <2>3, <3>3 DEF PlainOK, StreamsArriveWhole
  <2>4. CASE ~hook.plain
    <3>1. PICK dropped \in Seq(Byte) :
            /\ given \o (FlattenSeq(outer) \o (dropped \o Rest)) = All
            /\ innerEnd \in {"open", "closed"} => dropped = FlattenSeq(inner)
      BY <2>1, <2>4 DEF WholeOK
    <3>2. FlattenSeq(outer) \in Seq(Byte) /\ FlattenSeq(<<>>) = <<>>
      BY <2>1, FlatIn, FlatEmpty DEF Typed
    <3>3. FlattenSeq(outer) \o (dropped \o Rest) \in Seq(Byte)
      <4>1. dropped \o Rest \in Seq(Byte)
        BY <2>2
      <4> QED
        BY <3>2, <4>1
    <3>4. IsPrefix(given, All)
      BY <2>2, <3>1, <3>3, AppendedPrefix, Zenon
    <3>5. ASSUME consumer = "done"
          PROVE  given = All /\ ends = "close"
      <4>1. End = "closed" /\ Queue = <<>>
        BY <2>1, <2>4, <3>5 DEF EndOK
      <4>2. /\ taken = Len(content) /\ ends = "close" /\ inner = <<>> /\ outer = <<>>
            /\ innerEnd \in {"open", "closed"}
        BY <2>1, <4>1, HookFacts DEF EndOK, End, Queue, Observes
      <4>3. dropped = <<>> /\ Rest = <<>> /\ FlattenSeq(outer) = <<>>
        BY <2>2, <3>1, <3>2, <4>2, Zenon
      <4>4. given \o (<<>> \o (<<>> \o <<>>)) = All
        BY <3>1, <4>3, Zenon
      <4>5. given \o (<<>> \o (<<>> \o <<>>)) = given
        BY <2>2
      <4> QED
        BY <4>2, <4>4, <4>5, Zenon
    <3> QED
      BY <3>4, <3>5 DEF StreamsArriveWhole
  <2> QED
    BY <2>3, <2>4
<1> QED
  BY <1>1, Invariance, PTL

\* Whoever reads to the end of what Checksum lets through has read what was
\* expected, and onHash was told of exactly that (finalize).
THEOREM ChecksumHoldsAlways ==
    ASSUME Admitted
    PROVE  Spec => []ChecksumHolds
<1>1. Inv /\ StreamsArriveWhole => ChecksumHolds
  <2> SUFFICES ASSUME Inv, StreamsArriveWhole, hook.name = "Checksum"
               PROVE  /\ consumer = "done" => /\ hook.expected \in {None, given}
                                              /\ hook.required => hook.expected # None
                                              /\ hook.onHash # "none" => told = 1
                      /\ told = 1 => hashed = All /\ hook.expected \in {None, All}
    BY DEF ChecksumHolds
  <2>1. Typed /\ StartOK /\ PlainOK /\ EndOK /\ HashOK
    BY DEF Inv
  <2>2. told = 1 => hashed = All /\ hook.expected \in {None, All}
    BY <2>1 DEF HashOK
  <2>3. ASSUME consumer = "done"
        PROVE  /\ hook.expected \in {None, All}
               /\ hook.required => hook.expected # None
               /\ hook.onHash # "none" => told = 1
    <3>1. ~LacksChecksum /\ (Checks => ~Finalized(All).fails /\ (hook.onHash # "none" => told = 1))
      <4>1. CASE hook.plain
        BY <2>1, <2>3, <4>1 DEF PlainOK
      <4>2. CASE ~hook.plain
        <5>1. Streams /\ innerEnd = "closed"
          BY <2>1, <2>3, <4>2 DEF EndOK, StartOK, End, Observes
        <5> QED
          BY <2>1, <5>1 DEF HashOK, Streams
      <4> QED
        BY <4>1, <4>2
    <3> QED
      BY <3>1 DEF LacksChecksum, Checks, Finalized
  <2>4. consumer = "done" => given = All
    BY DEF StreamsArriveWhole
  <2> QED
    BY <2>2, <2>3, <2>4
<1> QED
  BY <1>1, Invariance, StreamsArriveWholeAlways, PTL
=============================================================================
