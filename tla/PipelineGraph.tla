---------------------------- MODULE PipelineGraph ----------------------------
(***************************************************************************)
(* The graph of a client's pipelines, and the walks over it: encode of a   *)
(* plain value, repair, buildEncodeTree of a stream that is set or filled  *)
(* back, and decodeStream.                                                 *)
(*                                                                         *)
(* Every destination is a chain of middleware with a storage at its end;   *)
(* destinations that begin with the same middleware share the nodes of     *)
(* that beginning.  A node is therefore the sequence of middleware that    *)
(* leads to it, and a walk runs the middleware of a shared node once.  The *)
(* next() of a node serves its entries one after another: it hands a leaf  *)
(* its data and walks a child.  The root <<>> is a node without middleware.*)
(*                                                                         *)
(* A middleware may break the rules of next(), throw, deny the repair, or  *)
(* swallow what next() throws: setting.may names those that do.            *)
(***************************************************************************)
EXTENDS Naturals, Sequences, FiniteSets

CONSTANTS
    Settings  \* the graphs, the operations and what their middleware may do

\* What a setting is: an operation, the chains of its destinations, of which
\* there is at least one, those that need a repair, and what is configured.
IsSetting(s) ==
    /\ s.operation \in {"encode", "repair", "streamSet", "streamRepair", "decodeStream"}
    /\ s.paths \in Seq(Seq(DOMAIN s.may)) \ {<<>>}
    /\ s.missing \subseteq DOMAIN s.paths
    /\ s.throwOnDenied \in BOOLEAN
    /\ s.writes \subseteq {"failed", "denied"}

VARIABLES
    setting,   \* which of the settings this is; it never changes
    frame,     \* frame[n]: the walk of node n
    target,    \* target[i]: what leaf i is handed
    refused,   \* a denial was recorded, to be thrown after the walk
    input,     \* input[n]: the stream that is handed to node n
    output,    \* output[n]: the stream that the middleware of n produced
    branch,    \* branch[i]: the stream that is handed to leaf i
    read,      \* the half of a split stream that the caller reads
    aborted,   \* the signal of the operation has fired
    outcome    \* how the operation ended

vars == <<setting, frame, target, refused, input, output, branch, read, aborted, outcome>>

----------------------------------------------------------------------------
(* the graph *)

Operation == setting.operation
Path(i) == setting.paths[i]
Leaves == DOMAIN setting.paths

IsPrefix(s, t) == Len(s) <= Len(t) /\ SubSeq(t, 1, Len(s)) = s

Nodes == UNION {{SubSeq(Path(i), 1, d) : d \in 0 .. Len(Path(i))} : i \in Leaves}
Middleware(n) == n[Len(n)]
AllLeaves(n) == {i \in Leaves : IsPrefix(n, Path(i))}
Child(n, i) == SubSeq(Path(i), 1, Len(n) + 1)
IsLeafOf(n, i) == Path(i) = n
Parent(n) == SubSeq(n, 1, Len(n) - 1)

\* The entries of a node, leaves and children, each known by its first leaf;
\* they are served in this order.
Entries(n) ==
    {i \in AllLeaves(n) : IsLeafOf(n, i) \/ \A j \in AllLeaves(Child(n, i)) : i <= j}

\* A middleware of the name AllowRepair on its path lets a leaf be repaired.
CanRepair(i) == \E d \in DOMAIN Path(i) : Path(i)[d] \in setting.gates

IsRepair == Operation \in {"repair", "streamRepair"}
IsStream == Operation \in {"streamSet", "streamRepair", "decodeStream"}

\* stream drops the leaves that cannot be repaired before the walk.
IsActive(i) ==
    CASE Operation = "repair" -> i \in setting.missing
      [] Operation = "streamRepair" -> i \in setting.missing /\ CanRepair(i)
      [] OTHER -> TRUE
ActiveLeaves(n) == {i \in AllLeaves(n) : IsActive(i)}

\* stream does not begin the walk if a leaf cannot be repaired and the caller
\* wants to know.
RefusesAtOnce ==
    /\ Operation = "streamRepair"
    /\ setting.throwOnDenied
    /\ \E i \in setting.missing : ~CanRepair(i)

\* The entries that a tree gives a branch of the stream.
BranchEntries(n) ==
    {i \in Entries(n) : IF IsLeafOf(n, i) THEN IsActive(i) ELSE ActiveLeaves(Child(n, i)) # {}}

Served(n) == IF IsStream THEN BranchEntries(n) ELSE Entries(n)

\* Mutant: one leaf decides for the whole node.
PassesThrough_Unshared(n) ==
    /\ Operation = "repair"
    /\ \E i \in ActiveLeaves(n) :
          ~CanRepair(i) /\ \A j \in ActiveLeaves(n) : i <= j

\* repair leaves out the middleware of a node whose only leaf will be skipped.
PassesThrough(n) ==
    /\ Operation = "repair"
    /\ \E i \in ActiveLeaves(n) : ActiveLeaves(n) = {i} /\ ~CanRepair(i)

May(n, what) == what \in setting.may[Middleware(n)]

----------------------------------------------------------------------------
(* the state *)

\* body: idle, running, done, or passing through; next: how the next() of the
\* node stands; at: the entries before it are served; made: the middleware
\* that have transformed the data and mapped the key for this node's entries.
Idle == [body |-> "idle", calls |-> 0, produced |-> FALSE, violated |-> FALSE,
         next |-> "none", started |-> FALSE, at |-> 1, made |-> <<>>, threw |-> "none",
         end |-> "none"]

Init ==
    /\ setting \in Settings
    /\ frame = [n \in Nodes |->
          IF n # <<>> THEN Idle
          ELSE [Idle EXCEPT !.body = "done", !.next = IF RefusesAtOnce THEN "refused" ELSE "running"]]
    /\ target = [i \in Leaves |-> [state |-> "none", made |-> <<>>]]
    /\ refused = FALSE
    /\ input = [n \in Nodes |->
          IF IsStream /\ n # <<>> /\ Parent(n) = <<>> /\ ActiveLeaves(n) # {} THEN "free" ELSE "none"]
    /\ output = [n \in Nodes |-> IF n = <<>> /\ IsStream THEN "used" ELSE "none"]
    /\ branch = [i \in Leaves |-> IF IsStream /\ i \in BranchEntries(<<>>) /\ IsLeafOf(<<>>, i)
                                  THEN "free" ELSE "none"]
    /\ read = IF Operation = "streamRepair" THEN "free" ELSE "none"
    /\ aborted = FALSE
    /\ outcome = "none"

Failures == {"error", "denied", "contract", "aborted"}
Running(n) == frame[n].body = "running"
Current(n) == CHOOSE i \in Served(n) : i >= frame[n].at /\ \A j \in Served(n) : j >= frame[n].at => i <= j
IsServed(n) == \A i \in Served(n) : i < frame[n].at

streamVars == <<input, output, branch, read>>

----------------------------------------------------------------------------
(* what a body does *)

SetDestination(n) ==
    /\ Running(n)
    /\ frame[n].calls = 0
    /\ ~frame[n].produced
    /\ frame' = [frame EXCEPT ![n].produced = TRUE]
    /\ IF IsStream
       THEN input' = [input EXCEPT ![n] = "used"] /\ output' = [output EXCEPT ![n] = "free"]
       ELSE UNCHANGED <<input, output>>
    /\ UNCHANGED <<setting, target, refused, branch, read, aborted, outcome>>

\* Without a destination nothing runs: the promise is rejected.
NextWithoutDestination(n) ==
    /\ Running(n)
    /\ frame[n].calls = 0 /\ ~frame[n].produced
    /\ May(n, "forget")
    /\ frame' = [frame EXCEPT ![n].calls = 1, ![n].violated = TRUE]
    /\ UNCHANGED <<setting, target, refused, streamVars, aborted, outcome>>

CallsNext(n) == Running(n) /\ frame[n].calls = 0 /\ frame[n].produced

\* The key is mapped, which may throw; repair and the trees then look at the
\* signal.
NextFails(n) ==
    /\ CallsNext(n)
    /\ \E reason \in {"error" : x \in {x \in {1} : May(n, "throw")}}
                     \cup {"denied" : x \in {x \in {1} : May(n, "deny")}}
                     \cup {"aborted" : x \in {x \in {1} : aborted /\ Operation # "encode"}} :
          frame' = [frame EXCEPT ![n].calls = 1, ![n].next = reason]
    /\ Operation # "decodeStream"
    /\ UNCHANGED <<setting, target, refused, streamVars, aborted, outcome>>

\* The stream of a node is split among its branches.
Splits(n) ==
    /\ output' = [output EXCEPT ![n] = "used"]
    /\ input' = [m \in Nodes |-> IF m # <<>> /\ Parent(m) = n /\ ActiveLeaves(m) # {} THEN "free"
                                 ELSE input[m]]
    /\ branch' = [i \in Leaves |-> IF i \in BranchEntries(n) /\ IsLeafOf(n, i) THEN "free" ELSE branch[i]]

\* The entries of the node begin to be served.
NextRuns(n) ==
    /\ CallsNext(n)
    /\ aborted => Operation \in {"encode", "decodeStream"}
    /\ frame' = [frame EXCEPT ![n].calls = 1, ![n].next = "running", ![n].started = TRUE,
                              ![n].made = Append(@, Middleware(n))]
    /\ IF IsStream THEN Splits(n) ELSE UNCHANGED <<input, output, branch>>
    /\ UNCHANGED <<setting, target, refused, read, aborted, outcome>>

CallNextAgain(n) ==
    /\ Running(n)
    /\ frame[n].calls = 1
    /\ May(n, "repeat")
    /\ frame' = [frame EXCEPT ![n].calls = 2, ![n].violated = TRUE]
    /\ UNCHANGED <<setting, target, refused, streamVars, aborted, outcome>>

----------------------------------------------------------------------------
(* next(): the entries of a node, one after another *)

Serves(n) == frame[n].next = "running" /\ ~IsServed(n)

\* Mutant: two entries at once.
Skips_Two(n) == frame' = [frame EXCEPT ![n].at = Current(n) + 2]

Skips(n) == frame' = [frame EXCEPT ![n].at = Current(n) + 1]

\* The leaf is handed its data, or its branch.
GiveLeaf(n) ==
    LET i == Current(n)
    IN  /\ Serves(n)
        /\ IsLeafOf(n, i)
        /\ IsActive(i) /\ (Operation = "repair" => CanRepair(i) /\ ~aborted)
        /\ Skips(n)
        /\ target' = [target EXCEPT ![i] =
              [state |-> IF Operation = "repair" THEN "writing" ELSE "given", made |-> frame[n].made]]
        /\ UNCHANGED <<setting, refused, streamVars, aborted, outcome>>

\* A leaf that has its value is skipped, and one that may not be repaired is
\* refused.
SkipLeaf(n) ==
    LET i == Current(n)
    IN  /\ Serves(n)
        /\ Operation = "repair" /\ ~aborted
        /\ IsLeafOf(n, i)
        /\ ~IsActive(i) \/ ~CanRepair(i)
        /\ Skips(n)
        /\ refused' = (refused \/ (IsActive(i) /\ setting.throwOnDenied))
        /\ UNCHANGED <<setting, target, streamVars, aborted, outcome>>

\* Mutant: the first leaf of a child speaks for all of them.
HasNothingToDo_First(n) == ~IsActive(Current(n))

HasNothingToDo(n) == ActiveLeaves(Child(n, Current(n))) = {}

\* A child with nothing to repair is not walked.
SkipChild(n) ==
    /\ Serves(n)
    /\ Operation = "repair" /\ ~aborted
    /\ ~IsLeafOf(n, Current(n))
    /\ HasNothingToDo(n)
    /\ Skips(n)
    /\ UNCHANGED <<setting, target, refused, streamVars, aborted, outcome>>

WalkChild(n) ==
    LET c == Child(n, Current(n))
    IN  /\ Serves(n)
        /\ ~IsLeafOf(n, Current(n))
        /\ frame[c].body = "idle"
        /\ ~HasNothingToDo(n)
        /\ aborted => Operation = "decodeStream"
        /\ frame' = [frame EXCEPT ![c] =
              IF PassesThrough(c)
              THEN [@ EXCEPT !.body = "passing", !.next = "running", !.made = frame[n].made]
              ELSE [@ EXCEPT !.body = "running", !.made = frame[n].made]]
        /\ UNCHANGED <<setting, target, refused, streamVars, aborted, outcome>>

\* The signal has fired before an entry (repair) or before a child.
StopServing(n) ==
    /\ Serves(n)
    /\ aborted
    /\ \/ Operation = "repair"
       \/ Operation \in {"encode", "streamSet", "streamRepair"} /\ ~IsLeafOf(n, Current(n))
    /\ ~IsLeafOf(n, Current(n)) => frame[Child(n, Current(n))].body = "idle"
    /\ frame' = [frame EXCEPT ![n].next = "aborted"]
    /\ UNCHANGED <<setting, target, refused, streamVars, aborted, outcome>>

NextSettles(n) ==
    /\ frame[n].next = "running"
    /\ IsServed(n)
    /\ frame' = [frame EXCEPT ![n].next = "ok"]
    /\ UNCHANGED <<setting, target, refused, streamVars, aborted, outcome>>

----------------------------------------------------------------------------
(* the boundary: how the walk of a node ends *)

Broken(n) == frame[n].violated \/ frame[n].calls # 1 \/ frame[n].next \in {"none", "running"}
BreaksRules(n, thrown) ==
    thrown = "contract" \/ frame[n].violated \/ (thrown = "none" /\ Broken(n))
Denies(reason) == reason = "denied" /\ Operation = "streamRepair" /\ ~setting.throwOnDenied

\* encode and decodeStream let everything pass; decodeStream does not return
\* a stream that its inner part has failed to build.
EndsPlainly(n, thrown) ==
    IF thrown # "none" THEN thrown
    ELSE IF aborted THEN "aborted"
    ELSE IF Broken(n) THEN "contract"
    ELSE IF Operation = "decodeStream" /\ frame[n].next \in Failures THEN frame[n].next
    ELSE "ok"

\* Mutant: every denial is thrown.
EndsRepair_Denied(n, thrown) ==
    IF aborted THEN (IF Cardinality(ActiveLeaves(n)) >= 2 THEN "aborted" ELSE "ok")
    ELSE IF BreaksRules(n, thrown) THEN "contract"
    ELSE IF thrown = "denied" THEN "denied"
    ELSE "ok"

\* A node that fails to repair its leaves does not fail the others; a denial
\* does, if the caller asked for that.
EndsRepair(n, thrown) ==
    LET shared == Cardinality(ActiveLeaves(n)) >= 2
    IN  IF aborted THEN (IF shared THEN "aborted" ELSE "ok")
        ELSE IF BreaksRules(n, thrown) THEN "contract"
        ELSE IF thrown = "denied" /\ setting.throwOnDenied /\ (frame[n].started \/ shared) THEN "denied"
        ELSE "ok"
RefusesRepair(n, thrown) ==
    /\ ~aborted /\ ~frame[n].violated
    /\ thrown = "denied" /\ setting.throwOnDenied
    /\ ~frame[n].started /\ Cardinality(ActiveLeaves(n)) = 1

\* Mutant: a body that returns has kept the rules.
EndsTree_Trusting(n, thrown, rethrown) ==
    IF aborted THEN "aborted"
    ELSE IF thrown = "contract" THEN "contract"
    ELSE IF thrown = "none" THEN "ok"
    ELSE IF (frame[n].started /\ rethrown) \/ Operation = "streamSet" THEN thrown
    ELSE IF frame[n].started /\ (thrown = "error" \/ Denies(thrown)) THEN "ok"
    ELSE IF ~frame[n].started /\ Denies(thrown) THEN "skipped"
    ELSE thrown

\* A denial ends the branch of a tree; what the body does after its branches
\* are built does not harm them when the tree is a repair.
EndsTree(n, thrown, rethrown) ==
    IF aborted THEN "aborted"
    ELSE IF BreaksRules(n, thrown) THEN "contract"
    ELSE IF thrown = "none" THEN "ok"
    ELSE IF (frame[n].started /\ rethrown) \/ Operation = "streamSet" THEN thrown
    ELSE IF frame[n].started /\ (thrown = "error" \/ Denies(thrown)) THEN "ok"
    ELSE IF ~frame[n].started /\ Denies(thrown) THEN "skipped"
    ELSE thrown

Ends(n, thrown, rethrown) ==
    CASE Operation \in {"encode", "decodeStream"} -> EndsPlainly(n, thrown)
      [] Operation = "repair" -> EndsRepair(n, thrown)
      [] OTHER -> EndsTree(n, thrown, rethrown)

\* The next() outside goes on with its next entry, or fails with the walk.
LeavesFrame(n, thrown, end) ==
    LET p == Parent(n)
        goesOn == end \in {"ok", "skipped"}
    IN  frame' = [frame EXCEPT ![n].body = "done", ![n].end = end, ![n].threw = thrown,
                               ![p].at = IF goesOn THEN Current(p) + 1 ELSE @,
                               ![p].next = IF goesOn THEN @ ELSE end,
                               ![p].violated = @ \/ (end = "contract" /\ frame[p].body # "passing")]

\* Mutant: the streams of a branch that was skipped are left alone.
Abandons_Not(n, end) == UNCHANGED <<input, output>>

\* The streams of a branch that was skipped are cancelled.
Abandons(n, end) ==
    IF end = "skipped"
    THEN /\ input' = [input EXCEPT ![n] = IF @ = "free" THEN "cancelled" ELSE @]
         /\ output' = [output EXCEPT ![n] = IF @ = "free" THEN "cancelled" ELSE @]
    ELSE UNCHANGED <<input, output>>

Leave(n, thrown, rethrown) ==
    LET end == Ends(n, thrown, rethrown)
    IN  /\ LeavesFrame(n, IF rethrown THEN "passed" ELSE thrown, end)
        /\ Abandons(n, end)
        /\ refused' = (refused \/ (Operation = "repair" /\ RefusesRepair(n, thrown)))
        /\ UNCHANGED <<setting, target, branch, read, aborted, outcome>>

\* A careful body returns only after its next() has settled.
HasAwaited(n) ==
    \/ frame[n].next \notin {"none", "running"}
    \/ frame[n].calls > 0 /\ ~frame[n].produced
    \/ frame[n].next = "running" /\ May(n, "hurry")

Returns(n) ==
    /\ Running(n)
    /\ HasAwaited(n) \/ (frame[n].calls = 0 /\ May(n, "forget"))
    /\ frame[n].next \in Failures \/ frame[n].violated => May(n, "swallow")
    /\ Leave(n, "none", FALSE)

\* An error or a denial of its own, the reason of the signal, or what next()
\* threw.
Throws(n) ==
    /\ Running(n)
    /\ frame[n].calls = 0 \/ HasAwaited(n)
    /\ \/ May(n, "throw") /\ Leave(n, "error", FALSE)
       \/ May(n, "deny") /\ Leave(n, "denied", FALSE)
       \/ aborted /\ Leave(n, "aborted", FALSE)
       \/ frame[n].violated /\ Leave(n, "contract", FALSE)
       \/ frame[n].next \in Failures /\ Leave(n, frame[n].next, TRUE)

\* A node that is passed through ends as its entries do.
PassOn(n) ==
    /\ frame[n].body = "passing"
    /\ frame[n].next # "running"
    /\ LeavesFrame(n, "none", frame[n].next)
    /\ UNCHANGED <<setting, target, refused, streamVars, aborted, outcome>>

----------------------------------------------------------------------------
(* the operation *)

\* A denial that comes after the signal has fired is ignored.
WriteSettles(i) ==
    /\ target[i].state = "writing"
    /\ \E state \in {"written"} \cup (IF aborted THEN {"failed"} ELSE setting.writes) :
          target' = [target EXCEPT ![i].state = state]
    /\ UNCHANGED <<setting, frame, refused, streamVars, aborted, outcome>>

Abort ==
    /\ ~aborted
    /\ outcome = "none"
    /\ aborted' = TRUE
    /\ UNCHANGED <<setting, frame, target, refused, streamVars, outcome>>

WalkIsOver == outcome = "none" /\ frame[<<>>].next \notin {"running", "refused"}

EncodeEnds ==
    /\ Operation = "encode"
    /\ WalkIsOver
    /\ outcome' = frame[<<>>].next
    /\ UNCHANGED <<setting, frame, target, refused, streamVars, aborted>>

\* Mutant: what failed the walk is thrown at once.
WritesAreSettled_OrFailed ==
    frame[<<>>].next = "ok" => \A i \in Leaves : target[i].state # "writing"

\* repair waits for the writes that it has started, however it ends.
WritesAreSettled == \A i \in Leaves : target[i].state # "writing"

RepairEnds ==
    /\ Operation = "repair"
    /\ WalkIsOver
    /\ WritesAreSettled
    /\ outcome' =
          IF frame[<<>>].next # "ok" THEN frame[<<>>].next
          ELSE IF refused \/ (setting.throwOnDenied /\ \E i \in Leaves : target[i].state = "denied")
               THEN "denied"
          ELSE IF aborted THEN "aborted"
          ELSE "ok"
    /\ UNCHANGED <<setting, frame, target, refused, streamVars, aborted>>

Cancelled(s) == IF s = "free" THEN "cancelled" ELSE s
CancelsAll ==
    /\ input' = [n \in Nodes |-> Cancelled(input[n])]
    /\ output' = [n \in Nodes |-> Cancelled(output[n])]
    /\ branch' = [i \in Leaves |-> Cancelled(branch[i])]
    /\ read' = Cancelled(read)

\* A tree that was not built, or that the caller does not use because the
\* signal has fired, is cancelled with all its streams.
StreamEnds ==
    /\ IsStream
    /\ WalkIsOver
    /\ LET end == IF frame[<<>>].next = "ok" /\ aborted THEN "aborted" ELSE frame[<<>>].next
       IN  /\ outcome' = end
           /\ IF end = "ok" THEN UNCHANGED streamVars ELSE CancelsAll
    /\ UNCHANGED <<setting, frame, target, refused, aborted>>

StreamRefuses ==
    /\ outcome = "none"
    /\ frame[<<>>].next = "refused"
    /\ outcome' = IF aborted THEN "aborted" ELSE "denied"
    /\ CancelsAll
    /\ UNCHANGED <<setting, frame, target, refused, aborted>>

Quiet ==
    /\ outcome # "none"
    /\ UNCHANGED vars

Next ==
    \/ \E n \in Nodes :
          \/ GiveLeaf(n) \/ SkipLeaf(n) \/ SkipChild(n) \/ WalkChild(n)
          \/ StopServing(n) \/ NextSettles(n)
    \/ \E n \in Nodes \ {<<>>} :
          \/ SetDestination(n) \/ NextWithoutDestination(n) \/ NextFails(n) \/ NextRuns(n)
          \/ CallNextAgain(n) \/ Returns(n) \/ Throws(n) \/ PassOn(n)
    \/ \E i \in Leaves : WriteSettles(i)
    \/ Abort \/ EncodeEnds \/ RepairEnds \/ StreamEnds \/ StreamRefuses \/ Quiet

Spec == Init /\ [][Next]_vars

----------------------------------------------------------------------------
(* properties *)

Frames ==
    [body : {"idle", "running", "passing", "done"}, calls : 0 .. 2, produced : BOOLEAN,
     violated : BOOLEAN, next : {"none", "running", "refused", "ok"} \cup Failures,
     started : BOOLEAN, at : 1 .. Cardinality(Leaves) + 1, made : Nodes,
     threw : {"none", "passed"} \cup Failures, end : {"none", "ok", "skipped"} \cup Failures]
Targets ==
    [state : {"none", "given", "writing", "written", "failed", "denied"}, made : Nodes]
Streams == {"none", "free", "used", "cancelled"}

TypeOK ==
    /\ setting \in Settings
    /\ frame \in [Nodes -> Frames] /\ target \in [Leaves -> Targets]
    /\ input \in [Nodes -> Streams] /\ output \in [Nodes -> Streams]
    /\ branch \in [Leaves -> Streams] /\ read \in Streams
    /\ refused \in BOOLEAN /\ aborted \in BOOLEAN
    /\ outcome \in {"none", "ok"} \cup Failures

Hasty == \E n \in Nodes \ {<<>>} : May(n, "hurry")

\* A node whose body swallowed what its next() threw, or threw something else.
Swallows(n) ==
    n # <<>> /\ frame[n].next \in Failures /\ frame[n].threw # "passed"

\* The middleware of a node denied the repair, in its body or as it mapped the
\* key.
IsDenied(n) == frame[n].threw = "denied" \/ (frame[n].next = "denied" /\ ~frame[n].started)

\* Every leaf is handed what all the middleware on its path have made, under
\* the key that they all have mapped, and only a leaf that is to be repaired
\* and may be (PipelineGraph.encode, repair, buildEncodeTree).
TargetsAreWhole ==
    \A i \in Leaves : target[i].state # "none" =>
        target[i].made = Path(i) /\ IsActive(i) /\ (IsRepair => CanRepair(i))

\* A walk that succeeds has handed every leaf its data, unless a middleware
\* threw or swallowed a failure.
NobodyIsSkipped ==
    outcome = "ok" =>
        \A i \in Leaves : IsActive(i) /\ (IsRepair => CanRepair(i)) =>
            \/ target[i].state # "none"
            \/ \E n \in Nodes : IsPrefix(n, Path(i)) /\ (frame[n].threw # "none" \/ Swallows(n))

\* A broken rule fails the operation (MiddlewareContractTracker); encode and
\* decodeStream have errors that replace it, and a body that does not wait for
\* its next() may be gone before the rule is broken behind it.
ViolationSurfaces ==
    outcome = "ok" /\ ~Hasty /\ Operation \notin {"encode", "decodeStream"} =>
        \A n \in Nodes : ~frame[n].violated

\* When the operation has ended no middleware is running, and no leaf is being
\* written: the lock of the key is released then.
NothingRunsAfterwards ==
    outcome # "none" /\ ~Hasty =>
        /\ \A n \in Nodes : frame[n].body \notin {"running", "passing"}
        /\ \A i \in Leaves : target[i].state # "writing"

\* What goes wrong in the repair of a plain value does not fail the read, except
\* for a denial; no denial fails a repair, of a value or of a stream, unless the
\* caller wants to know of it (throwOnRepairDenied), and then it is lost only in
\* a middleware that swallows it.
DenialsSurface ==
    /\ Operation = "repair" => outcome # "error"
    /\ IsRepair /\ ~setting.throwOnDenied => outcome # "denied"
    /\ IsRepair /\ setting.throwOnDenied /\ outcome = "ok" /\ ~Hasty =>
          /\ \A i \in Leaves : target[i].state # "denied"
          /\ \A i \in setting.missing : CanRepair(i) \/
                \E n \in Nodes : IsPrefix(n, Path(i)) /\ (frame[n].threw # "none" \/ Swallows(n))
          /\ \A n \in Nodes : IsDenied(n) => \E m \in Nodes : IsPrefix(m, n) /\ Swallows(m)

\* No half of a split stream and no output of a middleware is left to nobody: a
\* stream that nobody reads and nobody cancels holds its source for ever.
NoStreamIsForgotten ==
    /\ outcome \in Failures /\ ~Hasty =>
          "free" \notin {input[n] : n \in Nodes} \cup {output[n] : n \in Nodes}
                        \cup {branch[i] : i \in Leaves} \cup {read}
    /\ outcome = "ok" /\ ~Hasty /\ ~(\E n \in Nodes : Swallows(n)) =>
          /\ "free" \notin {input[n] : n \in Nodes} \cup {output[n] : n \in Nodes}
          /\ \A i \in Leaves : branch[i] = "free" => target[i].state = "given"
=============================================================================
