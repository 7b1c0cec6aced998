--------------------------- MODULE Pipeline_proofs ---------------------------
(***************************************************************************)
(* What is proved of the parts of the pipelines, said of the composition   *)
(* that MCPipeline checks.                                                 *)
(*                                                                         *)
(* The graph of MCPipeline, G, is the one that PipelineGraph_proofs is     *)
(* about, GP, and its hook, O, the one of Observers_proofs, OP: each step  *)
(* of the one is a step of the other, so that what holds of every          *)
(* behaviour of the one holds of the other.  The chain, which MCPipeline   *)
(* extends, is proved about here, at the end.                              *)
(***************************************************************************)
EXTENDS MCPipeline, TLAPS

GP == INSTANCE PipelineGraph_proofs WITH setting <- walk, aborted <- signalled, Settings <- Walks
OP == INSTANCE Observers_proofs WITH given <- arrived

----------------------------------------------------------------------------
(* the steps of the graph *)

LEMMA SameInit ==
    ASSUME G!Init
    PROVE  GP!Init
  BY DEF G!Init, GP!Init, G!Nodes, GP!Nodes, G!Path, GP!Path, G!Leaves, GP!Leaves,
         G!Idle, GP!Idle, G!RefusesAtOnce, GP!RefusesAtOnce, G!Operation, GP!Operation,
         G!CanRepair, GP!CanRepair, G!IsStream, GP!IsStream, G!Parent, GP!Parent,
         G!ActiveLeaves, GP!ActiveLeaves, G!AllLeaves, GP!AllLeaves, G!IsPrefix, GP!IsPrefix,
         G!IsActive, GP!IsActive, G!BranchEntries, GP!BranchEntries, G!Entries, GP!Entries,
         G!IsLeafOf, GP!IsLeafOf, G!Child, GP!Child

LEMMA SameEnds ==
    ASSUME NEW n, NEW thrown, NEW rethrown
    PROVE  G!Ends(n, thrown, rethrown) = GP!Ends(n, thrown, rethrown)
  BY DEF G!Ends, GP!Ends, G!Operation, GP!Operation, G!EndsPlainly, GP!EndsPlainly,
         G!Broken, GP!Broken, G!Failures, GP!Failures, G!EndsRepair, GP!EndsRepair,
         G!ActiveLeaves, GP!ActiveLeaves, G!AllLeaves, GP!AllLeaves, G!Leaves, GP!Leaves,
         G!IsPrefix, GP!IsPrefix, G!Path, GP!Path, G!IsActive, GP!IsActive,
         G!CanRepair, GP!CanRepair, G!BreaksRules, GP!BreaksRules, G!EndsTree, GP!EndsTree,
         G!Denies, GP!Denies, G!Cardinality, GP!Cardinality

LEMMA SameActive ==
    ASSUME NEW n
    PROVE  G!ActiveLeaves(n) = GP!ActiveLeaves(n)
  BY DEF G!ActiveLeaves, GP!ActiveLeaves, G!AllLeaves, GP!AllLeaves, G!Leaves, GP!Leaves,
         G!IsPrefix, GP!IsPrefix, G!Path, GP!Path, G!IsActive, GP!IsActive,
         G!Operation, GP!Operation, G!CanRepair, GP!CanRepair

LEMMA SameRefusal ==
    ASSUME NEW n, NEW thrown
    PROVE  G!RefusesRepair(n, thrown) = GP!RefusesRepair(n, thrown)
  BY SameActive DEF G!RefusesRepair, GP!RefusesRepair, G!Cardinality, GP!Cardinality

LEMMA SameFrame ==
    ASSUME NEW n, NEW thrown, NEW end, G!LeavesFrame(n, thrown, end)
    PROVE  GP!LeavesFrame(n, thrown, end)
  BY DEF G!LeavesFrame, GP!LeavesFrame, G!Parent, GP!Parent, G!Current, GP!Current,
         G!Served, GP!Served, G!IsStream, GP!IsStream, G!Operation, GP!Operation,
         G!BranchEntries, GP!BranchEntries, G!Entries, GP!Entries, G!AllLeaves, GP!AllLeaves,
         G!Leaves, GP!Leaves, G!IsPrefix, GP!IsPrefix, G!Path, GP!Path, G!IsLeafOf, GP!IsLeafOf,
         G!Child, GP!Child, G!IsActive, GP!IsActive, G!CanRepair, GP!CanRepair,
         G!ActiveLeaves, GP!ActiveLeaves

LEMMA SameLeave ==
    ASSUME NEW n, NEW thrown, NEW rethrown, G!Leave(n, thrown, rethrown)
    PROVE  GP!Leave(n, thrown, rethrown)
  BY SameEnds, SameRefusal, SameFrame DEF G!Leave, GP!Leave, G!Abandons, GP!Abandons, G!Operation, GP!Operation

LEMMA SameGiveLeaf ==
    ASSUME NEW n, G!GiveLeaf(n)
    PROVE  GP!GiveLeaf(n)
  BY DEF G!GiveLeaf, GP!GiveLeaf, G!Current, GP!Current, G!Served, GP!Served,
         G!IsStream, GP!IsStream, G!Operation, GP!Operation, G!BranchEntries, GP!BranchEntries,
         G!Entries, GP!Entries, G!AllLeaves, GP!AllLeaves, G!Leaves, GP!Leaves,
         G!IsPrefix, GP!IsPrefix, G!Path, GP!Path, G!IsLeafOf, GP!IsLeafOf, G!Child, GP!Child,
         G!IsActive, GP!IsActive, G!CanRepair, GP!CanRepair, G!ActiveLeaves, GP!ActiveLeaves,
         G!Serves, GP!Serves, G!IsServed, GP!IsServed, G!Skips, GP!Skips,
         G!streamVars, GP!streamVars

LEMMA SameSkipLeaf ==
    ASSUME NEW n, G!SkipLeaf(n)
    PROVE  GP!SkipLeaf(n)
  BY DEF G!SkipLeaf, GP!SkipLeaf, G!Current, GP!Current, G!Served, GP!Served,
         G!IsStream, GP!IsStream, G!Operation, GP!Operation, G!BranchEntries, GP!BranchEntries,
         G!Entries, GP!Entries, G!AllLeaves, GP!AllLeaves, G!Leaves, GP!Leaves,
         G!IsPrefix, GP!IsPrefix, G!Path, GP!Path, G!IsLeafOf, GP!IsLeafOf, G!Child, GP!Child,
         G!IsActive, GP!IsActive, G!CanRepair, GP!CanRepair, G!ActiveLeaves, GP!ActiveLeaves,
         G!Serves, GP!Serves, G!IsServed, GP!IsServed, G!Skips, GP!Skips,
         G!streamVars, GP!streamVars

LEMMA SameSkipChild ==
    ASSUME NEW n, G!SkipChild(n)
    PROVE  GP!SkipChild(n)
  BY DEF G!SkipChild, GP!SkipChild, G!Serves, GP!Serves, G!IsServed, GP!IsServed,
         G!Served, GP!Served, G!IsStream, GP!IsStream, G!Operation, GP!Operation,
         G!BranchEntries, GP!BranchEntries, G!Entries, GP!Entries, G!AllLeaves, GP!AllLeaves,
         G!Leaves, GP!Leaves, G!IsPrefix, GP!IsPrefix, G!Path, GP!Path, G!IsLeafOf, GP!IsLeafOf,
         G!Child, GP!Child, G!IsActive, GP!IsActive, G!CanRepair, GP!CanRepair,
         G!ActiveLeaves, GP!ActiveLeaves, G!Current, GP!Current,
         G!HasNothingToDo, GP!HasNothingToDo, G!Skips, GP!Skips, G!streamVars, GP!streamVars

LEMMA SameWalkChild ==
    ASSUME NEW n, G!WalkChild(n)
    PROVE  GP!WalkChild(n)
  BY DEF G!WalkChild, GP!WalkChild, G!Child, GP!Child, G!Path, GP!Path, G!Current, GP!Current,
         G!Served, GP!Served, G!IsStream, GP!IsStream, G!Operation, GP!Operation,
         G!BranchEntries, GP!BranchEntries, G!Entries, GP!Entries, G!AllLeaves, GP!AllLeaves,
         G!Leaves, GP!Leaves, G!IsPrefix, GP!IsPrefix, G!IsLeafOf, GP!IsLeafOf,
         G!IsActive, GP!IsActive, G!CanRepair, GP!CanRepair, G!ActiveLeaves, GP!ActiveLeaves,
         G!Serves, GP!Serves, G!IsServed, GP!IsServed, G!HasNothingToDo, GP!HasNothingToDo,
         G!PassesThrough, GP!PassesThrough, G!streamVars, GP!streamVars

LEMMA SameStopServing ==
    ASSUME NEW n, G!StopServing(n)
    PROVE  GP!StopServing(n)
  BY DEF G!StopServing, GP!StopServing, G!Serves, GP!Serves, G!IsServed, GP!IsServed,
         G!Served, GP!Served, G!IsStream, GP!IsStream, G!Operation, GP!Operation,
         G!BranchEntries, GP!BranchEntries, G!Entries, GP!Entries, G!AllLeaves, GP!AllLeaves,
         G!Leaves, GP!Leaves, G!IsPrefix, GP!IsPrefix, G!Path, GP!Path, G!IsLeafOf, GP!IsLeafOf,
         G!Child, GP!Child, G!IsActive, GP!IsActive, G!CanRepair, GP!CanRepair,
         G!ActiveLeaves, GP!ActiveLeaves, G!Current, GP!Current, G!streamVars, GP!streamVars

LEMMA SameNextSettles ==
    ASSUME NEW n, G!NextSettles(n)
    PROVE  GP!NextSettles(n)
  BY DEF G!NextSettles, GP!NextSettles, G!IsServed, GP!IsServed, G!Served, GP!Served,
         G!IsStream, GP!IsStream, G!Operation, GP!Operation, G!BranchEntries, GP!BranchEntries,
         G!Entries, GP!Entries, G!AllLeaves, GP!AllLeaves, G!Leaves, GP!Leaves,
         G!IsPrefix, GP!IsPrefix, G!Path, GP!Path, G!IsLeafOf, GP!IsLeafOf, G!Child, GP!Child,
         G!IsActive, GP!IsActive, G!CanRepair, GP!CanRepair, G!ActiveLeaves, GP!ActiveLeaves,
         G!streamVars, GP!streamVars

LEMMA SameSetDestination ==
    ASSUME NEW n, G!SetDestination(n)
    PROVE  GP!SetDestination(n)
  BY DEF G!SetDestination, GP!SetDestination, G!Running, GP!Running, G!IsStream, GP!IsStream,
         G!Operation, GP!Operation

LEMMA SameNextWithoutDestination ==
    ASSUME NEW n, G!NextWithoutDestination(n)
    PROVE  GP!NextWithoutDestination(n)
  BY DEF G!NextWithoutDestination, GP!NextWithoutDestination, G!Running, GP!Running,
         G!May, GP!May, G!Middleware, GP!Middleware, G!streamVars, GP!streamVars

LEMMA SameNextFails ==
    ASSUME NEW n, G!NextFails(n)
    PROVE  GP!NextFails(n)
  BY DEF G!NextFails, GP!NextFails, G!CallsNext, GP!CallsNext, G!Running, GP!Running,
         G!May, GP!May, G!Middleware, GP!Middleware, G!Operation, GP!Operation,
         G!streamVars, GP!streamVars

LEMMA SameNextRuns ==
    ASSUME NEW n, G!NextRuns(n)
    PROVE  GP!NextRuns(n)
  BY DEF G!NextRuns, GP!NextRuns, G!CallsNext, GP!CallsNext, G!Running, GP!Running,
         G!Operation, GP!Operation, G!Middleware, GP!Middleware, G!IsStream, GP!IsStream,
         G!Splits, GP!Splits, G!Nodes, GP!Nodes, G!Path, GP!Path, G!Leaves, GP!Leaves,
         G!Parent, GP!Parent, G!ActiveLeaves, GP!ActiveLeaves, G!AllLeaves, GP!AllLeaves,
         G!IsPrefix, GP!IsPrefix, G!IsActive, GP!IsActive, G!CanRepair, GP!CanRepair,
         G!BranchEntries, GP!BranchEntries, G!Entries, GP!Entries, G!IsLeafOf, GP!IsLeafOf,
         G!Child, GP!Child

LEMMA SameCallNextAgain ==
    ASSUME NEW n, G!CallNextAgain(n)
    PROVE  GP!CallNextAgain(n)
  BY DEF G!CallNextAgain, GP!CallNextAgain, G!Running, GP!Running, G!May, GP!May,
         G!Middleware, GP!Middleware, G!streamVars, GP!streamVars

LEMMA SameReturns ==
    ASSUME NEW n, G!Returns(n)
    PROVE  GP!Returns(n)
  BY SameLeave DEF G!Returns, GP!Returns, G!Running, GP!Running, G!HasAwaited, GP!HasAwaited,
         G!May, GP!May, G!Middleware, GP!Middleware, G!Failures, GP!Failures

LEMMA SameThrows ==
    ASSUME NEW n, G!Throws(n)
    PROVE  GP!Throws(n)
  BY SameLeave DEF G!Throws, GP!Throws, G!Running, GP!Running, G!HasAwaited, GP!HasAwaited, G!May, GP!May,
         G!Middleware, GP!Middleware, G!Failures, GP!Failures

LEMMA SamePassOn ==
    ASSUME NEW n, G!PassOn(n)
    PROVE  GP!PassOn(n)
  BY DEF G!PassOn, GP!PassOn, G!LeavesFrame, GP!LeavesFrame, G!Parent, GP!Parent,
         G!Current, GP!Current, G!Served, GP!Served, G!IsStream, GP!IsStream,
         G!Operation, GP!Operation, G!BranchEntries, GP!BranchEntries, G!Entries, GP!Entries,
         G!AllLeaves, GP!AllLeaves, G!Leaves, GP!Leaves, G!IsPrefix, GP!IsPrefix,
         G!Path, GP!Path, G!IsLeafOf, GP!IsLeafOf, G!Child, GP!Child, G!IsActive, GP!IsActive,
         G!CanRepair, GP!CanRepair, G!ActiveLeaves, GP!ActiveLeaves, G!streamVars, GP!streamVars

LEMMA SameWriteSettles ==
    ASSUME NEW i, G!WriteSettles(i)
    PROVE  GP!WriteSettles(i)
  BY DEF G!WriteSettles, GP!WriteSettles, G!streamVars, GP!streamVars

LEMMA SameAbort ==
    ASSUME G!Abort
    PROVE  GP!Abort
  BY DEF G!Abort, GP!Abort, G!streamVars, GP!streamVars

LEMMA SameEncodeEnds ==
    ASSUME G!EncodeEnds
    PROVE  GP!EncodeEnds
  BY DEF G!EncodeEnds, GP!EncodeEnds, G!Operation, GP!Operation, G!WalkIsOver, GP!WalkIsOver,
         G!streamVars, GP!streamVars

LEMMA SameRepairEnds ==
    ASSUME G!RepairEnds
    PROVE  GP!RepairEnds
  BY DEF G!RepairEnds, GP!RepairEnds, G!Operation, GP!Operation, G!WalkIsOver, GP!WalkIsOver,
         G!WritesAreSettled, GP!WritesAreSettled, G!Leaves, GP!Leaves, G!streamVars, GP!streamVars

LEMMA SameStreamEnds ==
    ASSUME G!StreamEnds
    PROVE  GP!StreamEnds
  BY DEF G!StreamEnds, GP!StreamEnds, G!IsStream, GP!IsStream, G!Operation, GP!Operation,
         G!WalkIsOver, GP!WalkIsOver, G!streamVars, GP!streamVars, G!CancelsAll, GP!CancelsAll,
         G!Nodes, GP!Nodes, G!Path, GP!Path, G!Leaves, GP!Leaves, G!Cancelled, GP!Cancelled

LEMMA SameStreamRefuses ==
    ASSUME G!StreamRefuses
    PROVE  GP!StreamRefuses
  BY DEF G!StreamRefuses, GP!StreamRefuses, G!CancelsAll, GP!CancelsAll, G!Nodes, GP!Nodes,
         G!Path, GP!Path, G!Leaves, GP!Leaves, G!Cancelled, GP!Cancelled

LEMMA SameQuiet ==
    ASSUME G!Quiet
    PROVE  GP!Quiet
  BY DEF G!Quiet, GP!Quiet, G!vars, GP!vars

\* Every step of the graph is a step of the graph that is proved about.
LEMMA SameNext ==
    ASSUME G!Next
    PROVE  GP!Next
<1>1. G!Nodes = GP!Nodes /\ G!Leaves = GP!Leaves
  BY DEF G!Nodes, GP!Nodes, G!Path, GP!Path, G!Leaves, GP!Leaves
<1>2. ASSUME NEW n \in G!Nodes,
             \/ G!GiveLeaf(n) \/ G!SkipLeaf(n) \/ G!SkipChild(n) \/ G!WalkChild(n)
             \/ G!StopServing(n) \/ G!NextSettles(n)
      PROVE  GP!Next
  BY <1>1, <1>2, SameGiveLeaf, SameSkipLeaf, SameSkipChild, SameWalkChild, SameStopServing,
     SameNextSettles DEF GP!Next
<1>3. ASSUME NEW n \in G!Nodes \ {<<>>},
             \/ G!SetDestination(n) \/ G!NextWithoutDestination(n) \/ G!NextFails(n)
             \/ G!NextRuns(n) \/ G!CallNextAgain(n) \/ G!Returns(n) \/ G!Throws(n)
             \/ G!PassOn(n)
      PROVE  GP!Next
  BY <1>1, <1>3, SameSetDestination, SameNextWithoutDestination, SameNextFails, SameNextRuns,
     SameCallNextAgain, SameReturns, SameThrows, SamePassOn DEF GP!Next
<1>4. ASSUME NEW i \in G!Leaves, G!WriteSettles(i)
      PROVE  GP!Next
  BY <1>1, <1>4, SameWriteSettles DEF GP!Next
<1>5. CASE G!Abort \/ G!EncodeEnds \/ G!RepairEnds \/ G!StreamEnds \/ G!StreamRefuses \/ G!Quiet
  BY <1>5, SameAbort, SameEncodeEnds, SameRepairEnds, SameStreamEnds, SameStreamRefuses, SameQuiet
  DEF GP!Next
<1> QED
  BY <1>2, <1>3, <1>4, <1>5 DEF G!Next

\* A behaviour of the composition is one of the graph, which stands still while
\* another part moves.
LEMMA GraphSpec ==
    PipelineSpec => GP!Spec
<1>1. PipelineInit => GP!Init
  BY SameInit DEF PipelineInit
<1>2. [PipelineNext]_allVars => [GP!Next]_(GP!vars)
  <2>1. ASSUME GraphStep
        PROVE  [GP!Next]_(GP!vars)
    BY <2>1, SameNext DEF GraphStep
  <2>2. ASSUME UNCHANGED graphVars
        PROVE  [GP!Next]_(GP!vars)
    BY <2>2 DEF graphVars, GP!vars
  <2>3. (OnionStep \/ BuilderStep \/ CodecStep \/ HookStep \/ UNCHANGED allVars)
          => UNCHANGED graphVars
    BY DEF OnionStep, BuilderStep, CodecStep, HookStep, allVars
  <2> QED
    BY <2>1, <2>2, <2>3 DEF PipelineNext
<1> QED
  BY <1>1, <1>2, PTL DEF PipelineSpec, GP!Spec

----------------------------------------------------------------------------
(* the properties *)

LEMMA WalksAreSettings ==
    \A w \in Walks : GP!IsSetting(w)
  BY WalksAssumption DEF G!IsSetting, GP!IsSetting

LEMMA SameTargetsAreWhole ==
    ASSUME GP!TargetsAreWhole
    PROVE  G!TargetsAreWhole
  BY DEF G!TargetsAreWhole, GP!TargetsAreWhole, G!Leaves, GP!Leaves, G!Path, GP!Path,
         G!IsActive, GP!IsActive, G!Operation, GP!Operation, G!CanRepair, GP!CanRepair,
         G!IsRepair, GP!IsRepair

LEMMA SameNobodyIsSkipped ==
    ASSUME GP!NobodyIsSkipped
    PROVE  G!NobodyIsSkipped
  BY DEF G!NobodyIsSkipped, GP!NobodyIsSkipped, G!Leaves, GP!Leaves, G!IsActive, GP!IsActive,
         G!Operation, GP!Operation, G!CanRepair, GP!CanRepair, G!Path, GP!Path,
         G!IsRepair, GP!IsRepair, G!Nodes, GP!Nodes, G!IsPrefix, GP!IsPrefix,
         G!Swallows, GP!Swallows, G!Failures, GP!Failures

LEMMA SameViolationSurfaces ==
    ASSUME GP!ViolationSurfaces
    PROVE  G!ViolationSurfaces
  BY DEF G!ViolationSurfaces, GP!ViolationSurfaces, G!Hasty, GP!Hasty, G!Nodes, GP!Nodes,
         G!Path, GP!Path, G!Leaves, GP!Leaves, G!May, GP!May, G!Middleware, GP!Middleware,
         G!Operation, GP!Operation

LEMMA SameNothingRunsAfterwards ==
    ASSUME GP!NothingRunsAfterwards
    PROVE  G!NothingRunsAfterwards
  BY DEF G!NothingRunsAfterwards, GP!NothingRunsAfterwards, G!Hasty, GP!Hasty, G!Nodes, GP!Nodes,
         G!Path, GP!Path, G!Leaves, GP!Leaves, G!May, GP!May, G!Middleware, GP!Middleware

LEMMA SameDenialsSurface ==
    ASSUME GP!DenialsSurface
    PROVE  G!DenialsSurface
  BY DEF G!DenialsSurface, GP!DenialsSurface, G!Operation, GP!Operation, G!IsRepair, GP!IsRepair,
         G!Hasty, GP!Hasty, G!Nodes, GP!Nodes, G!Path, GP!Path, G!Leaves, GP!Leaves,
         G!May, GP!May, G!Middleware, GP!Middleware, G!CanRepair, GP!CanRepair,
         G!IsPrefix, GP!IsPrefix, G!Swallows, GP!Swallows, G!Failures, GP!Failures,
         G!IsDenied, GP!IsDenied

LEMMA SameNoStreamIsForgotten ==
    ASSUME GP!NoStreamIsForgotten
    PROVE  G!NoStreamIsForgotten
  BY DEF G!NoStreamIsForgotten, GP!NoStreamIsForgotten, G!Failures, GP!Failures,
         G!Hasty, GP!Hasty, G!Nodes, GP!Nodes, G!Path, GP!Path, G!Leaves, GP!Leaves,
         G!May, GP!May, G!Middleware, GP!Middleware, G!Swallows, GP!Swallows

\* Of whatever middleware, chains and operation, and however the walk goes: a
\* leaf that is handed anything is handed what every middleware on its path has
\* made, and a walk that succeeds has left out only leaves whose middleware threw
\* or swallowed a failure (PipelineGraph.encode, repair, buildEncodeTree).
THEOREM EveryLeafIsServedAlways == PipelineSpec => []EveryLeafIsServed
<1>1. GP!TargetsAreWhole /\ GP!NobodyIsSkipped => EveryLeafIsServed
  BY SameTargetsAreWhole, SameNobodyIsSkipped DEF EveryLeafIsServed
<1>2. GP!Spec => []GP!TargetsAreWhole /\ []GP!NobodyIsSkipped
  BY WalksAreSettings, GP!LeavesGetWhatTheirPathMade, GP!NoLeafIsLeftOut
<1> QED
  BY <1>1, <1>2, GraphSpec, PTL

\* A rule of next() that a body breaks fails the operation, nothing runs and no
\* leaf is written behind an operation that has ended, and a repair fails the
\* read for a denial that the caller asked for and for nothing else
\* (MiddlewareContractTracker, repair, throwOnRepairDenied).
THEOREM WalksAlwaysEndCleanly == PipelineSpec => []WalksEndCleanly
<1>1. GP!ViolationSurfaces /\ GP!NothingRunsAfterwards /\ GP!DenialsSurface => WalksEndCleanly
  BY SameViolationSurfaces, SameNothingRunsAfterwards, SameDenialsSurface DEF WalksEndCleanly
<1>2. GP!Spec => []GP!ViolationSurfaces /\ []GP!NothingRunsAfterwards /\ []GP!DenialsSurface
  BY WalksAreSettings, GP!BrokenRulesSurface, GP!NothingRunsBehindTheLock, GP!DenialsAreTold
<1> QED
  BY <1>1, <1>2, GraphSpec, PTL

\* Every half of a split stream, and every output of a middleware, is read or
\* cancelled when the operation has ended (buildEncodeTree, cancelTree).
THEOREM StreamsAreNeverForgotten == PipelineSpec => []NoStreamIsForgotten
<1>1. GP!NoStreamIsForgotten => NoStreamIsForgotten
  BY SameNoStreamIsForgotten DEF NoStreamIsForgotten
<1>2. GP!Spec => []GP!NoStreamIsForgotten
  BY WalksAreSettings, GP!StreamsAreUsedOrCancelled
<1> QED
  BY <1>1, <1>2, GraphSpec, PTL

----------------------------------------------------------------------------
(* the steps of a hook *)

LEMMA SameHookInit ==
    ASSUME O!Init
    PROVE  OP!Init
  BY DEF O!Init, OP!Init, O!NoSummary, OP!NoSummary

LEMMA SameHookBegin ==
    ASSUME O!Begin
    PROVE  OP!Begin
  BY DEF O!Begin, OP!Begin, O!Checks, OP!Checks, O!LacksChecksum, OP!LacksChecksum,
         O!Finalized, OP!Finalized, O!All, OP!All, O!FlattenSeq, OP!FlattenSeq,
         O!Refuses, OP!Refuses, O!IsExpired, OP!IsExpired, O!Envelope, OP!Envelope,
         O!sourceVars, OP!sourceVars, O!outerVars, OP!outerVars

LEMMA SameHookNextEnds ==
    ASSUME O!NextEnds
    PROVE  OP!NextEnds
  BY DEF O!NextEnds, OP!NextEnds, O!Measure, OP!Measure, O!Settle, OP!Settle,
         O!Observe, OP!Observe, O!Finish, OP!Finish, O!All, OP!All, O!FlattenSeq, OP!FlattenSeq,
         O!sourceVars, OP!sourceVars, O!innerVars, OP!innerVars, O!outerVars, OP!outerVars

LEMMA SameHookTick ==
    ASSUME O!Tick
    PROVE  OP!Tick
  BY DEF O!Tick, OP!Tick, O!sourceVars, OP!sourceVars, O!innerVars, OP!innerVars,
         O!outerVars, OP!outerVars, O!clientVars, OP!clientVars, O!reportVars, OP!reportVars

LEMMA SameHookReset ==
    ASSUME O!Reset
    PROVE  OP!Reset
  BY DEF O!Reset, OP!Reset, O!NoSummary, OP!NoSummary, O!sourceVars, OP!sourceVars,
         O!innerVars, OP!innerVars, O!outerVars, OP!outerVars, O!clientVars, OP!clientVars

LEMMA SameHookTransform ==
    ASSUME O!Transform
    PROVE  OP!Transform
  BY DEF O!Transform, OP!Transform, O!Streams, OP!Streams, O!LacksChecksum, OP!LacksChecksum,
         O!Transforms, OP!Transforms, O!Checks, OP!Checks, O!Hash, OP!Hash,
         O!FlattenSeq, OP!FlattenSeq, O!Pieces, OP!Pieces, O!Refuses, OP!Refuses,
         O!IsExpired, OP!IsExpired, O!Envelope, OP!Envelope, O!AfterRefusal, OP!AfterRefusal,
         O!sourceVars, OP!sourceVars, O!outerVars, OP!outerVars, O!clientVars, OP!clientVars

LEMMA SameHookFlush ==
    ASSUME O!Flush
    PROVE  OP!Flush
  BY DEF O!Flush, OP!Flush, O!Checks, OP!Checks, O!Finalized, OP!Finalized,
         O!Streams, OP!Streams, O!LacksChecksum, OP!LacksChecksum, O!Transforms, OP!Transforms,
         O!Settle, OP!Settle, O!Observe, OP!Observe, O!sourceVars, OP!sourceVars,
         O!outerVars, OP!outerVars, O!clientVars, OP!clientVars

LEMMA SameHookSourceFails ==
    ASSUME O!SourceFails
    PROVE  OP!SourceFails
  BY DEF O!SourceFails, OP!SourceFails, O!Streams, OP!Streams, O!LacksChecksum, OP!LacksChecksum,
         O!Transforms, OP!Transforms, O!sourceVars, OP!sourceVars, O!outerVars, OP!outerVars,
         O!clientVars, OP!clientVars, O!reportVars, OP!reportVars

LEMMA SameHookPullMetrics ==
    ASSUME O!PullMetrics
    PROVE  OP!PullMetrics
  BY DEF O!PullMetrics, OP!PullMetrics, O!Streams, OP!Streams, O!LacksChecksum, OP!LacksChecksum,
         O!Settle, OP!Settle, O!Observe, OP!Observe, O!sourceVars, OP!sourceVars,
         O!clientVars, OP!clientVars

LEMMA SameHookPullTracing ==
    ASSUME O!PullTracing
    PROVE  OP!PullTracing
  BY DEF O!PullTracing, OP!PullTracing, O!Streams, OP!Streams, O!LacksChecksum, OP!LacksChecksum,
         O!Finish, OP!Finish, O!Observe, OP!Observe, O!sourceVars, OP!sourceVars,
         O!clientVars, OP!clientVars

LEMMA SameHookTake ==
    ASSUME O!Take
    PROVE  OP!Take
  BY DEF O!Take, OP!Take, O!Streams, OP!Streams, O!LacksChecksum, OP!LacksChecksum,
         O!Queue, OP!Queue, O!Observes, OP!Observes, O!End, OP!End, O!sourceVars, OP!sourceVars,
         O!reportVars, OP!reportVars

LEMMA SameHookCancel ==
    ASSUME O!Cancel
    PROVE  OP!Cancel
  BY DEF O!Cancel, OP!Cancel, O!Streams, OP!Streams, O!LacksChecksum, OP!LacksChecksum,
         O!End, OP!End, O!Observes, OP!Observes, O!Queue, OP!Queue, O!Settle, OP!Settle,
         O!Observe, OP!Observe, O!Finish, OP!Finish, O!sourceVars, OP!sourceVars

LEMMA SameHookFinished ==
    ASSUME O!Finished
    PROVE  OP!Finished
  BY DEF O!Finished, OP!Finished, O!vars, OP!vars, O!sourceVars, OP!sourceVars,
         O!innerVars, OP!innerVars, O!outerVars, OP!outerVars, O!clientVars, OP!clientVars,
         O!reportVars, OP!reportVars

\* Every step of the hook is a step of the hook that is proved about.
LEMMA SameHookNext ==
    ASSUME O!Next
    PROVE  OP!Next
  BY SameHookBegin, SameHookNextEnds, SameHookTick, SameHookReset,
     SameHookTransform, SameHookFlush, SameHookSourceFails, SameHookPullMetrics,
     SameHookPullTracing, SameHookTake, SameHookCancel, SameHookFinished
  DEF O!Next, OP!Next

\* A behaviour of the composition is one of the hook.
LEMMA HookSpec ==
    PipelineSpec => OP!Spec
<1>1. PipelineInit => OP!Init
  BY SameHookInit DEF PipelineInit
<1>2. [PipelineNext]_allVars => [OP!Next]_(OP!vars)
  <2>1. ASSUME HookStep
        PROVE  [OP!Next]_(OP!vars)
    BY <2>1, SameHookNext DEF HookStep
  <2>2. ASSUME UNCHANGED hookVars
        PROVE  [OP!Next]_(OP!vars)
    BY <2>2 DEF hookVars, OP!vars, OP!sourceVars, OP!innerVars, OP!outerVars, OP!clientVars,
       OP!reportVars
  <2>3. (OnionStep \/ BuilderStep \/ CodecStep \/ GraphStep \/ UNCHANGED allVars)
          => UNCHANGED hookVars
    BY DEF OnionStep, BuilderStep, CodecStep, GraphStep, allVars
  <2> QED
    BY <2>1, <2>2, <2>3 DEF PipelineNext
<1> QED
  BY <1>1, <1>2, PTL DEF PipelineSpec, OP!Spec

----------------------------------------------------------------------------
(* the properties of a hook *)

LEMMA HooksAreAdmitted ==
    OP!Admitted
  BY HooksAssumption DEF O!Admitted, OP!Admitted, O!IsHook, OP!IsHook, O!Byte, OP!Byte

LEMMA SameHookReportedOnce ==
    ASSUME OP!ReportedOnce
    PROVE  O!ReportedOnce
  BY DEF O!ReportedOnce, OP!ReportedOnce, O!Observes, OP!Observes, O!IsOver, OP!IsOver

LEMMA SameHookReportsAreTrue ==
    ASSUME OP!ReportsAreTrue
    PROVE  O!ReportsAreTrue
  BY DEF O!ReportsAreTrue, OP!ReportsAreTrue, O!All, OP!All, O!FlattenSeq, OP!FlattenSeq,
         O!FoldSeq, OP!FoldSeq, O!FoldFunction, OP!FoldFunction,
         O!FoldFunctionOnSet, OP!FoldFunctionOnSet, O!MapThenFoldSet, OP!MapThenFoldSet

LEMMA SameHookStreamsArriveWhole ==
    ASSUME OP!StreamsArriveWhole
    PROVE  O!StreamsArriveWhole
  BY DEF O!StreamsArriveWhole, OP!StreamsArriveWhole, O!IsPrefix, OP!IsPrefix, O!All, OP!All,
         O!FlattenSeq, OP!FlattenSeq

LEMMA SameHookChecksumHolds ==
    ASSUME OP!ChecksumHolds
    PROVE  O!ChecksumHolds
  BY DEF O!ChecksumHolds, OP!ChecksumHolds, O!All, OP!All, O!FlattenSeq, OP!FlattenSeq

\* Of whatever hooks and contents: an operation is reported once, and as what it
\* was, whichever of its ends come together (Metrics.settle, Tracing.finish).
THEOREM ReportsAlwaysAreTrue == PipelineSpec => []ReportsAreTrue
<1>1. OP!ReportedOnce /\ OP!ReportsAreTrue => ReportsAreTrue
  BY SameHookReportedOnce, SameHookReportsAreTrue DEF ReportsAreTrue
<1>2. OP!Spec => []OP!ReportedOnce /\ []OP!ReportsAreTrue
  BY HooksAreAdmitted, OP!ReportedOnceAlways, OP!ReportsAreTrueAlways
<1> QED
  BY <1>1, <1>2, HookSpec, PTL

\* Whoever reads a stream to its end has had all of the content, unchanged, with
\* the checksum that was expected (Checksum.finalize, Expiry.throwExpired).
THEOREM StreamsAlwaysArriveWhole == PipelineSpec => []StreamsArriveWhole
<1>1. OP!StreamsArriveWhole /\ OP!ChecksumHolds => StreamsArriveWhole
  BY SameHookStreamsArriveWhole, SameHookChecksumHolds DEF StreamsArriveWhole
<1>2. OP!Spec => []OP!StreamsArriveWhole /\ []OP!ChecksumHolds
  BY HooksAreAdmitted, OP!StreamsArriveWholeAlways, OP!ChecksumHoldsAlways
<1> QED
  BY <1>1, <1>2, HookSpec, PTL

----------------------------------------------------------------------------
(* The chain of middleware, of any depth, whose calls of use await what    *)
(* they call: a broken rule fails the call, nothing runs after a success,  *)
(* and nobody is skipped unless an error was swallowed.                    *)
(*                                                                         *)
(* None of the three is inductive.  They are statements about the chain as *)
(* a whole, while a step sees two frames; the invariant below says them of *)
(* every suffix of the chain, so that a frame that ends takes them over    *)
(* from the frame inside it.                                               *)


Careful == Operation = "use" /\ Hasty = {}

\* The frames inside i.
Inside(i) == {j \in Chain : j > i}

\* A frame begins when the next() outside it is called, and its end settles
\* that next().
FramesAreNested ==
    /\ \A i \in Chain : body[i] = "idle" =>
          /\ calls[i] = 0 /\ ~violated[i]
          /\ \A j \in Inside(i) : body[j] = "idle"
    /\ \A i \in Chain : i < Depth /\ calls[i] = 0 => body[i + 1] = "idle"
    /\ \A i \in Chain : down[i - 1] # "none" => body[i] = "done"

\* When a frame has ended, so have the frames inside it.
EndedFromTheInside ==
    \A i \in Chain : body[i] = "done" => \A j \in Inside(i) : body[j] # "running"

\* A frame remembers that it broke a rule or heard of one.
RulesAreRecorded ==
    \A i \in Chain :
        /\ calls[i] = 2 => violated[i]
        /\ down[i] = "contract" => violated[i]
        /\ down[i] = "aborted" => aborted

\* A frame that ended well, or in an error while nobody aborted, has no
\* violation in it.
Sound(i) == down[i - 1] = "ok" \/ (down[i - 1] = "error" /\ ~aborted)

EndedWithoutViolation ==
    \A i \in Chain : Sound(i) => \A j \in Chain : j >= i => ~violated[j]

\* A frame that ended well contains everybody, or an error.
EndedWithEverybody ==
    \A i \in Chain : down[i - 1] = "ok" =>
        \/ \E k \in Chain : k >= i /\ down[k] = "error"
        \/ \A j \in Chain : j >= i => body[j] = "done" /\ calls[j] = 1

IInv ==
    /\ Types
    /\ FramesAreNested
    /\ EndedFromTheInside
    /\ RulesAreRecorded
    /\ EndedWithoutViolation
    /\ EndedWithEverybody

----------------------------------------------------------------------------

\* The operation begins in the invariant.
LEMMA IInvAtFirst == Init => IInv
<1> SUFFICES ASSUME Init PROVE IInv
  OBVIOUS
<1> USE DepthAssumption DEF Init, Chain
<1>1. Types
  <2>1. /\ body \in [Chain -> {"idle", "running", "done"}]
        /\ calls \in [Chain -> 0 .. 2]
    OBVIOUS
  <2>2. /\ produced \in [Chain -> BOOLEAN]
        /\ violated \in [Chain -> BOOLEAN]
        /\ aborted \in BOOLEAN
    OBVIOUS
  <2>3. down \in [0 .. Depth -> {"none"} \cup Endings]
    OBVIOUS
  <2> QED BY <2>1, <2>2, <2>3 DEF Types
<1>2. \A i \in Chain : down[i - 1] = "none" /\ down[i] = "none" /\ body[i] # "done"
  OBVIOUS
<1>3. FramesAreNested
  <2>1. \A i \in Chain : /\ calls[i] = 0 /\ ~violated[i]
                         /\ i # 1 => body[i] = "idle"
                         /\ i = 1 => body[i] = "running"
    OBVIOUS
  <2>2. \A i \in Chain : \A j \in Inside(i) : body[j] = "idle"
    BY <2>1 DEF Inside
  <2>3. \A i \in Chain : i < Depth => body[i + 1] = "idle"
    BY <2>1
  <2> QED BY <1>2, <2>1, <2>2, <2>3 DEF FramesAreNested
<1>4. EndedFromTheInside /\ RulesAreRecorded
  BY <1>2 DEF EndedFromTheInside, RulesAreRecorded
<1>5. EndedWithoutViolation /\ EndedWithEverybody
  BY <1>2 DEF EndedWithoutViolation, EndedWithEverybody, Sound
<1> QED BY <1>1, <1>3, <1>4, <1>5 DEF IInv

\* next() runs the rest of the chain.
LEMMA NextRunsPreserves ==
    ASSUME Careful, IInv, NEW i \in Chain, NextRuns(i)
    PROVE  IInv'
<1> USE DepthAssumption DEF Chain, Careful, Transforms
<1>1. /\ body[i] = "running" /\ calls[i] = 0
      /\ calls' = [calls EXCEPT ![i] = 1]
      /\ body' = [j \in Chain |-> IF j = i + 1 THEN "running" ELSE body[j]]
      /\ UNCHANGED <<produced, violated, down, aborted, setting>>
  BY DEF NextRuns, FirstCall
<1>2. i < Depth => body[i + 1] = "idle"
  BY <1>1 DEF IInv, FramesAreNested
<1>3. Types'
  BY <1>1 DEF IInv, Types
<1>4. FramesAreNested'
  <2>1. \A j \in Chain : body'[j] = "idle" => body[j] = "idle" /\ j # i + 1
    BY <1>1 DEF IInv, Types
  <2>2. \A j \in Chain : body'[j] = "idle" =>
            /\ calls'[j] = 0 /\ ~violated'[j]
            /\ \A l \in Inside(j) : body'[l] = "idle"
    BY <1>1, <2>1 DEF IInv, Types, FramesAreNested, Inside
  <2>3. \A j \in Chain : j < Depth /\ calls'[j] = 0 => body'[j + 1] = "idle"
    BY <1>1 DEF IInv, Types, FramesAreNested
  <2>4. \A j \in Chain : down'[j - 1] # "none" => body'[j] = "done"
    BY <1>1, <1>2 DEF IInv, Types, FramesAreNested
  <2> QED BY <2>2, <2>3, <2>4 DEF FramesAreNested, Inside
<1>5. EndedFromTheInside'
  <2> SUFFICES ASSUME NEW j \in Chain, body'[j] = "done",
                      NEW l \in Inside(j), body'[l] = "running"
               PROVE  FALSE
    BY DEF EndedFromTheInside, Inside
  <2>1. body[j] = "done" /\ j # i
    BY <1>1 DEF IInv, Types
  <2>2. l = i + 1
    BY <1>1, <2>1 DEF IInv, Types, EndedFromTheInside, Inside
  <2>3. i \in Inside(j)
    BY <2>1, <2>2 DEF Inside
  <2> QED BY <1>1, <2>1, <2>3 DEF IInv, EndedFromTheInside
<1>6. RulesAreRecorded'
  BY <1>1 DEF IInv, Types, RulesAreRecorded
<1>7. EndedWithoutViolation'
  BY <1>1 DEF IInv, EndedWithoutViolation, Sound
<1>8. EndedWithEverybody'
  <2> SUFFICES ASSUME NEW j \in Chain, down[j - 1] = "ok",
                      \A l \in Chain : l >= j => body[l] = "done" /\ calls[l] = 1
               PROVE  i < j /\ i + 1 # j
    BY <1>1 DEF IInv, Types, EndedWithEverybody
  <2> QED BY <1>1, <1>2 DEF IInv, FramesAreNested
<1> QED BY <1>3, <1>4, <1>5, <1>6, <1>7, <1>8 DEF IInv

\* A second next() is recorded.
LEMMA CallNextAgainPreserves ==
    ASSUME IInv, NEW i \in Chain, CallNextAgain(i)
    PROVE  IInv'
<1> USE DepthAssumption DEF Chain
<1>1. /\ body[i] = "running" /\ calls[i] = 1
      /\ calls' = [calls EXCEPT ![i] = 2]
      /\ violated' = [violated EXCEPT ![i] = TRUE]
      /\ UNCHANGED <<body, produced, down, aborted, setting>>
  BY DEF CallNextAgain
<1>2. \A j \in Chain : down[j - 1] # "none" => ~(i >= j)
  BY <1>1 DEF IInv, FramesAreNested, EndedFromTheInside, Inside
<1>3. Types'
  BY <1>1 DEF IInv, Types
<1>4. FramesAreNested'
  BY <1>1 DEF IInv, Types, FramesAreNested, Inside
<1>5. EndedFromTheInside'
  BY <1>1 DEF IInv, EndedFromTheInside, Inside
<1>6. RulesAreRecorded'
  BY <1>1 DEF IInv, Types, RulesAreRecorded
<1>7. EndedWithoutViolation'
  BY <1>1, <1>2 DEF IInv, Types, EndedWithoutViolation, Sound
<1>8. EndedWithEverybody'
  BY <1>1, <1>2 DEF IInv, Types, EndedWithEverybody
<1> QED BY <1>3, <1>4, <1>5, <1>6, <1>7, <1>8 DEF IInv

\* The next() of the last middleware settles.
LEMMA BottomPreserves ==
    ASSUME IInv, Bottom
    PROVE  IInv'
<1> USE DepthAssumption DEF Chain
<1>1. /\ down[Depth] = "none"
      /\ down' = [down EXCEPT ![Depth] = "ok"]
      /\ UNCHANGED <<body, calls, produced, violated, aborted, setting>>
  BY DEF Bottom
<1>2. \A j \in Chain : down'[j - 1] = down[j - 1]
  BY <1>1 DEF IInv, Types
<1>3. Types'
  BY <1>1 DEF IInv, Types, Endings
<1>4. FramesAreNested'
  BY <1>1, <1>2 DEF IInv, FramesAreNested, Inside
<1>5. EndedFromTheInside'
  BY <1>1 DEF IInv, EndedFromTheInside, Inside
<1>6. RulesAreRecorded'
  BY <1>1 DEF IInv, Types, RulesAreRecorded
<1>7. EndedWithoutViolation'
  BY <1>1, <1>2 DEF IInv, EndedWithoutViolation, Sound
<1>8. EndedWithEverybody'
  BY <1>1, <1>2 DEF IInv, Types, EndedWithEverybody
<1> QED BY <1>3, <1>4, <1>5, <1>6, <1>7, <1>8 DEF IInv

\* The signal fires.
LEMMA AbortPreserves == IInv /\ Abort => IInv'
BY DepthAssumption DEF Chain, Inside, Abort, IInv, Types, FramesAreNested,
   EndedFromTheInside, RulesAreRecorded, EndedWithoutViolation, Sound,
   EndedWithEverybody

\* What the boundary of use lets out when a body ends.
Verdict(i, how, broken) ==
    /\ body[i] = "running"
    /\ calls[i] = 0 \/ down[i] # "none"
    /\ how \in Endings /\ broken \in BOOLEAN
    /\ violated[i] => broken
    /\ how = "contract" => broken
    /\ how = "aborted" => aborted
    /\ how = "ok" => ~aborted /\ calls[i] = 1
    /\ how = "ok" \/ (how = "error" /\ ~aborted) => ~broken

\* A body that returns.
LEMMA ReturnsWithVerdict ==
    ASSUME Careful, IInv, NEW i \in Chain, Returns(i)
    PROVE  \E how, broken : Verdict(i, how, broken) /\ Leave(i, how, broken)
<1>1. body[i] = "running" /\ (calls[i] = 0 \/ down[i] # "none")
  BY DEF Returns, MayEnd, Careful, Transforms
<1> DEFINE broken == violated[i] \/ calls[i] # 1 \/ down[i] = "none"
<1>2. violated[i] \in BOOLEAN /\ broken \in BOOLEAN
  BY DEF IInv, Types
<1>3. CASE aborted
  <2>1. Leave(i, "aborted", violated[i])
    BY <1>3 DEF Returns
  <2>2. Verdict(i, "aborted", violated[i])
    BY <1>1, <1>2, <1>3 DEF Verdict, Endings
  <2> QED BY <2>1, <2>2
<1>4. CASE ~aborted /\ broken
  <2>1. Leave(i, "contract", broken)
    BY <1>4 DEF Returns
  <2>2. Verdict(i, "contract", broken)
    BY <1>1, <1>2, <1>4 DEF Verdict, Endings
  <2> HIDE DEF broken
  <2> QED BY <2>1, <2>2
<1>5. CASE ~aborted /\ ~broken
  <2>1. Leave(i, "ok", broken)
    BY <1>5 DEF Returns
  <2>2. Verdict(i, "ok", broken)
    BY <1>1, <1>2, <1>5 DEF Verdict, Endings
  <2> HIDE DEF broken
  <2> QED BY <2>1, <2>2
<1> QED BY <1>3, <1>4, <1>5

\* A body that throws.
LEMMA ThrowsWithVerdict ==
    ASSUME Careful, IInv, NEW i \in Chain, Throws(i)
    PROVE  \E how, broken : Verdict(i, how, broken) /\ Leave(i, how, broken)
<1>1. body[i] = "running" /\ (calls[i] = 0 \/ down[i] # "none")
  BY DEF Throws, MayEnd, Careful, Transforms
<1>2. PICK reason \in Reasons(i) :
          LET broken == violated[i] \/ reason = "contract"
          IN  IF Operation # "use" \/ reason = "aborted"
              THEN Leave(i, reason, violated[i])
              ELSE Leave(i, IF broken THEN "contract" ELSE reason, broken)
  BY DEF Throws
<1> DEFINE broken == violated[i] \/ reason = "contract"
<1>3. violated[i] \in BOOLEAN /\ broken \in BOOLEAN /\ down[i] \in {"none"} \cup Endings
  BY DepthAssumption DEF IInv, Types, Chain
<1>4. /\ reason \in {"error", "contract", "aborted"}
      /\ reason = "aborted" => aborted
  BY <1>3 DEF Reasons, IInv, RulesAreRecorded, Endings
<1>5. CASE reason = "aborted"
  <2>1. Leave(i, "aborted", violated[i])
    BY <1>2, <1>5
  <2>2. Verdict(i, "aborted", violated[i])
    BY <1>1, <1>3, <1>4, <1>5 DEF Verdict, Endings
  <2> QED BY <2>1, <2>2
<1>6. CASE reason # "aborted" /\ broken
  <2>1. Leave(i, "contract", broken)
    BY <1>2, <1>6 DEF Careful
  <2>2. Verdict(i, "contract", broken)
    BY <1>1, <1>3, <1>6 DEF Verdict, Endings
  <2> HIDE DEF broken
  <2> QED BY <2>1, <2>2
<1>7. CASE reason # "aborted" /\ ~broken
  <2>1. Leave(i, "error", broken)
    BY <1>2, <1>4, <1>7 DEF Careful
  <2>2. Verdict(i, "error", broken)
    BY <1>1, <1>3, <1>7 DEF Verdict, Endings
  <2> HIDE DEF broken
  <2> QED BY <2>1, <2>2
<1> QED BY <1>5, <1>6, <1>7

\* A frame that ends takes the guarantees over from the frame inside it.
LEMMA LeavePreserves ==
    ASSUME IInv, NEW i \in Chain, NEW how, NEW broken,
           Verdict(i, how, broken), Leave(i, how, broken)
    PROVE  IInv'
<1> USE DepthAssumption DEF Chain
<1>1. /\ body' = [body EXCEPT ![i] = "done"]
      /\ down' = [down EXCEPT ![i - 1] = how]
      /\ violated' = [j \in Chain |->
             CASE j = i -> broken
               [] j = i - 1 -> violated[j] \/ how = "contract"
               [] OTHER -> violated[j]]
      /\ UNCHANGED <<calls, produced, aborted, setting>>
  BY DEF Leave
<1>2. /\ body[i] = "running" /\ (calls[i] = 0 \/ down[i] # "none")
      /\ how \in Endings /\ broken \in BOOLEAN /\ how # "none"
  BY DEF Verdict, Endings
<1>3. /\ violated'[i] = broken
      /\ \A j \in Chain : violated[j] => violated'[j]
      /\ \A j \in Chain : j > i => violated'[j] = violated[j]
      /\ i - 1 \in Chain => violated'[i - 1] = (violated[i - 1] \/ how = "contract")
      /\ \A j \in Chain : j # i /\ j # i - 1 => violated'[j] = violated[j]
  BY <1>1, <1>2 DEF IInv, Types, Verdict
<1>4. /\ \A j \in 0 .. Depth : j # i - 1 => down'[j] = down[j]
      /\ down'[i - 1] = how
      /\ \A j \in Chain : j # i => body'[j] = body[j]
      /\ body'[i] = "done"
  BY <1>1 DEF IInv, Types
\* everybody inside is at rest
<1>5. \A j \in Chain : j > i => body[j] # "running"
  <2>1. CASE i = Depth
    BY <2>1
  <2>2. CASE i < Depth /\ calls[i] = 0
    BY <2>2 DEF IInv, FramesAreNested, Inside
  <2>3. CASE i < Depth /\ down[i] # "none"
    BY <2>3 DEF IInv, FramesAreNested, EndedFromTheInside, Inside
  <2> QED BY <1>2, <2>1, <2>2, <2>3
\* nobody outside has ended
<1>6. \A j \in Chain : j <= i => down[j - 1] = "none"
  BY <1>2 DEF IInv, FramesAreNested, EndedFromTheInside, Inside
<1>7. Types'
  BY <1>1, <1>2 DEF IInv, Types
<1>8. FramesAreNested'
  <2>1. \A j \in Chain : body'[j] = "idle" => body[j] = "idle" /\ j # i /\ ~(i \in Inside(j))
    BY <1>2, <1>4 DEF IInv, FramesAreNested
  <2>2. \A j \in Chain : body'[j] = "idle" =>
            /\ calls'[j] = 0
            /\ \A l \in Inside(j) : body'[l] = "idle"
    BY <1>1, <1>4, <2>1 DEF IInv, FramesAreNested, Inside
  <2>3. \A j \in Chain : body'[j] = "idle" => ~violated'[j]
    BY <1>2, <1>3, <2>1 DEF IInv, FramesAreNested, Inside
  <2>4. \A j \in Chain : j < Depth /\ calls'[j] = 0 => body'[j + 1] = "idle"
    BY <1>1, <1>2, <1>4 DEF IInv, FramesAreNested
  <2>5. \A j \in Chain : down'[j - 1] # "none" => body'[j] = "done"
    BY <1>4 DEF IInv, FramesAreNested
  <2> QED BY <2>2, <2>3, <2>4, <2>5 DEF FramesAreNested, Inside
<1>9. EndedFromTheInside'
  BY <1>4, <1>5 DEF IInv, EndedFromTheInside, Inside
<1>10. RulesAreRecorded'
  <2>1. \A j \in Chain : calls'[j] = 2 => violated'[j]
    BY <1>1, <1>3 DEF IInv, RulesAreRecorded
  <2>2. ASSUME NEW j \in Chain, down'[j] = "contract"
        PROVE  violated'[j]
    <3>1. CASE j = i - 1
      BY <1>3, <1>4, <2>2, <3>1
    <3>2. CASE j # i - 1
      <4>1. violated[j]
        BY <1>4, <2>2, <3>2 DEF IInv, RulesAreRecorded
      <4> QED BY <1>3, <4>1
    <3> QED BY <3>1, <3>2
  <2>3. \A j \in Chain : down'[j] = "aborted" => aborted'
    BY <1>1, <1>4 DEF IInv, RulesAreRecorded, Verdict
  <2> QED BY <2>1, <2>2, <2>3 DEF RulesAreRecorded
<1>11. EndedWithoutViolation'
  <2> SUFFICES ASSUME NEW j \in Chain, Sound(j)', NEW l \in Chain, l >= j
               PROVE  ~violated'[l]
    BY DEF EndedWithoutViolation
  <2>1. CASE j # i
    <3>1. Sound(j)
      BY <1>1, <1>4, <2>1 DEF Sound
    <3>2. ~(j <= i)
      BY <1>6, <3>1 DEF Sound
    <3> QED BY <1>3, <3>1, <3>2 DEF IInv, EndedWithoutViolation
  <2>2. CASE j = i
    <3>1. ~aborted /\ ~broken /\ ~violated[i]
      BY <1>1, <1>4, <2>2 DEF Sound, Verdict
    <3>2. calls[i] \in {0, 1} /\ down[i] # "contract" /\ down[i] # "aborted"
      BY <3>1 DEF IInv, Types, RulesAreRecorded
    <3>3. CASE l = i
      BY <1>3, <3>1, <3>3
    <3>4. CASE l > i /\ calls[i] = 0
      <4>1. body[l] = "idle"
        BY <3>4 DEF IInv, FramesAreNested, Inside
      <4> QED BY <1>3, <3>4, <4>1 DEF IInv, FramesAreNested
    <3>5. CASE l > i /\ down[i] # "none"
      <4>1. i + 1 \in Chain /\ Sound(i + 1)
        BY <3>1, <3>2, <3>5 DEF IInv, Types, Endings, Sound
      <4> QED BY <1>3, <3>5, <4>1 DEF IInv, EndedWithoutViolation
    <3> QED BY <1>2, <2>2, <3>3, <3>4, <3>5
  <2> QED BY <2>1, <2>2
<1>12. EndedWithEverybody'
  <2> SUFFICES ASSUME NEW j \in Chain, down'[j - 1] = "ok",
                      \A k \in Chain : k >= j => down'[k] # "error",
                      NEW l \in Chain, l >= j
               PROVE  body'[l] = "done" /\ calls'[l] = 1
    BY DEF EndedWithEverybody
  <2>1. \A k \in Chain : k >= j => down[k] # "error"
    BY <1>4, <1>6
  <2>2. CASE j # i
    <3>1. down[j - 1] = "ok"
      BY <1>4, <2>2
    <3> QED BY <1>1, <1>4, <2>1, <3>1 DEF IInv, EndedWithEverybody
  <2>3. CASE j = i
    <3>1. ~aborted /\ calls[i] = 1 /\ ~violated[i] /\ down[i] # "none"
      BY <1>2, <1>4, <2>3 DEF Verdict
    <3>2. down[i] = "ok"
      BY <2>1, <2>3, <3>1 DEF IInv, Types, Endings, RulesAreRecorded
    <3>3. CASE l = i
      BY <1>1, <1>4, <3>1, <3>3
    <3>4. CASE l > i
      <4>1. i + 1 \in Chain /\ l >= i + 1
        BY <3>4
      <4> QED BY <1>1, <1>4, <2>1, <2>3, <3>2, <3>4, <4>1 DEF IInv, EndedWithEverybody
    <3> QED BY <2>3, <3>3, <3>4
  <2> QED BY <2>2, <2>3
<1> QED BY <1>7, <1>8, <1>9, <1>10, <1>11, <1>12 DEF IInv

----------------------------------------------------------------------------

\* Every step of use keeps the invariant.
LEMMA IInvAtStep == Careful /\ IInv /\ [Next]_vars => IInv'
<1> SUFFICES ASSUME Careful, IInv, [Next]_vars PROVE IInv'
  OBVIOUS
<1> USE DEF Careful, Transforms
<1>1. ASSUME NEW i \in Chain, NextRuns(i) PROVE IInv'
  BY <1>1, NextRunsPreserves
<1>2. ASSUME NEW i \in Chain, CallNextAgain(i) PROVE IInv'
  BY <1>2, CallNextAgainPreserves
<1>3. ASSUME NEW i \in Chain, Returns(i) \/ Throws(i) PROVE IInv'
  BY <1>3, ReturnsWithVerdict, ThrowsWithVerdict, LeavePreserves
<1>4. ASSUME NEW i \in Chain,
             SetDestination(i) \/ NextWithoutDestination(i) \/ NextFails(i)
      PROVE  FALSE
  BY <1>4 DEF SetDestination, NextWithoutDestination, NextFails
<1>5. CASE UNCHANGED vars
  BY <1>5 DEF vars, IInv, Types, FramesAreNested, EndedFromTheInside,
     RulesAreRecorded, EndedWithoutViolation, Sound, EndedWithEverybody
<1> QED BY <1>1, <1>2, <1>3, <1>4, <1>5, BottomPreserves, AbortPreserves DEF Next, Quiet

\* What kind of middleware there are does not change.
LEMMA CarefulAtStep == [Next]_vars => (Careful' <=> Careful)
<1> SUFFICES ASSUME [Next]_vars PROVE setting' = setting
  BY DEF Careful, Operation, Hasty
<1> QED
  BY DEF Next, vars, SetDestination, NextRuns, NextWithoutDestination, NextFails, FirstCall,
     CallNextAgain, Bottom, Returns, Throws, Leave, Abort, Quiet

\* use keeps the invariant for every depth and whoever throws, as long as the
\* middleware await the next() that they call.
THEOREM UseInvariant == Spec => [](Careful => IInv)
<1>1. Init => (Careful => IInv)
  BY IInvAtFirst
<1>2. (Careful => IInv) /\ [Next]_vars => (Careful => IInv)'
  BY IInvAtStep, CarefulAtStep
<1> QED BY <1>1, <1>2, PTL DEF Spec

\* A middleware of use runs only when the one outside it has called next().
THEOREM UseTypeOK == Spec => [](Careful => TypeOK)
<1>1. Careful /\ IInv => TypeOK
  BY DepthAssumption DEF IInv, Types, FramesAreNested, TypeOK, Careful, Transforms, Chain
<1> QED BY <1>1, UseInvariant, PTL

\* A rule that any middleware of use broke fails the call, whatever the
\* middleware outside it swallow or throw.
THEOREM UseViolationSurfaces == Spec => [](Careful => ViolationSurfaces)
<1>1. IInv => ViolationSurfaces
  BY DepthAssumption DEF IInv, EndedWithoutViolation, Sound, ViolationSurfaces, Chain
<1> QED BY <1>1, UseInvariant, PTL

\* When the storages are called, no middleware of use is still running.
THEOREM UseNothingRunsAfterwards == Spec => [](Careful => NothingRunsAfterwards)
<1>1. IInv => NothingRunsAfterwards
  <2> SUFFICES ASSUME IInv, down[0] = "ok", NEW i \in Chain
               PROVE  body[i] # "running"
    BY DEF NothingRunsAfterwards
  <2>1. 1 \in Chain /\ body[1] = "done"
    BY DepthAssumption DEF IInv, FramesAreNested, Chain
  <2> QED BY <2>1, DepthAssumption DEF IInv, EndedFromTheInside, Inside, Chain
<1> QED BY <1>1, UseInvariant, PTL

\* use succeeds without one of its middleware only after an error that
\* somebody swallowed.
THEOREM UseNobodyIsSkipped == Spec => [](Careful => NobodyIsSkipped)
<1>1. IInv => NobodyIsSkipped
  BY DepthAssumption DEF IInv, EndedWithEverybody, NobodyIsSkipped, Chain
<1> QED BY <1>1, UseInvariant, PTL
=============================================================================
