------------------------- MODULE PipelineGraph_proofs -------------------------
(***************************************************************************)
(* Proofs about the walks over the graph of the pipelines, for graphs of   *)
(* every shape and for middleware that break every rule.                   *)
(***************************************************************************)
EXTENDS PipelineGraph, FiniteSetTheorems, TLAPS

Inner == Nodes \ {<<>>}

\* A repair or a stream; the operations that let everything pass.
Plain == Operation \in {"encode", "decodeStream"}

\* What a failure of the children or of the signal may be, behind the start.
NoLeak(reason) ==
    /\ Operation = "repair" => reason # "error"
    /\ IsRepair /\ ~setting.throwOnDenied => reason # "denied"

----------------------------------------------------------------------------
(* the inductive invariant *)

\* The root is there from the beginning, and it has no body.
RootOK ==
    LET f == frame[<<>>]
    IN  /\ f.body = "done" /\ f.threw = "none" /\ f.end = "none" /\ f.made = <<>>
        /\ ~f.started /\ ~f.produced /\ f.calls = 0
        /\ f.next # "none"
        /\ f.violated => f.next = "contract"
        /\ RefusesAtOnce <=> f.next = "refused"
        /\ NoLeak(f.next)

\* A node that repair passes through has no body; its walk ends as that of its
\* entries.
PassingOK(n) ==
    LET f == frame[n]
    IN  /\ f.body # "running"
        /\ ~f.violated /\ ~f.started /\ ~f.produced /\ f.calls = 0 /\ f.threw = "none"
        /\ f.next \in {"none", "running", "ok", "aborted"}
        /\ f.body # "idle" => f.next # "none"
        /\ f.body = "done" => f.end = f.next /\ f.next # "running"

\* The body of a node, its calls of next() and how they stand.
BodyOK(n) ==
    LET f == frame[n]
    IN  /\ f.body # "passing"
        /\ f.next # "none" => f.calls # 0 /\ f.produced
        /\ f.next \in {"running", "ok"} => f.started
        /\ f.started => f.next # "none" /\ f.made = n /\ NoLeak(f.next)
        /\ f.body = "running" /\ ~f.started => f.made = Parent(n)
        /\ f.body = "done" /\ f.next = "running" => Hasty

\* How the walk of a node has ended, and what it has told of.
EndingOK(n) ==
    LET f == frame[n]
    IN  /\ f.end # "none"
        /\ NoLeak(f.end)
        /\ f.end = "ok" /\ f.threw = "none" =>
              f.next \in {"ok"} \cup Failures \/ (aborted /\ Operation = "repair")
        /\ f.end = "skipped" => Operation = "streamRepair" /\ f.threw # "none" /\ ~f.started
        /\ f.violated /\ ~Plain /\ ~Hasty => f.end = "contract" \/ aborted
        /\ f.threw = "passed" /\ f.started => f.end \in Failures \/ aborted
        /\ IsRepair /\ setting.throwOnDenied /\ IsDenied(n) =>
              f.end \in Failures \/ refused \/ aborted \/ Swallows(n)
        /\ IsStream /\ f.end = "ok" => Swallows(n) \/ (f.started /\ (f.next = "ok" \/ Hasty))

NodeOK(n) ==
    /\ frame[n].body = "idle" => frame[n] = Idle
    /\ frame[n].body # "done" => frame[n].threw = "none" /\ frame[n].end = "none"
    /\ frame[n].next # "refused"
    /\ frame[n].end = "aborted" => aborted
    /\ IF PassesThrough(n) THEN PassingOK(n)
       ELSE BodyOK(n) /\ (frame[n].body = "done" => EndingOK(n))

LocalOK == \A n \in Inner : NodeOK(n)

\* Only the current child of a node is walked, and only while the next() of the
\* node runs; a child that fails has failed it.
ChildOK(c) ==
    LET p == Parent(c)
    IN  /\ frame[c].body # "idle" =>
              /\ ActiveLeaves(c) # {} /\ frame[p].next \notin {"none", "refused"}
              /\ p = <<>> \/ PassesThrough(p) \/ frame[p].started
        /\ frame[c].body \in {"running", "passing"} =>
              Serves(p) /\ ~IsLeafOf(p, Current(p)) /\ Child(p, Current(p)) = c
        /\ frame[c].body = "done" /\ frame[c].end \in Failures => frame[p].next = frame[c].end
        /\ frame[c].body = "done" /\ frame[c].end = "contract" => frame[p].violated

LinkOK == \A c \in Inner : ChildOK(c)

\* The entries before frame[n].at have been served, or have refused to be.
LeafServed(i) ==
    /\ IsActive(i) /\ (Operation = "repair" => CanRepair(i)) => target[i].state # "none"
    /\ IsActive(i) /\ Operation = "repair" /\ ~CanRepair(i) /\ setting.throwOnDenied => refused
ChildServed(c) ==
    ActiveLeaves(c) # {} => frame[c].body = "done" /\ frame[c].end \in {"ok", "skipped"}

EntriesOK(n) ==
    /\ frame[n].next = "ok" => IsServed(n)
    /\ frame[n].next = "aborted" => aborted
    /\ \A i \in Served(n) : i < frame[n].at =>
          IF IsLeafOf(n, i) THEN LeafServed(i) ELSE ChildServed(Child(n, i))

ServedOK == \A n \in Nodes : EntriesOK(n)

TargetsOK ==
    \A i \in Leaves :
        /\ target[i].state # "none" =>
              target[i].made = Path(i) /\ IsActive(i) /\ (IsRepair => CanRepair(i))
        /\ target[i].state \in {"writing", "written", "failed", "denied"} => Operation = "repair"

OutcomeOK ==
    /\ outcome # "none" => frame[<<>>].next # "running"
    /\ outcome = "ok" => frame[<<>>].next = "ok" /\ (Operation # "encode" => ~aborted)
    /\ refused => setting.throwOnDenied /\ Operation = "repair"
    /\ outcome = "ok" /\ ~Hasty => ~refused
    /\ outcome = "ok" /\ ~Hasty /\ setting.throwOnDenied =>
          \A i \in Leaves : target[i].state # "denied"
    /\ NoLeak(outcome)
    /\ outcome # "none" /\ ~Hasty => \A i \in Leaves : target[i].state # "writing"

\* The streams follow the walk.
StreamOK(n) ==
    /\ input[n] = "free" =>
          /\ Parent(n) = <<>> \/ (frame[Parent(n)].started /\ ~PassesThrough(Parent(n)))
          /\ ActiveLeaves(n) # {} /\ ~frame[n].produced /\ frame[n].end # "skipped"
    /\ output[n] = "free" => frame[n].produced /\ ~frame[n].started /\ frame[n].end # "skipped"

NothingIsFree ==
    /\ \A n \in Nodes : input[n] # "free" /\ output[n] # "free"
    /\ \A i \in Leaves : branch[i] # "free"
    /\ read # "free"

StreamsOK ==
    /\ ~IsStream => /\ \A n \in Nodes : input[n] = "none" /\ output[n] = "none"
                    /\ \A i \in Leaves : branch[i] = "none"
    /\ Operation # "streamRepair" => read = "none"
    /\ output[<<>>] # "free" /\ input[<<>>] # "free"
    /\ \A n \in Inner : StreamOK(n)
    /\ \A i \in Leaves : branch[i] = "free" =>
          i \in Served(Path(i)) /\ (Path(i) = <<>> \/ frame[Path(i)].started)
    /\ outcome \in Failures /\ ~Hasty => NothingIsFree

Inv ==
    /\ IsSetting(setting) /\ TypeOK
    /\ RootOK /\ LocalOK /\ LinkOK /\ ServedOK /\ TargetsOK /\ OutcomeOK /\ StreamsOK

----------------------------------------------------------------------------
(* numbers and sequences *)

\* Every set of natural numbers has a least one.
LEMMA LeastOf ==
    ASSUME NEW S, S \subseteq Nat, S # {}
    PROVE  \E n \in S : \A m \in S : n <= m
<1> DEFINE R == OpToRel(<, Nat)
<1>1. IsWellFoundedOn(R, Nat)
  BY NatLessThanWellFounded
<1>2. \A m, n \in Nat : m < n => <<m, n>> \in R
  BY DEF OpToRel
<1> HIDE DEF R
<1>3. \E n \in S : \A m \in S : ~(<<m, n>> \in R)
  BY <1>1, WFMin
<1>4. PICK n \in S : \A m \in S : ~(<<m, n>> \in R)
  BY <1>3, Zenon
<1>5. \A m \in S : ~(m < n) /\ m \in Nat /\ n \in Nat
  BY <1>2, <1>4
<1> QED
  BY <1>5

LEMMA Prefixes ==
    ASSUME NEW N, NEW p \in Seq(N), NEW d \in 0 .. Len(p)
    PROVE  /\ SubSeq(p, 1, d) \in Seq(N) /\ Len(SubSeq(p, 1, d)) = d
           /\ SubSeq(p, 1, Len(p)) = p /\ SubSeq(p, 1, 0) = <<>>
           /\ d = 0 <=> SubSeq(p, 1, d) = <<>>
  OBVIOUS

LEMMA PrefixOfPrefix ==
    ASSUME NEW N, NEW p \in Seq(N), NEW d \in 0 .. Len(p), NEW e \in 0 .. d
    PROVE  SubSeq(SubSeq(p, 1, d), 1, e) = SubSeq(p, 1, e)
  OBVIOUS

LEMMA LastOfPrefix ==
    ASSUME NEW N, NEW p \in Seq(N), NEW d \in 1 .. Len(p)
    PROVE  /\ SubSeq(p, 1, d) = Append(SubSeq(p, 1, d - 1), p[d])
           /\ SubSeq(p, 1, d)[d] = p[d]
  OBVIOUS

----------------------------------------------------------------------------
(* the graph *)

Names == DOMAIN setting.may

\* The leaves are numbered, and their paths are sequences.
LEMMA LeavesAre ==
    ASSUME IsSetting(setting)
    PROVE  /\ \E k \in Nat \ {0} : Leaves = 1 .. k
           /\ 1 \in Leaves
           /\ \A i \in Leaves : i \in Nat /\ Path(i) \in Seq(Names)
  BY DEF IsSetting, Leaves, Path, Names

\* The nodes are the beginnings of the paths.
LEMMA NodesAre ==
    ASSUME IsSetting(setting)
    PROVE  /\ <<>> \in Nodes
           /\ \A i \in Leaves : \A d \in 0 .. Len(Path(i)) : SubSeq(Path(i), 1, d) \in Nodes
           /\ \A n \in Nodes : \E i \in Leaves : \E d \in 0 .. Len(Path(i)) : n = SubSeq(Path(i), 1, d)
           /\ \A n \in Nodes : n \in Seq(Names)
<1>1. \A i \in Leaves : \A d \in 0 .. Len(Path(i)) : SubSeq(Path(i), 1, d) \in Nodes
  BY DEF Nodes
<1>2. \A n \in Nodes : \E i \in Leaves : \E d \in 0 .. Len(Path(i)) : n = SubSeq(Path(i), 1, d)
  BY DEF Nodes
<1>3. <<>> \in Nodes
  <2>1. SubSeq(Path(1), 1, 0) = <<>> /\ 0 \in 0 .. Len(Path(1))
    BY LeavesAre, Prefixes
  <2> QED
    BY <1>1, <2>1, LeavesAre
<1>4. ASSUME NEW n \in Nodes PROVE n \in Seq(Names)
  <2>1. PICK i \in Leaves : \E d \in 0 .. Len(Path(i)) : n = SubSeq(Path(i), 1, d)
    BY <1>2
  <2>2. Path(i) \in Seq(Names)
    BY LeavesAre
  <2> QED
    BY <2>1, <2>2, Prefixes
<1> QED
  BY <1>1, <1>2, <1>3, <1>4

\* The parent of a node is a node, and the node is its parent and one more
\* middleware.
LEMMA ParentIs ==
    ASSUME IsSetting(setting), NEW n \in Inner
    PROVE  /\ n \in Nodes /\ n # <<>>
           /\ Parent(n) \in Nodes /\ Parent(n) # n
           /\ Len(n) \in Nat /\ Len(Parent(n)) \in Nat /\ Len(Parent(n)) = Len(n) - 1
           /\ n = Append(Parent(n), Middleware(n))
<1>0. PICK i \in Leaves : \E d \in 0 .. Len(Path(i)) : n = SubSeq(Path(i), 1, d)
  BY NodesAre DEF Inner
<1>1. PICK d \in 0 .. Len(Path(i)) : n = SubSeq(Path(i), 1, d)
  BY <1>0
<1>2. Path(i) \in Seq(Names) /\ Len(Path(i)) \in Nat
  BY LeavesAre
<1>3. d \in 1 .. Len(Path(i)) /\ Len(n) = d
  BY <1>1, <1>2, Prefixes DEF Inner
<1>4. Parent(n) = SubSeq(Path(i), 1, d - 1)
  BY <1>1, <1>2, <1>3, PrefixOfPrefix DEF Parent
<1>5. Len(Parent(n)) = d - 1 /\ d - 1 \in 0 .. Len(Path(i))
  BY <1>2, <1>3, <1>4, Prefixes
<1>6. n = Append(Parent(n), Middleware(n))
  BY <1>1, <1>2, <1>3, <1>4, LastOfPrefix DEF Middleware
<1>7. Parent(n) \in Nodes
  BY <1>4, <1>5, NodesAre
<1> QED
  BY <1>3, <1>5, <1>6, <1>7 DEF Inner

\* A leaf is below the beginnings of its path, and below no other node.
LEMMA BelowIs ==
    ASSUME IsSetting(setting), NEW n \in Nodes, NEW i \in Leaves
    PROVE  i \in AllLeaves(n) <=> \E d \in 0 .. Len(Path(i)) : n = SubSeq(Path(i), 1, d)
<1>1. n \in Seq(Names) /\ Path(i) \in Seq(Names)
  BY NodesAre, LeavesAre
<1> QED
  BY <1>1, Prefixes DEF AllLeaves, IsPrefix

LEMMA AllLeavesAre ==
    ASSUME IsSetting(setting), NEW n \in Nodes
    PROVE  AllLeaves(n) \subseteq Leaves /\ AllLeaves(n) # {} /\ AllLeaves(n) \subseteq Nat
<1>1. PICK i \in Leaves : \E d \in 0 .. Len(Path(i)) : n = SubSeq(Path(i), 1, d)
  BY NodesAre
<1>2. i \in AllLeaves(n)
  BY <1>1, BelowIs
<1> QED
  BY <1>2, LeavesAre DEF AllLeaves

\* The children of a node.
LEMMA ChildIs ==
    ASSUME IsSetting(setting), NEW n \in Nodes, NEW i \in AllLeaves(n), ~IsLeafOf(n, i)
    PROVE  /\ Child(n, i) \in Inner /\ Parent(Child(n, i)) = n
           /\ i \in AllLeaves(Child(n, i))
<1>0. i \in Leaves
  BY DEF AllLeaves
<1>1. PICK d \in 0 .. Len(Path(i)) : n = SubSeq(Path(i), 1, d)
  BY <1>0, BelowIs
<1>2. Path(i) \in Seq(Names) /\ Len(Path(i)) \in Nat
  BY <1>0, LeavesAre
<1>3. Len(n) = d /\ d # Len(Path(i))
  BY <1>1, <1>2, Prefixes DEF IsLeafOf
<1>4. d + 1 \in 0 .. Len(Path(i)) /\ Child(n, i) = SubSeq(Path(i), 1, d + 1)
  BY <1>2, <1>3 DEF Child
<1>5. Child(n, i) \in Inner
  <2>1. Child(n, i) \in Nodes
    BY <1>0, <1>4, NodesAre
  <2>2. Child(n, i) # <<>>
    BY <1>2, <1>3, <1>4, Prefixes
  <2> QED
    BY <2>1, <2>2 DEF Inner
<1>6. Parent(Child(n, i)) = n
  <2>1. Len(Child(n, i)) = d + 1
    BY <1>2, <1>4, Prefixes
  <2>2. SubSeq(SubSeq(Path(i), 1, d + 1), 1, d) = SubSeq(Path(i), 1, d)
    BY <1>2, <1>4, PrefixOfPrefix
  <2> QED
    BY <1>1, <1>2, <1>4, <2>1, <2>2 DEF Parent
<1>7. i \in AllLeaves(Child(n, i))
  BY <1>0, <1>4, <1>5, BelowIs DEF Inner
<1> QED
  BY <1>5, <1>6, <1>7

\* The leaves of a node are leaves of its parent.
LEMMA LeavesOfParent ==
    ASSUME IsSetting(setting), NEW c \in Inner, NEW i \in AllLeaves(c)
    PROVE  i \in AllLeaves(Parent(c)) /\ ~IsLeafOf(Parent(c), i) /\ Child(Parent(c), i) = c
<1>0. i \in Leaves
  BY DEF AllLeaves
<1>1. PICK d \in 0 .. Len(Path(i)) : c = SubSeq(Path(i), 1, d)
  BY <1>0, BelowIs DEF Inner
<1>2. Path(i) \in Seq(Names) /\ Len(Path(i)) \in Nat
  BY <1>0, LeavesAre
<1>3. Len(c) = d /\ d \in 1 .. Len(Path(i)) /\ d - 1 \in 0 .. Len(Path(i))
  BY <1>1, <1>2, Prefixes DEF Inner
<1>4. Parent(c) = SubSeq(Path(i), 1, d - 1)
  BY <1>1, <1>2, <1>3, PrefixOfPrefix DEF Parent
<1>5. Len(Parent(c)) = d - 1
  BY <1>2, <1>3, <1>4, Prefixes
<1>6. i \in AllLeaves(Parent(c))
  BY <1>0, <1>3, <1>4, ParentIs, BelowIs
<1> QED
  BY <1>1, <1>2, <1>3, <1>5, <1>6 DEF IsLeafOf, Child

LEMMA ServedIs ==
    ASSUME IsSetting(setting), NEW n \in Nodes
    PROVE  Served(n) \subseteq AllLeaves(n) /\ Served(n) \subseteq Nat /\ Served(n) \subseteq Leaves
  BY AllLeavesAre DEF Served, BranchEntries, Entries

\* A child with active leaves is an entry of its parent.
LEMMA EntryOfChild ==
    ASSUME IsSetting(setting), NEW c \in Inner, ActiveLeaves(c) # {}
    PROVE  \E i \in Served(Parent(c)) : ~IsLeafOf(Parent(c), i) /\ Child(Parent(c), i) = c
<1>1. AllLeaves(c) \subseteq Nat /\ AllLeaves(c) # {}
  BY AllLeavesAre DEF Inner
<1>2. PICK i \in AllLeaves(c) : \A j \in AllLeaves(c) : i <= j
  BY <1>1, LeastOf
<1>3. i \in AllLeaves(Parent(c)) /\ ~IsLeafOf(Parent(c), i) /\ Child(Parent(c), i) = c
  BY LeavesOfParent
<1>4. i \in Entries(Parent(c))
  BY <1>2, <1>3 DEF Entries
<1> QED
  BY <1>3, <1>4 DEF Served, BranchEntries

\* An active leaf is an entry of the last node of its path.
LEMMA EntryOfLeaf ==
    ASSUME IsSetting(setting), NEW i \in Leaves
    PROVE  /\ Path(i) \in Nodes /\ IsLeafOf(Path(i), i) /\ i \in AllLeaves(Path(i))
           /\ IsActive(i) => i \in Served(Path(i))
<1>1. Path(i) \in Seq(Names) /\ Len(Path(i)) \in 0 .. Len(Path(i))
  BY LeavesAre
<1>2. Path(i) = SubSeq(Path(i), 1, Len(Path(i)))
  BY <1>1, Prefixes
<1>3. Path(i) \in Nodes
  BY <1>1, <1>2, NodesAre
<1>4. i \in AllLeaves(Path(i))
  BY <1>1, <1>2, <1>3, BelowIs
<1> QED
  BY <1>3, <1>4 DEF IsLeafOf, Served, Entries, BranchEntries

\* The entry that is served next.
LEMMA CurrentIs ==
    ASSUME IsSetting(setting), NEW n \in Nodes, frame[n].at \in Nat, ~IsServed(n)
    PROVE  /\ Current(n) \in Served(n) /\ Current(n) \in Nat /\ Current(n) >= frame[n].at
           /\ \A j \in Served(n) : j >= frame[n].at => Current(n) <= j
<1> DEFINE Rest == {i \in Served(n) : i >= frame[n].at}
<1>1. Rest \subseteq Nat /\ Rest # {}
  BY ServedIs DEF IsServed
<1>2. PICK i \in Rest : \A j \in Rest : i <= j
  BY <1>1, LeastOf
<1>3. \E k \in Served(n) : k >= frame[n].at /\ \A j \in Served(n) : j >= frame[n].at => k <= j
  BY <1>2
<1> QED
  BY <1>3, ServedIs DEF Current

LEMMA ActiveBelow ==
    ASSUME IsSetting(setting), NEW c \in Inner
    PROVE  ActiveLeaves(c) \subseteq ActiveLeaves(Parent(c))
  BY LeavesOfParent DEF ActiveLeaves

\* What repair passes through, it passes through to the leaves.
LEMMA PassesDown ==
    ASSUME IsSetting(setting), NEW c \in Inner, PassesThrough(Parent(c)), ActiveLeaves(c) # {}
    PROVE  PassesThrough(c)
  BY ActiveBelow DEF PassesThrough

LEMMA PassesNoLeaf ==
    ASSUME NEW n, PassesThrough(n), NEW i \in ActiveLeaves(n)
    PROVE  Operation = "repair" /\ ~CanRepair(i)
  BY DEF PassesThrough

----------------------------------------------------------------------------
(* what never changes *)

LEMMA Fixed ==
    ASSUME UNCHANGED setting
    PROVE  /\ Leaves' = Leaves /\ Nodes' = Nodes /\ Inner' = Inner
           /\ Operation' = Operation /\ IsRepair' = IsRepair /\ IsStream' = IsStream /\ Plain' = Plain
           /\ \A n : PassesThrough(n)' = PassesThrough(n)
           /\ \A n : Served(n)' = Served(n) /\ AllLeaves(n)' = AllLeaves(n)
           /\ \A n : ActiveLeaves(n)' = ActiveLeaves(n)
           /\ \A i : Path(i)' = Path(i) /\ IsActive(i)' = IsActive(i) /\ CanRepair(i)' = CanRepair(i)
           /\ \A n, i : IsLeafOf(n, i)' = IsLeafOf(n, i) /\ Child(n, i)' = Child(n, i)
           /\ RefusesAtOnce' = RefusesAtOnce /\ Hasty' = Hasty
           /\ \A reason : NoLeak(reason)' = NoLeak(reason)
           /\ Frames' = Frames /\ Targets' = Targets /\ IsSetting(setting)' = IsSetting(setting)
  BY DEF Leaves, Nodes, Inner, Operation, IsRepair, IsStream, Plain, PassesThrough, Served, Entries,
         BranchEntries, AllLeaves, ActiveLeaves, Path, IsActive, CanRepair, IsLeafOf, Child,
         RefusesAtOnce, Hasty, May, NoLeak, Parent, Middleware, Frames, Targets


LEMMA AtIs ==
    ASSUME IsSetting(setting), NEW n \in Nodes, frame \in [Nodes -> Frames], ~IsServed(n)
    PROVE  Current(n) + 1 \in 1 .. Cardinality(Leaves) + 1 /\ frame[n].at \in Nat
<1>1. frame[n].at \in Nat
  BY DEF Frames
<1>2. PICK k \in Nat \ {0} : Leaves = 1 .. k
  BY LeavesAre
<1>3. Cardinality(Leaves) = k
  BY <1>2, FS_Interval
<1>4. Current(n) \in Leaves
  BY <1>1, CurrentIs, ServedIs
<1> QED
  BY <1>1, <1>2, <1>3, <1>4

----------------------------------------------------------------------------
(* the beginning *)

LEMMA InitInv ==
    ASSUME \A s \in Settings : IsSetting(s), Init
    PROVE  Inv
<1>1. IsSetting(setting) /\ setting \in Settings
  BY DEF Init
<1>2. <<>> \in Nodes /\ 1 \in Nat /\ Cardinality(Leaves) \in Nat
  <2>1. PICK k \in Nat \ {0} : Leaves = 1 .. k
    BY <1>1, LeavesAre
  <2>2. Cardinality(Leaves) = k
    BY <2>1, FS_Interval
  <2>3. <<>> \in Nodes
    BY <1>1, NodesAre
  <2> QED
    BY <2>2, <2>3
<1> DEFINE first == IF RefusesAtOnce THEN "refused" ELSE "running"
<1>3. /\ frame = [n \in Nodes |-> IF n # <<>> THEN Idle
                                  ELSE [Idle EXCEPT !.body = "done", !.next = first]]
      /\ target = [i \in Leaves |-> [state |-> "none", made |-> <<>>]]
      /\ refused = FALSE /\ aborted = FALSE /\ outcome = "none"
  BY DEF Init
<1>4. first \in {"refused", "running"} /\ (first = "refused" <=> RefusesAtOnce)
  OBVIOUS
<1> HIDE DEF first
<1>5. /\ \A n \in Inner : frame[n] = Idle
      /\ frame[<<>>] = [Idle EXCEPT !.body = "done", !.next = first]
      /\ \A i \in Leaves : target[i] = [state |-> "none", made |-> <<>>]
  BY <1>2, <1>3 DEF Inner
<1>6. /\ input \in [Nodes -> {"none", "free"}] /\ output \in [Nodes -> {"none", "used"}]
      /\ branch \in [Leaves -> {"none", "free"}] /\ read \in {"none", "free"}
      /\ input[<<>>] # "free"
      /\ IsStream => \A n \in Inner : input[n] = "free" => Parent(n) = <<>> /\ ActiveLeaves(n) # {}
      /\ ~IsStream => /\ \A n \in Nodes : input[n] = "none" /\ output[n] = "none"
                      /\ \A i \in Leaves : branch[i] = "none"
      /\ Operation # "streamRepair" => read = "none"
      /\ IsStream => \A i \in Leaves : branch[i] = "free" =>
            i \in BranchEntries(<<>>) /\ IsLeafOf(<<>>, i)
  BY <1>2 DEF Init, Inner
<1>7. TypeOK
  <2>0. 1 \in 1 .. Cardinality(Leaves) + 1
    BY <1>2
  <2>1. Idle \in Frames
    BY <1>2, <2>0 DEF Idle, Frames
  <2>3. [Idle EXCEPT !.body = "done", !.next = first] \in Frames
    BY <1>4, <2>1 DEF Frames
  <2>2. [state |-> "none", made |-> <<>>] \in Targets
    BY <1>2 DEF Targets
  <2> QED
    BY <1>1, <1>3, <1>6, <2>1, <2>2, <2>3 DEF TypeOK, Streams
<1>8. RootOK
  BY <1>4, <1>5 DEF RootOK, Idle, NoLeak
<1>9. LocalOK
  BY <1>5 DEF LocalOK, NodeOK, Idle, PassingOK, BodyOK
<1>10. LinkOK
  BY <1>5 DEF LinkOK, ChildOK, Idle
<1>11. ServedOK
  <2> SUFFICES ASSUME NEW n \in Nodes PROVE EntriesOK(n)
    BY DEF ServedOK
  <2>1. frame[n].at = 1 /\ frame[n].next \notin {"ok", "aborted"}
    <3>1. CASE n = <<>>
      BY <1>4, <1>5, <3>1 DEF Idle
    <3>2. CASE n # <<>>
      BY <1>5, <3>2 DEF Idle, Inner
    <3> QED
      BY <3>1, <3>2
  <2>2. \A i \in Served(n) : ~(i < 1)
    <3>1. Served(n) \subseteq Leaves
      BY <1>1, ServedIs
    <3> QED
      BY <1>1, <3>1, LeavesAre
  <2> QED
    BY <2>1, <2>2 DEF EntriesOK
<1>12. TargetsOK /\ OutcomeOK
  BY <1>3, <1>5 DEF TargetsOK, OutcomeOK, NoLeak, Failures
<1>13. StreamsOK
  <2>1. \A n \in Inner : StreamOK(n)
    <3> SUFFICES ASSUME NEW n \in Inner, input[n] = "free" PROVE StreamOK(n)
      BY <1>6 DEF StreamOK, Inner
    <3>1. IsStream /\ Parent(n) = <<>> /\ ActiveLeaves(n) # {} /\ n \in Nodes
      BY <1>6 DEF Inner
    <3>2. ~PassesThrough(Parent(n))
      BY <3>1 DEF PassesThrough, IsStream
    <3>3. output[n] # "free" /\ frame[<<>>].next # "none"
      BY <1>4, <1>5, <1>6, <3>1 DEF Idle
    <3>4. ~frame[n].produced /\ frame[n].end # "skipped"
      BY <1>5 DEF Idle
    <3> QED
      BY <3>1, <3>2, <3>3, <3>4 DEF StreamOK
  <2>2. \A i \in Leaves : branch[i] = "free" => i \in Served(Path(i)) /\ Path(i) = <<>>
    BY <1>6 DEF Served, IsLeafOf
  <2> QED
    BY <1>2, <1>3, <1>6, <2>1, <2>2 DEF StreamsOK, Failures
<1> QED
  BY <1>1, <1>7, <1>8, <1>9, <1>10, <1>11, <1>12, <1>13 DEF Inv

----------------------------------------------------------------------------
(* what the invariant says of a state *)

\* Whoever runs is run by a parent that runs, up to the root.
LEMMA NothingRuns ==
    ASSUME Inv, ~Hasty, frame[<<>>].next # "running"
    PROVE  /\ \A n \in Inner : frame[n].body \notin {"running", "passing"}
           /\ \A n \in Nodes : frame[n].next # "running"
<1>1. \A n \in Inner : frame[n].next = "running" => frame[n].body \in {"running", "passing"}
  <2> SUFFICES ASSUME NEW n \in Inner, frame[n].next = "running"
               PROVE  frame[n].body \in {"running", "passing"}
    OBVIOUS
  <2>1. NodeOK(n) /\ frame[n] \in Frames
    BY DEF Inv, LocalOK, TypeOK, Inner
  <2>2. frame[n].body # "idle"
    BY <2>1 DEF NodeOK, Idle
  <2>3. frame[n].body # "done"
    BY <2>1 DEF NodeOK, PassingOK, BodyOK
  <2> QED
    BY <2>1, <2>2, <2>3 DEF Frames
<1>2. ASSUME NEW n \in Inner, frame[n].body \in {"running", "passing"}
      PROVE  Parent(n) \in Inner /\ frame[Parent(n)].body \in {"running", "passing"}
  <2>1. frame[Parent(n)].next = "running"
    BY <1>2 DEF Inv, LinkOK, ChildOK, Serves
  <2>2. Parent(n) \in Inner
    BY <2>1, ParentIs DEF Inv, Inner
  <2> QED
    BY <1>1, <2>1, <2>2
<1>3. \A n \in Inner : frame[n].body \notin {"running", "passing"}
  <2> SUFFICES ASSUME NEW n \in Inner, frame[n].body \in {"running", "passing"} PROVE FALSE
    OBVIOUS
  <2> DEFINE Lengths == {Len(m) : m \in {m \in Inner : frame[m].body \in {"running", "passing"}}}
  <2>1. Lengths \subseteq Nat /\ Lengths # {}
    BY ParentIs DEF Inv
  <2>2. PICK k \in Lengths : \A l \in Lengths : k <= l
    BY <2>1, LeastOf
  <2>3. PICK m \in Inner : frame[m].body \in {"running", "passing"} /\ Len(m) = k
    BY <2>2
  <2>4. Len(Parent(m)) \in Lengths
    BY <1>2, <2>3
  <2>5. Len(Parent(m)) = Len(m) - 1 /\ Len(m) \in Nat
    BY <2>3, ParentIs DEF Inv
  <2> QED
    BY <2>2, <2>3, <2>4, <2>5
<1> QED
  BY <1>1, <1>3 DEF Inner

\* A body that runs belongs to a walk that has not ended.
LEMMA RunningIs ==
    ASSUME Inv, NEW n \in Inner, Running(n)
    PROVE  /\ n \in Nodes /\ frame[n] \in Frames
           /\ ~PassesThrough(n) /\ BodyOK(n)
           /\ frame[n].threw = "none" /\ frame[n].end = "none" /\ frame[n].next # "refused"
           /\ ActiveLeaves(n) # {} /\ frame[Parent(n)].next = "running"
           /\ ~PassesThrough(Parent(n))
           /\ outcome # "none" => Hasty
<1>1. NodeOK(n) /\ ChildOK(n) /\ n \in Nodes /\ frame[n] \in Frames
  BY DEF Inv, LocalOK, LinkOK, TypeOK, Inner
<1>2. ~PassesThrough(n) /\ BodyOK(n)
  BY <1>1 DEF NodeOK, PassingOK, Running
<1>3. ActiveLeaves(n) # {} /\ frame[Parent(n)].next = "running"
  BY <1>1 DEF ChildOK, Running, Serves
<1>4. ~PassesThrough(Parent(n))
  BY <1>2, <1>3, PassesDown DEF Inv
<1>5. outcome # "none" => Hasty
  BY NothingRuns DEF Running, Inv, OutcomeOK
<1> QED
  BY <1>1, <1>2, <1>3, <1>4, <1>5 DEF NodeOK, Running

\* A next() that runs belongs to a walk that has not ended.
LEMMA ServesIs ==
    ASSUME Inv, NEW n \in Nodes, frame[n].next = "running"
    PROVE  /\ frame[n] \in Frames /\ frame[n].at \in Nat
           /\ outcome # "none" => Hasty
           /\ n # <<>> => /\ frame[n].body # "idle" /\ ActiveLeaves(n) # {}
                          /\ ~PassesThrough(n) => frame[n].started /\ frame[n].made = n
                          /\ PassesThrough(n) => frame[n].body = "passing"
<1>1. frame[n] \in Frames /\ frame[n].at \in Nat
  BY DEF Inv, TypeOK, Frames
<1>2. outcome # "none" => Hasty
  BY NothingRuns DEF Inv, OutcomeOK
<1>3. ASSUME n # <<>>
      PROVE  /\ frame[n].body # "idle" /\ ActiveLeaves(n) # {}
             /\ ~PassesThrough(n) => frame[n].started /\ frame[n].made = n
             /\ PassesThrough(n) => frame[n].body = "passing"
  <2>1. NodeOK(n) /\ ChildOK(n)
    BY <1>3 DEF Inv, LocalOK, LinkOK, Inner
  <2>2. frame[n].body # "idle"
    BY <2>1 DEF NodeOK, Idle
  <2> QED
    BY <1>1, <2>1, <2>2 DEF NodeOK, ChildOK, BodyOK, PassingOK, Frames
<1> QED
  BY <1>1, <1>2, <1>3

----------------------------------------------------------------------------
(* what a step leaves alone *)

\* The signal and the denials are not taken back.
Onward ==
    /\ UNCHANGED setting
    /\ aborted => aborted'
    /\ refused => refused'

LEMMA SameCurrent ==
    ASSUME UNCHANGED setting, NEW n, frame'[n].at = frame[n].at
    PROVE  IsServed(n)' = IsServed(n) /\ Current(n)' = Current(n)
<1>1. Served(n)' = Served(n)
  BY Fixed
<1>2. IsServed(n)' = IsServed(n)
  BY <1>1 DEF IsServed
<1>3. Current(n)' = Current(n)
  BY <1>1 DEF Current
<1> QED
  BY <1>2, <1>3

LEMMA SameRoot ==
    ASSUME UNCHANGED setting, frame'[<<>>] = frame[<<>>], RootOK
    PROVE  RootOK'
  BY Fixed DEF RootOK

LEMMA SameNode ==
    ASSUME Onward, NEW n \in Inner, frame'[n] = frame[n], NodeOK(n)
    PROVE  NodeOK(n)'
<1>1. PassesThrough(n)' = PassesThrough(n) /\ Hasty' = Hasty /\ NoLeak(frame[n].next)' = NoLeak(frame[n].next)
      /\ Operation' = Operation /\ IsStream' = IsStream /\ IsRepair' = IsRepair /\ Plain' = Plain
  BY Fixed DEF Onward
<1>2. IsDenied(n)' = IsDenied(n) /\ Swallows(n)' = Swallows(n)
  BY DEF IsDenied, Swallows
<1>3. PassingOK(n) => PassingOK(n)'
  BY DEF PassingOK
<1>4. BodyOK(n) => BodyOK(n)'
  BY <1>1, Fixed DEF BodyOK, Onward
<1>5. EndingOK(n) => EndingOK(n)'
  BY <1>1, <1>2, Fixed DEF EndingOK, Onward
<1> QED
  BY <1>1, <1>3, <1>4, <1>5 DEF NodeOK, Onward

LEMMA SameChild ==
    ASSUME UNCHANGED setting, NEW c \in Inner, ChildOK(c),
           frame'[c].body = frame[c].body, frame'[c].end = frame[c].end,
           frame'[Parent(c)].next = frame[Parent(c)].next,
           frame'[Parent(c)].at = frame[Parent(c)].at,
           frame[Parent(c)].violated => frame'[Parent(c)].violated,
           frame[Parent(c)].started => frame'[Parent(c)].started
    PROVE  ChildOK(c)'
<1> DEFINE p == Parent(c)
<1>1. IsServed(p)' = IsServed(p) /\ Current(p)' = Current(p)
  BY SameCurrent
<1>2. (Serves(p) /\ ~IsLeafOf(p, Current(p)) /\ Child(p, Current(p)) = c)'
         = (Serves(p) /\ ~IsLeafOf(p, Current(p)) /\ Child(p, Current(p)) = c)
  BY <1>1, Fixed DEF Serves
<1>3. ActiveLeaves(c)' = ActiveLeaves(c) /\ PassesThrough(p)' = PassesThrough(p)
  BY Fixed
<1> QED
  BY <1>2, <1>3 DEF ChildOK

\* What was served stays served.
StaysServed ==
    /\ \A i \in Leaves : target[i].state # "none" => target'[i].state # "none"
    /\ \A c \in Inner : frame[c].body = "done" =>
          frame'[c].body = "done" /\ frame'[c].end = frame[c].end

LEMMA MoreEntries ==
    ASSUME Onward, StaysServed, IsSetting(setting), NEW n \in Nodes, EntriesOK(n),
           frame[n].at \in Nat,
           frame'[n].next = "ok" => IsServed(n)',
           frame'[n].next = "aborted" => aborted',
           \A i \in Served(n) : i >= frame[n].at /\ i < frame'[n].at =>
              /\ IsLeafOf(n, i) => LeafServed(i)'
              /\ ~IsLeafOf(n, i) => \A c \in Inner : c = Child(n, i) => ChildServed(c)'
    PROVE  EntriesOK(n)'
<1>1. \A i \in Leaves : LeafServed(i) => LeafServed(i)'
  BY Fixed DEF LeafServed, Onward, StaysServed
<1>2. \A c \in Inner : ChildServed(c) => ChildServed(c)'
  BY Fixed DEF ChildServed, Onward, StaysServed
<1>3. \A i \in Served(n) : /\ i \in Leaves /\ i \in Nat /\ i \in AllLeaves(n)
                           /\ IsLeafOf(n, i) \/ Child(n, i) \in Inner
  BY ServedIs, ChildIs
<1>4. Served(n)' = Served(n) /\ \A i : IsLeafOf(n, i)' = IsLeafOf(n, i) /\ Child(n, i)' = Child(n, i)
  BY Fixed DEF Onward
<1>5. ASSUME NEW i \in Served(n), i < frame'[n].at
      PROVE  (IF IsLeafOf(n, i) THEN LeafServed(i) ELSE ChildServed(Child(n, i)))'
  <2>1. CASE i < frame[n].at
    <3>1. IF IsLeafOf(n, i) THEN LeafServed(i) ELSE ChildServed(Child(n, i))
      BY <2>1 DEF EntriesOK
    <3>2. CASE IsLeafOf(n, i)
      BY <1>1, <1>3, <1>4, <3>1, <3>2
    <3>3. CASE ~IsLeafOf(n, i)
      <4>1. PICK c \in Inner : c = Child(n, i)
        BY <1>3, <3>3
      <4>2. ChildServed(c)
        BY <3>1, <3>3, <4>1
      <4>3. ChildServed(c)'
        BY <1>2, <4>2
      <4> QED
        BY <1>4, <3>3, <4>1, <4>3
    <3> QED
      BY <3>2, <3>3
  <2>2. CASE i >= frame[n].at
    <3>1. CASE IsLeafOf(n, i)
      BY <1>4, <1>5, <2>2, <3>1
    <3>2. CASE ~IsLeafOf(n, i)
      <4>1. PICK c \in Inner : c = Child(n, i)
        BY <1>3, <3>2
      <4>2. ChildServed(c)'
        BY <1>5, <2>2, <3>2, <4>1
      <4> QED
        BY <1>4, <3>2, <4>1, <4>2
    <3> QED
      BY <3>1, <3>2
  <2> QED
    BY <1>3, <2>1, <2>2
<1>6. (\A i \in Served(n) : i < frame[n].at =>
          IF IsLeafOf(n, i) THEN LeafServed(i) ELSE ChildServed(Child(n, i)))'
  BY <1>4, <1>5
<1> QED
  BY <1>6 DEF EntriesOK

LEMMA SameEntries ==
    ASSUME Onward, StaysServed, IsSetting(setting), NEW n \in Nodes, EntriesOK(n),
           frame[n].at \in Nat, frame'[n].at = frame[n].at,
           frame'[n].next \in {"ok", "aborted"} => frame'[n].next = frame[n].next
    PROVE  EntriesOK(n)'
<1>1. IsServed(n)' = IsServed(n)
  BY SameCurrent DEF Onward
<1>2. \A i \in Served(n) : i \in Nat
  BY ServedIs
<1> QED
  BY <1>1, <1>2, MoreEntries DEF EntriesOK, Onward

----------------------------------------------------------------------------
(* the steps of a body *)

\* A body that runs calls next(), or prepares to.
Moves(n) ==
    /\ Running(n)
    /\ UNCHANGED <<setting, target, refused, aborted, outcome>>
    /\ frame' \in [Nodes -> Frames]
    /\ \A m \in Nodes : m # n => frame'[m] = frame[m]
    /\ frame'[n].body = "running" /\ frame'[n].threw = "none" /\ frame'[n].end = "none"
    /\ frame'[n].at = frame[n].at
    /\ frame[n].violated => frame'[n].violated
    /\ frame[n].started => frame'[n].started
    /\ \/ frame'[n].next = frame[n].next
       \/ frame[n].next = "none" /\ frame'[n].next \notin {"refused", "ok"}
    /\ frame'[n].next = "aborted" => aborted
    /\ BodyOK(n)'

LEMMA MovesKeep ==
    ASSUME Inv, NEW n \in Inner, Moves(n)
    PROVE  /\ IsSetting(setting)' /\ RootOK' /\ LocalOK' /\ LinkOK' /\ ServedOK'
           /\ TargetsOK'
<1>1. /\ UNCHANGED setting /\ Onward /\ IsSetting(setting) /\ n \in Nodes
      /\ Nodes' = Nodes /\ Inner' = Inner
  BY Fixed DEF Moves, Onward, Inv, Inner
<1>2. /\ \A m \in Inner : m # n => frame'[m] = frame[m]
      /\ frame'[<<>>] = frame[<<>>]
  BY <1>1, NodesAre DEF Moves, Inner
<1>3. RootOK'
  BY <1>1, <1>2, SameRoot DEF Inv
<1>4. LocalOK'
  <2> SUFFICES ASSUME NEW m \in Inner PROVE NodeOK(m)'
    BY <1>1 DEF LocalOK
  <2>1. CASE m = n
    <3>1. ~PassesThrough(n)
      BY RunningIs DEF Moves
    <3>2. ~PassesThrough(n)'
      BY <1>1, <3>1, Fixed
    <3>3. frame'[n].next # "refused"
      BY RunningIs DEF Moves
    <3>4. NodeOK(n)'
      BY <3>2, <3>3 DEF NodeOK, Moves
    <3> QED
      BY <2>1, <3>4
  <2>2. CASE m # n
    BY <1>1, <1>2, <2>2, SameNode DEF Inv, LocalOK
  <2> QED
    BY <2>1, <2>2
<1>5. LinkOK'
  <2> SUFFICES ASSUME NEW c \in Inner PROVE ChildOK(c)'
    BY <1>1 DEF LinkOK
  <2>1. ChildOK(c) /\ Parent(c) \in Nodes /\ Parent(c) # c
    BY <1>1, ParentIs DEF Inv, LinkOK
  <2>2. CASE c = n
    <3>1. frame'[Parent(n)] = frame[Parent(n)]
      BY <2>1, <2>2 DEF Moves
    <3>2. IsServed(Parent(n))' = IsServed(Parent(n)) /\ Current(Parent(n))' = Current(Parent(n))
      BY <1>1, <3>1, SameCurrent
    <3>3. ActiveLeaves(n) # {} /\ Serves(Parent(n)) /\ ~IsLeafOf(Parent(n), Current(Parent(n)))
          /\ Child(Parent(n), Current(Parent(n))) = n
      BY <2>1, <2>2 DEF ChildOK, Moves, Running
    <3>4. (ActiveLeaves(n) # {} /\ Serves(Parent(n)) /\ ~IsLeafOf(Parent(n), Current(Parent(n)))
           /\ Child(Parent(n), Current(Parent(n))) = n)'
      BY <1>1, <3>1, <3>2, <3>3, Fixed DEF Serves
    <3>5. frame'[n].body = "running"
      BY DEF Moves
    <3>7. PassesThrough(Parent(n))' = PassesThrough(Parent(n))
      BY <1>1, Fixed
    <3>6. ChildOK(n)'
      BY <2>1, <2>2, <3>1, <3>3, <3>4, <3>5, <3>7 DEF ChildOK, Serves, Moves, Running
    <3> QED
      BY <2>2, <3>6
  <2>3. CASE c # n /\ Parent(c) = n
    <3>1. frame'[c] = frame[c]
      BY <1>2, <2>3
    <3>2. CASE frame'[n].next = frame[n].next
      BY <1>1, <2>1, <2>3, <3>1, <3>2, SameChild DEF Moves
    <3>3. CASE frame[n].next = "none"
      <4>1. frame'[c].body = "idle"
        <5>1. frame[c] \in Frames
          BY DEF Inv, TypeOK, Inner
        <5> QED
          BY <2>1, <2>3, <3>1, <3>3, <5>1 DEF ChildOK, Frames
      <4> QED
        BY <4>1 DEF ChildOK
    <3> QED
      BY <3>2, <3>3 DEF Moves
  <2>4. CASE c # n /\ Parent(c) # n
    <3>1. frame'[c] = frame[c] /\ frame'[Parent(c)] = frame[Parent(c)]
      BY <1>2, <2>1, <2>4 DEF Moves
    <3> QED
      BY <1>1, <2>1, <3>1, SameChild
  <2> QED
    BY <2>2, <2>3, <2>4
<1>6. ServedOK'
  <2> SUFFICES ASSUME NEW m \in Nodes PROVE EntriesOK(m)'
    BY <1>1 DEF ServedOK
  <2>1. StaysServed
    BY <1>2 DEF StaysServed, Moves, Running
  <2>2. EntriesOK(m) /\ frame[m].at \in Nat
    BY DEF Inv, ServedOK, TypeOK, Frames
  <2>3. CASE m = n /\ frame'[n].next = "aborted"
    <3>1. aborted'
      BY <2>3 DEF Moves
    <3>2. frame'[m].at = frame[m].at
      BY <2>3 DEF Moves
    <3>3. \A i \in Served(m) : i \in Nat
      BY <1>1, ServedIs
    <3> QED
      BY <1>1, <2>1, <2>2, <2>3, <3>1, <3>2, <3>3, MoreEntries
  <2>4. CASE ~(m = n /\ frame'[n].next = "aborted")
    <3>1. frame'[m].at = frame[m].at /\ (frame'[m].next \in {"ok", "aborted"} => frame'[m].next = frame[m].next)
      BY <2>4 DEF Moves
    <3> QED
      BY <1>1, <2>1, <2>2, <3>1, SameEntries
  <2> QED
    BY <2>3, <2>4
<1>7. TargetsOK'
  BY <1>1, Fixed DEF Inv, TargetsOK, Moves
<1> QED
  BY <1>1, <1>3, <1>4, <1>5, <1>6, <1>7, Fixed

LEMMA SameOutcome ==
    ASSUME OutcomeOK, UNCHANGED <<setting, outcome, refused, aborted, target>>,
           frame'[<<>>].next = frame[<<>>].next
    PROVE  OutcomeOK'
  BY Fixed DEF OutcomeOK

\* Streams are used or cancelled, and none is made.
LEMMA FewerStreams ==
    ASSUME IsSetting(setting), StreamsOK, UNCHANGED setting,
           \A m \in Nodes : /\ input'[m] = "free" => input[m] = "free"
                            /\ output'[m] = "free" => output[m] = "free",
           \A i \in Leaves : branch'[i] = "free" => branch[i] = "free",
           read' = "free" => read = "free",
           ~IsStream => UNCHANGED <<input, output, branch>>,
           Operation # "streamRepair" => UNCHANGED read,
           outcome' \in Failures /\ ~Hasty => outcome' = outcome \/ NothingIsFree',
           \A m \in Inner :
              /\ frame'[m].produced = frame[m].produced /\ frame'[m].started = frame[m].started
              /\ frame'[m].end = "skipped" =>
                    frame[m].end = "skipped" \/ (input'[m] # "free" /\ output'[m] # "free"),
           \A m \in Nodes : frame[m].next # "none" => frame'[m].next # "none"
    PROVE  StreamsOK'
<1>1. /\ Leaves' = Leaves /\ Nodes' = Nodes /\ Inner' = Inner /\ IsStream' = IsStream
      /\ Operation' = Operation /\ Hasty' = Hasty
  BY Fixed
<1>2. \A m \in Inner : StreamOK(m)'
  <2> SUFFICES ASSUME NEW m \in Inner PROVE StreamOK(m)'
    OBVIOUS
  <2>1. StreamOK(m) /\ Parent(m) \in Nodes /\ m \in Nodes
        /\ (Parent(m) = <<>> \/ frame'[Parent(m)].started = frame[Parent(m)].started)
    BY ParentIs DEF StreamsOK, Inner
  <2>2. PassesThrough(Parent(m))' = PassesThrough(Parent(m)) /\ ActiveLeaves(m)' = ActiveLeaves(m)
    BY Fixed
  <2> QED
    BY <1>1, <2>1, <2>2 DEF StreamOK
<1>3. (\A i \in Leaves : branch[i] = "free" =>
          i \in Served(Path(i)) /\ (Path(i) = <<>> \/ frame[Path(i)].started))'
  <2> SUFFICES ASSUME NEW i \in Leaves, branch'[i] = "free"
               PROVE  (i \in Served(Path(i)) /\ (Path(i) = <<>> \/ frame[Path(i)].started))'
    BY <1>1
  <2>1. i \in Served(Path(i)) /\ (Path(i) = <<>> \/ frame[Path(i)].started) /\ Path(i) \in Nodes
    BY EntryOfLeaf DEF StreamsOK
  <2>2. PICK n \in Nodes : n = Path(i)
    BY <2>1
  <2>3. Path(i)' = n /\ Served(n)' = Served(n)
    BY <2>2, Fixed
  <2> QED
    BY <2>1, <2>2, <2>3 DEF Inner
<1>4. <<>> \in Nodes
  BY NodesAre
<1>5. outcome' \in Failures /\ ~Hasty => NothingIsFree'
  BY <1>1 DEF StreamsOK, NothingIsFree
<1> QED
  BY <1>1, <1>2, <1>3, <1>4, <1>5 DEF StreamsOK, Failures

LEMMA SameStreams ==
    ASSUME IsSetting(setting), StreamsOK, UNCHANGED <<setting, streamVars, outcome>>,
           \A m \in Inner :
              /\ frame'[m].produced = frame[m].produced /\ frame'[m].started = frame[m].started
              /\ frame'[m].end = "skipped" => frame[m].end = "skipped",
           \A m \in Nodes : frame[m].next # "none" => frame'[m].next # "none"
    PROVE  StreamsOK'
  BY FewerStreams DEF streamVars

----------------------------------------------------------------------------
(* each step of a body is such a move *)

LEMMA BodyStep ==
    ASSUME Inv, NEW n \in Inner, Running(n), frame' \in [Nodes -> Frames],
           UNCHANGED <<setting, target, refused, streamVars, aborted, outcome>>,
           Moves(n),
           frame'[n].produced = frame[n].produced, frame'[n].started = frame[n].started
    PROVE  Inv'
<1>1. IsSetting(setting)' /\ RootOK' /\ LocalOK' /\ LinkOK' /\ ServedOK' /\ TargetsOK'
  BY MovesKeep
<1>2. n \in Nodes /\ <<>> \in Nodes /\ <<>> # n
  BY NodesAre DEF Inv, Inner
<1>3. OutcomeOK'
  BY <1>2, SameOutcome DEF Inv, Moves
<1>4. StreamsOK'
  <2>1. \A m \in Inner :
           /\ frame'[m].produced = frame[m].produced /\ frame'[m].started = frame[m].started
           /\ frame'[m].end = "skipped" => frame[m].end = "skipped"
    BY <1>2 DEF Moves, Inner
  <2>2. \A m \in Nodes : frame[m].next # "none" => frame'[m].next # "none"
    BY <1>2 DEF Moves
  <2> QED
    BY <2>1, <2>2, SameStreams DEF Inv
<1>5. TypeOK'
  BY Fixed DEF Inv, TypeOK, Moves, streamVars
<1> QED
  BY <1>1, <1>3, <1>4, <1>5 DEF Inv

\* What an update of one frame does to it.
LEMMA OneFrame ==
    ASSUME NEW n \in Nodes, NEW f \in Frames, frame \in [Nodes -> Frames],
           frame' = [frame EXCEPT ![n] = f]
    PROVE  /\ frame' \in [Nodes -> Frames]
           /\ frame'[n] = f
           /\ \A m \in Nodes : m # n => frame'[m] = frame[m]
  OBVIOUS

LEMMA Calls == {0, 1, 2} \subseteq 0 .. 2
  OBVIOUS

LEMMA NextWithoutDestinationKeeps ==
    ASSUME Inv, NEW n \in Inner, NextWithoutDestination(n)
    PROVE  Inv'
<1>1. Running(n)
  BY DEF NextWithoutDestination
<1>2. /\ n \in Nodes /\ frame[n] \in Frames /\ frame \in [Nodes -> Frames]
      /\ ~PassesThrough(n) /\ BodyOK(n)
      /\ frame[n].threw = "none" /\ frame[n].end = "none"
  BY <1>1, RunningIs DEF Inv, TypeOK
<1> DEFINE f == [frame[n] EXCEPT !.calls = 1, !.violated = TRUE]
<1>3. f \in Frames
  BY <1>2, Calls DEF Frames
<1>4. frame' = [frame EXCEPT ![n] = f]
  BY DEF NextWithoutDestination
<1>5. /\ frame' \in [Nodes -> Frames] /\ frame'[n] = f
      /\ \A m \in Nodes : m # n => frame'[m] = frame[m]
  BY <1>2, <1>3, <1>4, OneFrame
<1>6. f.next = "none" /\ ~f.started
  BY <1>2 DEF NextWithoutDestination, BodyOK, Frames
<1>7. BodyOK(n)'
  BY <1>1, <1>2, <1>5, <1>6, Fixed DEF BodyOK, NextWithoutDestination, Running, Frames
<1>8. Moves(n)
  BY <1>1, <1>2, <1>5, <1>6, <1>7 DEF Moves, NextWithoutDestination, Running, Frames
<1> QED
  BY <1>1, <1>2, <1>5, <1>8, BodyStep DEF NextWithoutDestination, Frames

LEMMA NextFailsKeeps ==
    ASSUME Inv, NEW n \in Inner, NextFails(n)
    PROVE  Inv'
<1>1. Running(n)
  BY DEF NextFails, CallsNext
<1>2. /\ n \in Nodes /\ frame[n] \in Frames /\ frame \in [Nodes -> Frames]
      /\ ~PassesThrough(n) /\ BodyOK(n)
      /\ frame[n].threw = "none" /\ frame[n].end = "none"
  BY <1>1, RunningIs DEF Inv, TypeOK
<1>3. PICK reason \in Failures : /\ frame' = [frame EXCEPT ![n].calls = 1, ![n].next = reason]
                                 /\ reason = "aborted" => aborted
  BY DEF NextFails, Failures
<1> DEFINE f == [frame[n] EXCEPT !.calls = 1, !.next = reason]
<1>4. f \in Frames
  BY <1>2, Calls DEF Frames
<1>5. frame' = [frame EXCEPT ![n] = f]
  BY <1>3
<1>6. /\ frame' \in [Nodes -> Frames] /\ frame'[n] = f
      /\ \A m \in Nodes : m # n => frame'[m] = frame[m]
  BY <1>2, <1>4, <1>5, OneFrame
<1>7. frame[n].next = "none" /\ ~f.started /\ f.produced
  BY <1>2 DEF NextFails, CallsNext, BodyOK, Frames
<1>8. BodyOK(n)'
  BY <1>1, <1>2, <1>6, <1>7, Fixed DEF BodyOK, NextFails, Running, Frames, Failures
<1>9. Moves(n)
  BY <1>1, <1>2, <1>3, <1>6, <1>7, <1>8 DEF Moves, NextFails, Running, Frames, Failures
<1> QED
  BY <1>1, <1>2, <1>6, <1>9, BodyStep DEF NextFails, Frames

LEMMA CallNextAgainKeeps ==
    ASSUME Inv, NEW n \in Inner, CallNextAgain(n)
    PROVE  Inv'
<1>1. Running(n)
  BY DEF CallNextAgain
<1>2. /\ n \in Nodes /\ frame[n] \in Frames /\ frame \in [Nodes -> Frames]
      /\ ~PassesThrough(n) /\ BodyOK(n) /\ EntriesOK(n)
      /\ frame[n].threw = "none" /\ frame[n].end = "none"
  BY <1>1, RunningIs DEF Inv, TypeOK, ServedOK
<1> DEFINE f == [frame[n] EXCEPT !.calls = 2, !.violated = TRUE]
<1>3. f \in Frames
  BY <1>2, Calls DEF Frames
<1>4. frame' = [frame EXCEPT ![n] = f]
  BY DEF CallNextAgain
<1>5. /\ frame' \in [Nodes -> Frames] /\ frame'[n] = f
      /\ \A m \in Nodes : m # n => frame'[m] = frame[m]
  BY <1>2, <1>3, <1>4, OneFrame
<1>6. BodyOK(n)'
  BY <1>1, <1>2, <1>5, Fixed DEF BodyOK, CallNextAgain, Running, Frames
<1>7. Moves(n)
  BY <1>1, <1>2, <1>5, <1>6 DEF Moves, CallNextAgain, Running, Frames, EntriesOK
<1> QED
  BY <1>1, <1>2, <1>5, <1>7, BodyStep DEF CallNextAgain, Frames

LEMMA SetDestinationKeeps ==
    ASSUME Inv, NEW n \in Inner, SetDestination(n)
    PROVE  Inv'
<1>1. Running(n)
  BY DEF SetDestination
<1>2. /\ n \in Nodes /\ frame[n] \in Frames /\ frame \in [Nodes -> Frames]
      /\ ~PassesThrough(n) /\ BodyOK(n)
      /\ frame[n].threw = "none" /\ frame[n].end = "none"
      /\ outcome # "none" => Hasty
  BY <1>1, RunningIs DEF Inv, TypeOK
<1> DEFINE f == [frame[n] EXCEPT !.produced = TRUE]
<1>3. f \in Frames
  BY <1>2, Calls DEF Frames
<1>4. frame' = [frame EXCEPT ![n] = f]
  BY DEF SetDestination
<1>5. /\ frame' \in [Nodes -> Frames] /\ frame'[n] = f
      /\ \A m \in Nodes : m # n => frame'[m] = frame[m]
  BY <1>2, <1>3, <1>4, OneFrame
<1>6. f.next = "none" /\ ~f.started
  BY <1>2 DEF SetDestination, BodyOK, Frames
<1>7. BodyOK(n)'
  BY <1>1, <1>2, <1>5, <1>6, Fixed DEF BodyOK, SetDestination, Running, Frames
<1>8. Moves(n)
  BY <1>1, <1>2, <1>5, <1>6, <1>7 DEF Moves, SetDestination, Running, Frames
<1>9. IsSetting(setting)' /\ RootOK' /\ LocalOK' /\ LinkOK' /\ ServedOK' /\ TargetsOK'
  BY <1>8, MovesKeep
<1>10. <<>> \in Nodes /\ <<>> # n /\ IsSetting(setting)
  BY NodesAre DEF Inv, Inner
<1>11. OutcomeOK'
  BY <1>5, <1>10, SameOutcome DEF Inv, SetDestination
<1>12. /\ input' \in [Nodes -> Streams] /\ output' \in [Nodes -> Streams]
       /\ input'[n] # "free"
       /\ \A m \in Nodes : m # n => input'[m] = input[m] /\ output'[m] = output[m]
       /\ ~IsStream => UNCHANGED <<input, output>>
       /\ UNCHANGED <<branch, read>>
  <2>1. input \in [Nodes -> Streams] /\ output \in [Nodes -> Streams]
    BY DEF Inv, TypeOK
  <2>2. CASE IsStream
    BY <1>2, <2>1, <2>2 DEF SetDestination, Streams
  <2>3. CASE ~IsStream
    BY <1>2, <2>1, <2>3 DEF SetDestination, Inv, StreamsOK
  <2> QED
    BY <2>2, <2>3
<1>13. TypeOK'
  BY <1>5, <1>12, Fixed DEF Inv, TypeOK, SetDestination, Streams
<1>14. StreamsOK'
  <2>1. /\ Leaves' = Leaves /\ Nodes' = Nodes /\ Inner' = Inner /\ IsStream' = IsStream
        /\ Operation' = Operation /\ Hasty' = Hasty /\ UNCHANGED setting
    BY Fixed DEF SetDestination
  <2>2. \A m \in Inner : StreamOK(m)'
    <3> SUFFICES ASSUME NEW m \in Inner PROVE StreamOK(m)'
      OBVIOUS
    <3>1. StreamOK(m) /\ Parent(m) \in Nodes /\ m \in Nodes
      BY <1>10, ParentIs DEF Inv, StreamsOK
    <3>2. PassesThrough(Parent(m))' = PassesThrough(Parent(m)) /\ ActiveLeaves(m)' = ActiveLeaves(m)
      BY <2>1, Fixed
    <3>3. frame'[Parent(m)].started = frame[Parent(m)].started
      BY <1>2, <1>5, <3>1 DEF Frames
    <3>4. CASE m = n
      BY <1>2, <1>5, <1>6, <1>12, <3>4 DEF StreamOK, Frames
    <3>5. CASE m # n
      BY <1>5, <1>12, <3>1, <3>2, <3>3, <3>5 DEF StreamOK
    <3> QED
      BY <3>4, <3>5
  <2>3. (\A i \in Leaves : branch[i] = "free" =>
            i \in Served(Path(i)) /\ (Path(i) = <<>> \/ frame[Path(i)].started))'
    <3> SUFFICES ASSUME NEW i \in Leaves, branch[i] = "free"
                 PROVE  (i \in Served(Path(i)) /\ (Path(i) = <<>> \/ frame[Path(i)].started))'
      BY <1>12, <2>1
    <3>1. i \in Served(Path(i)) /\ (Path(i) = <<>> \/ frame[Path(i)].started) /\ Path(i) \in Nodes
      BY <1>10, EntryOfLeaf DEF Inv, StreamsOK
    <3>2. PICK m \in Nodes : m = Path(i)
      BY <3>1
    <3>3. Path(i)' = m /\ Served(m)' = Served(m)
      BY <2>1, <3>2, Fixed
    <3>4. frame'[m].started = frame[m].started
      BY <1>2, <1>5 DEF Frames
    <3> QED
      BY <3>1, <3>2, <3>3, <3>4
  <2>4. UNCHANGED outcome
    BY DEF SetDestination
  <2> QED
    BY <1>2, <1>10, <1>12, <2>1, <2>2, <2>3, <2>4 DEF Inv, StreamsOK, Failures
<1> QED
  BY <1>9, <1>11, <1>13, <1>14 DEF Inv

LEMMA NextRunsKeeps ==
    ASSUME Inv, NEW n \in Inner, NextRuns(n)
    PROVE  Inv'
<1>1. Running(n)
  BY DEF NextRuns, CallsNext
<1>2. /\ n \in Nodes /\ frame[n] \in Frames /\ frame \in [Nodes -> Frames]
      /\ ~PassesThrough(n) /\ BodyOK(n)
      /\ frame[n].threw = "none" /\ frame[n].end = "none"
      /\ outcome # "none" => Hasty
  BY <1>1, RunningIs DEF Inv, TypeOK
<1> DEFINE f == [frame[n] EXCEPT !.calls = 1, !.next = "running", !.started = TRUE, !.made = n]
<1>3. f \in Frames
  BY <1>2, Calls DEF Frames
<1>4. frame[n].next = "none" /\ ~frame[n].started /\ frame[n].produced
  BY <1>2 DEF NextRuns, CallsNext, BodyOK, Frames
<1>5. frame' = [frame EXCEPT ![n] = f]
  <2>1. Append(frame[n].made, Middleware(n)) = n
    BY <1>1, <1>2, <1>4, ParentIs DEF Inv, BodyOK, Running
  <2> QED
    BY <1>2, <2>1 DEF NextRuns
<1>6. /\ frame' \in [Nodes -> Frames] /\ frame'[n] = f
      /\ \A m \in Nodes : m # n => frame'[m] = frame[m]
  BY <1>2, <1>3, <1>5, OneFrame
<1>7. BodyOK(n)'
  BY <1>1, <1>2, <1>4, <1>6, Fixed DEF BodyOK, NextRuns, Running, Frames, NoLeak
<1>8. Moves(n)
  BY <1>1, <1>2, <1>4, <1>6, <1>7 DEF Moves, NextRuns, Running, Frames
<1>9. IsSetting(setting)' /\ RootOK' /\ LocalOK' /\ LinkOK' /\ ServedOK' /\ TargetsOK'
  BY <1>8, MovesKeep
<1>10. <<>> \in Nodes /\ <<>> # n /\ IsSetting(setting) /\ Parent(n) # n
  BY NodesAre, ParentIs DEF Inv, Inner
<1>11. OutcomeOK'
  BY <1>6, <1>10, SameOutcome DEF Inv, NextRuns
<1>12. /\ input \in [Nodes -> Streams] /\ output \in [Nodes -> Streams]
       /\ branch \in [Leaves -> Streams] /\ StreamsOK
  BY DEF Inv, TypeOK
<1>13. /\ input' \in [Nodes -> Streams] /\ output' \in [Nodes -> Streams]
       /\ branch' \in [Leaves -> Streams] /\ UNCHANGED <<setting, read, outcome>>
       /\ IsStream => output'[n] # "free"
       /\ \A m \in Nodes : m # n => output'[m] = output[m]
       /\ \A m \in Nodes : \/ input'[m] = input[m]
                           \/ IsStream /\ m # <<>> /\ Parent(m) = n /\ ActiveLeaves(m) # {}
       /\ \A i \in Leaves : \/ branch'[i] = branch[i]
                            \/ IsStream /\ i \in BranchEntries(n) /\ IsLeafOf(n, i)
       /\ ~IsStream => UNCHANGED <<input, output, branch>>
  <2>1. CASE IsStream
    BY <1>2, <1>12, <2>1 DEF NextRuns, Splits, Streams
  <2>2. CASE ~IsStream
    BY <1>2, <1>12, <2>2 DEF NextRuns
  <2> QED
    BY <2>1, <2>2
<1>14. TypeOK'
  BY <1>6, <1>13, Fixed DEF Inv, TypeOK, NextRuns, Streams
<1>15. StreamsOK'
  <2>1. /\ Leaves' = Leaves /\ Nodes' = Nodes /\ Inner' = Inner /\ IsStream' = IsStream
        /\ Operation' = Operation /\ Hasty' = Hasty
    BY <1>13, Fixed
  <2>2. \A m \in Inner : StreamOK(m)'
    <3> SUFFICES ASSUME NEW m \in Inner PROVE StreamOK(m)'
      OBVIOUS
    <3>1. StreamOK(m) /\ Parent(m) \in Nodes /\ m \in Nodes /\ m # <<>> /\ frame[m] \in Frames
      BY <1>2, <1>10, <1>12, ParentIs DEF StreamsOK
    <3>2. PassesThrough(Parent(m))' = PassesThrough(Parent(m)) /\ ActiveLeaves(m)' = ActiveLeaves(m)
      BY <1>13, Fixed
    <3>3. frame[Parent(m)].started => frame'[Parent(m)].started
      BY <1>2, <1>6, <3>1 DEF Frames
    <3>4. CASE m = n
      <4>1. input'[n] # "free"
        BY <1>4, <1>10, <1>13, <3>1, <3>4 DEF StreamOK
      <4>2. output'[n] # "free"
        BY <1>12, <1>13, <3>1, <3>4 DEF StreamsOK
      <4> QED
        BY <3>4, <4>1, <4>2 DEF StreamOK
    <3>5. CASE m # n /\ Parent(m) = n
      <4>1. frame'[m] = frame[m] /\ ~frame[m].produced /\ frame[m].end # "skipped"
        <5>1. ChildOK(m) /\ NodeOK(m)
          BY DEF Inv, LinkOK, LocalOK
        <5>2. frame[m].body = "idle"
          BY <1>4, <3>1, <3>5, <5>1 DEF ChildOK, Frames
        <5> QED
          BY <1>6, <3>1, <3>5, <5>1, <5>2 DEF NodeOK, Idle
      <4>2. frame'[n].started /\ output'[m] = output[m]
        BY <1>2, <1>6, <1>13, <3>1, <3>5 DEF Frames
      <4> QED
        BY <1>2, <1>13, <3>1, <3>2, <3>5, <4>1, <4>2 DEF StreamOK
    <3>6. CASE m # n /\ Parent(m) # n
      BY <1>6, <1>13, <3>1, <3>2, <3>3, <3>6 DEF StreamOK
    <3> QED
      BY <3>4, <3>5, <3>6
  <2>3. (\A i \in Leaves : branch[i] = "free" =>
            i \in Served(Path(i)) /\ (Path(i) = <<>> \/ frame[Path(i)].started))'
    <3> SUFFICES ASSUME NEW i \in Leaves, branch'[i] = "free"
                 PROVE  (i \in Served(Path(i)) /\ (Path(i) = <<>> \/ frame[Path(i)].started))'
      BY <2>1
    <3>1. Path(i) \in Nodes /\ (i \in BranchEntries(n) /\ IsStream => i \in Served(n))
      BY <1>10, EntryOfLeaf DEF Served
    <3>2. PICK m \in Nodes : m = Path(i)
      BY <3>1
    <3>3. Path(i)' = m /\ Served(m)' = Served(m)
      BY <1>13, <3>2, Fixed
    <3>4. frame'[n].started /\ (m # n => frame'[m] = frame[m])
      BY <1>2, <1>6, <3>2 DEF Frames
    <3>5. CASE branch[i] = "free"
      BY <1>12, <3>2, <3>3, <3>4, <3>5 DEF StreamsOK
    <3>6. CASE branch[i] # "free"
      BY <1>13, <3>1, <3>2, <3>3, <3>4, <3>6 DEF IsLeafOf
    <3> QED
      BY <3>5, <3>6
  <2>4. ~IsStream' => /\ (\A m \in Nodes : input[m] = "none" /\ output[m] = "none")'
                      /\ (\A i \in Leaves : branch[i] = "none")'
    BY <1>12, <1>13, <2>1 DEF StreamsOK
  <2>5. output'[<<>>] # "free" /\ input'[<<>>] # "free"
    BY <1>10, <1>12, <1>13 DEF StreamsOK
  <2>6. ~(outcome' \in Failures /\ ~Hasty')
    BY <1>2, <1>13, <2>1 DEF Failures
  <2> QED
    BY <1>12, <1>13, <2>1, <2>2, <2>3, <2>4, <2>5, <2>6 DEF StreamsOK
<1> QED
  BY <1>9, <1>11, <1>14, <1>15 DEF Inv

----------------------------------------------------------------------------
(* the steps of next() *)

\* The frame of a node moves on in its entries, or its next() ends; its body is
\* not told.
LEMMA SameNodeButNext ==
    ASSUME Onward, NEW n \in Inner, NodeOK(n), frame[n].body # "idle",
           frame[n].next = "running",
           frame'[n].next \in {"running", "ok"} \cup Failures, NoLeak(frame'[n].next),
           frame[n].violated => frame'[n].violated,
           PassesThrough(n) => /\ frame'[n].next \in {"running", "ok", "aborted"}
                               /\ frame'[n].violated = frame[n].violated,
           frame'[n].body = frame[n].body, frame'[n].threw = frame[n].threw,
           frame'[n].end = frame[n].end, frame'[n].calls = frame[n].calls,
           frame'[n].produced = frame[n].produced,
           frame'[n].started = frame[n].started, frame'[n].made = frame[n].made
    PROVE  NodeOK(n)'
<1>1. PassesThrough(n)' = PassesThrough(n) /\ Hasty' = Hasty
      /\ Operation' = Operation /\ IsStream' = IsStream /\ IsRepair' = IsRepair /\ Plain' = Plain
      /\ UNCHANGED setting
  BY Fixed DEF Onward
<1>3. NoLeak(frame[n].next)' /\ (NoLeak(frame[n].end) => NoLeak(frame[n].end)')
  BY <1>1 DEF NoLeak
<1>4. PassesThrough(n) /\ PassingOK(n) => PassingOK(n)'
  BY DEF PassingOK
<1>5. BodyOK(n) => BodyOK(n)'
  BY <1>1, <1>3 DEF BodyOK, Failures
<1>6. BodyOK(n) /\ frame[n].body = "done" /\ EndingOK(n) => EndingOK(n)'
  <2>1. ~Swallows(n) /\ "running" \notin {"ok"} \cup Failures
    BY DEF Swallows, Failures
  <2>2. BodyOK(n) /\ IsDenied(n)' => IsDenied(n)
    BY DEF BodyOK, IsDenied
  <2>3. BodyOK(n) /\ frame[n].body = "done" => Hasty /\ frame[n].started
    BY DEF BodyOK
  <2> QED
    BY <1>1, <1>3, <2>1, <2>2, <2>3 DEF EndingOK, Onward, Failures
<1> QED
  BY <1>1, <1>4, <1>5, <1>6 DEF NodeOK, Onward, Failures

\* The next entry of a node is served.
Advances(n) ==
    /\ Serves(n)
    /\ frame' = [frame EXCEPT ![n].at = Current(n) + 1]
    /\ UNCHANGED <<setting, streamVars, aborted, outcome>>
    /\ refused' \in BOOLEAN /\ (refused => refused')
    /\ refused' => refused \/ (setting.throwOnDenied /\ Operation = "repair")
    /\ target' \in [Leaves -> Targets]
    /\ \A i \in Leaves : target[i].state # "none" => target'[i].state # "none"
    /\ TargetsOK'
    /\ IF IsLeafOf(n, Current(n)) THEN \A i \in Leaves : i = Current(n) => LeafServed(i)'
       ELSE ActiveLeaves(Child(n, Current(n))) = {}

LEMMA AdvancesKeep ==
    ASSUME Inv, NEW n \in Nodes, Advances(n)
    PROVE  Inv'
<1>1. /\ UNCHANGED setting /\ Onward /\ IsSetting(setting)
      /\ Nodes' = Nodes /\ Inner' = Inner /\ Leaves' = Leaves
  BY Fixed DEF Advances, Onward, Inv
<1>2. /\ frame[n] \in Frames /\ frame[n].at \in Nat /\ frame[n].next = "running"
      /\ outcome # "none" => Hasty
      /\ n # <<>> => frame[n].body # "idle"
  BY ServesIs DEF Advances, Serves
<1>3. PICK e \in Served(n) : /\ e = Current(n) /\ e \in Nat /\ e >= frame[n].at
                             /\ \A j \in Served(n) : j >= frame[n].at => e <= j
                             /\ e \in Leaves /\ e \in AllLeaves(n)
                             /\ e + 1 \in 1 .. Cardinality(Leaves) + 1
  BY <1>1, <1>2, CurrentIs, AtIs, ServedIs DEF Advances, Serves, Inv, TypeOK
<1> DEFINE f == [frame[n] EXCEPT !.at = e + 1]
<1>4. f \in Frames
  BY <1>2, <1>3 DEF Frames
<1>5. /\ frame' \in [Nodes -> Frames] /\ frame'[n] = f
      /\ \A m \in Nodes : m # n => frame'[m] = frame[m]
  BY <1>3, <1>4, OneFrame DEF Advances, Inv, TypeOK
<1>6. /\ f.at = e + 1 /\ f.body = frame[n].body /\ f.next = frame[n].next
      /\ f.threw = frame[n].threw /\ f.end = frame[n].end /\ f.calls = frame[n].calls
      /\ f.produced = frame[n].produced /\ f.violated = frame[n].violated
      /\ f.started = frame[n].started /\ f.made = frame[n].made
  BY <1>2 DEF Frames
<1>7. \A c \in Inner : Parent(c) = n => frame[c].body \notin {"running", "passing"}
  BY <1>3, ChildIs DEF Inv, LinkOK, ChildOK, Advances
<1>8. /\ \A m \in Nodes : frame'[m].next = frame[m].next /\ frame'[m].violated = frame[m].violated
      /\ \A m \in Nodes : frame'[m].body = frame[m].body /\ frame'[m].end = frame[m].end
      /\ \A m \in Nodes : frame'[m].produced = frame[m].produced
      /\ \A m \in Nodes : frame'[m].started = frame[m].started
  BY <1>5, <1>6
<1> HIDE DEF f
<1>9. <<>> \in Nodes
  BY <1>1, NodesAre
<1>10. RootOK'
  <2>1. CASE n = <<>>
    BY <1>1, <1>5, <1>6, <2>1, Fixed DEF RootOK, Inv
  <2>2. CASE n # <<>>
    BY <1>1, <1>5, <1>9, <2>2, SameRoot DEF Inv
  <2> QED
    BY <2>1, <2>2
<1>11. LocalOK'
  <2> SUFFICES ASSUME NEW m \in Inner PROVE NodeOK(m)'
    BY <1>1 DEF LocalOK
  <2>1. NodeOK(m) /\ m \in Nodes /\ m # <<>>
    BY DEF Inv, LocalOK, Inner
  <2>2. CASE m = n
    BY <1>1, <1>2, <1>5, <1>6, <2>1, <2>2, SameNodeButNext DEF NoLeak
  <2>3. CASE m # n
    BY <1>1, <1>5, <2>1, <2>3, SameNode
  <2> QED
    BY <2>2, <2>3
<1>12. LinkOK'
  <2> SUFFICES ASSUME NEW c \in Inner PROVE ChildOK(c)'
    BY <1>1 DEF LinkOK
  <2>1. ChildOK(c) /\ Parent(c) \in Nodes /\ Parent(c) # c /\ c \in Nodes
    BY <1>1, ParentIs DEF Inv, LinkOK
  <2>2. ActiveLeaves(c)' = ActiveLeaves(c) /\ PassesThrough(Parent(c))' = PassesThrough(Parent(c))
    BY <1>1, Fixed
  <2>3. CASE frame[c].body \notin {"running", "passing"}
    BY <1>8, <2>1, <2>2, <2>3 DEF ChildOK
  <2>4. CASE frame[c].body \in {"running", "passing"}
    <3>1. frame'[Parent(c)].at = frame[Parent(c)].at
      BY <1>5, <1>7, <2>1, <2>4
    <3>2. /\ IsServed(Parent(c))' = IsServed(Parent(c)) /\ Current(Parent(c))' = Current(Parent(c))
      BY <1>1, <3>1, SameCurrent
    <3>3. (Serves(Parent(c)) /\ ~IsLeafOf(Parent(c), Current(Parent(c)))
           /\ Child(Parent(c), Current(Parent(c))) = c)'
      BY <1>1, <1>8, <2>1, <2>4, <3>2, Fixed DEF ChildOK, Serves
    <3>4. frame'[c].body \in {"running", "passing"}
      BY <1>8, <2>1, <2>4
    <3> QED
      BY <1>8, <2>1, <2>2, <2>4, <3>3, <3>4 DEF ChildOK
  <2> QED
    BY <2>3, <2>4
<1>13. ServedOK'
  <2> SUFFICES ASSUME NEW m \in Nodes PROVE EntriesOK(m)'
    BY <1>1 DEF ServedOK
  <2>1. StaysServed
    BY <1>8 DEF StaysServed, Advances, Inner
  <2>2. EntriesOK(m) /\ frame[m].at \in Nat
    BY DEF Inv, ServedOK, TypeOK, Frames
  <2>3. CASE m = n
    <3>1. \A i \in Served(n) : i >= frame[n].at /\ i < frame'[n].at => i = e
      <4>1. \A i \in Served(n) : i \in Nat
        BY <1>1, ServedIs
      <4> QED
        BY <1>3, <1>5, <1>6, <4>1
    <3>2. IsLeafOf(n, e) => LeafServed(e)'
      BY <1>3 DEF Advances
    <3>3. ~IsLeafOf(n, e) => \A c \in Inner : c = Child(n, e) => ChildServed(c)'
      BY <1>1, <1>3, Fixed DEF Advances, ChildServed
    <3>4. frame'[n].next = "running"
      BY <1>2, <1>8
    <3> QED
      BY <1>1, <2>1, <2>2, <2>3, <3>1, <3>2, <3>3, <3>4, MoreEntries
  <2>4. CASE m # n
    BY <1>1, <1>5, <2>1, <2>2, <2>4, SameEntries
  <2> QED
    BY <2>3, <2>4
<1>14. OutcomeOK'
  BY <1>1, <1>2, <1>8, <1>9, Fixed DEF Inv, OutcomeOK, Advances
<1>15. StreamsOK'
  BY <1>1, <1>8, SameStreams DEF Inv, Advances, Inner
<1>16. TypeOK'
  BY <1>1, <1>5, Fixed DEF Inv, TypeOK, Advances, streamVars, Streams
<1> QED
  BY <1>1, <1>10, <1>11, <1>12, <1>13, <1>14, <1>15, <1>16, Fixed DEF Inv, Advances

\* The frame of the node that serves, as the steps need it.
LEMMA ServingIs ==
    ASSUME Inv, NEW n \in Nodes, Serves(n)
    PROVE  /\ frame[n].next = "running" /\ frame[n].made \in Nodes
           /\ n # <<>> /\ ~PassesThrough(n) => frame[n].made = n
           /\ n = <<>> => frame[n].made = n
           /\ Current(n) \in Leaves /\ Current(n) \in AllLeaves(n) /\ Current(n) \in Served(n)
<1>1. frame[n].next = "running" /\ IsSetting(setting)
  BY DEF Serves, Inv
<1>2. frame[n].at \in Nat /\ frame[n] \in Frames /\ (n # <<>> /\ ~PassesThrough(n) => frame[n].made = n)
  BY <1>1, ServesIs
<1>3. Current(n) \in Served(n)
  BY <1>1, <1>2, CurrentIs DEF Serves
<1> QED
  BY <1>1, <1>2, <1>3, ServedIs DEF Inv, RootOK, Frames

LEMMA GiveLeafKeeps ==
    ASSUME Inv, NEW n \in Nodes, GiveLeaf(n)
    PROVE  Inv'
<1>1. Serves(n)
  BY DEF GiveLeaf
<1>2. PICK i \in Leaves : i = Current(n) /\ i \in AllLeaves(n)
  BY <1>1, ServingIs
<1>3. /\ IsLeafOf(n, i) /\ IsActive(i) /\ (Operation = "repair" => CanRepair(i))
      /\ i \in ActiveLeaves(n)
  BY <1>2 DEF GiveLeaf, ActiveLeaves
<1>4. ~PassesThrough(n)
  BY <1>3, PassesNoLeaf
<1>5. frame[n].made = Path(i) /\ frame[n].made \in Nodes
  BY <1>1, <1>3, <1>4, ServingIs DEF IsLeafOf
<1> DEFINE t == [state |-> IF Operation = "repair" THEN "writing" ELSE "given", made |-> frame[n].made]
<1>6. t \in Targets /\ t.state # "none" /\ t.made = Path(i)
      /\ (t.state = "writing" => Operation = "repair") /\ t.state \in {"writing", "given"}
  BY <1>5 DEF Targets
<1>7. target \in [Leaves -> Targets] /\ target' = [target EXCEPT ![i] = t] /\ UNCHANGED <<setting, refused>>
  BY <1>2 DEF GiveLeaf, Inv, TypeOK
<1> HIDE DEF t
<1>8. target' \in [Leaves -> Targets] /\ target'[i] = t /\ \A j \in Leaves : j # i => target'[j] = target[j]
  BY <1>6, <1>7
<1>9. IsRepair => CanRepair(i)
  BY <1>3 DEF IsRepair, IsActive
<1>10. TargetsOK'
  BY <1>3, <1>6, <1>7, <1>8, <1>9, Fixed DEF Inv, TargetsOK
<1>11. LeafServed(i)'
  BY <1>3, <1>6, <1>7, <1>8, Fixed DEF LeafServed
<1>12. refused' \in BOOLEAN
  BY <1>7 DEF Inv, TypeOK
<1>13. \A j \in Leaves : target[j].state # "none" => target'[j].state # "none"
  BY <1>6, <1>8
<1>14. Advances(n)
  BY <1>1, <1>2, <1>3, <1>7, <1>8, <1>10, <1>11, <1>12, <1>13 DEF Advances, GiveLeaf, Skips
<1> QED
  BY <1>14, AdvancesKeep

LEMMA SkipLeafKeeps ==
    ASSUME Inv, NEW n \in Nodes, SkipLeaf(n)
    PROVE  Inv'
<1>1. Serves(n)
  BY DEF SkipLeaf
<1>2. PICK i \in Leaves : i = Current(n) /\ i \in AllLeaves(n)
  BY <1>1, ServingIs
<1>3. IsLeafOf(n, i) /\ (~IsActive(i) \/ ~CanRepair(i)) /\ Operation = "repair"
      /\ refused' = (refused \/ (IsActive(i) /\ setting.throwOnDenied))
      /\ UNCHANGED <<setting, target>>
  BY <1>2 DEF SkipLeaf
<1>4. IsActive(i) \in BOOLEAN /\ setting.throwOnDenied \in BOOLEAN /\ refused \in BOOLEAN
  BY <1>3 DEF Inv, TypeOK, IsSetting, IsActive
<1>5. LeafServed(i)'
  BY <1>3, <1>4, Fixed DEF LeafServed
<1>6. TargetsOK' /\ target' \in [Leaves -> Targets]
  BY <1>3, Fixed DEF Inv, TargetsOK, TypeOK
<1>7. Advances(n)
  BY <1>1, <1>2, <1>3, <1>4, <1>5, <1>6 DEF Advances, SkipLeaf, Skips
<1> QED
  BY <1>7, AdvancesKeep

LEMMA SkipChildKeeps ==
    ASSUME Inv, NEW n \in Nodes, SkipChild(n)
    PROVE  Inv'
<1>1. Serves(n) /\ ~IsLeafOf(n, Current(n)) /\ ActiveLeaves(Child(n, Current(n))) = {}
  BY DEF SkipChild, HasNothingToDo
<1>2. UNCHANGED <<setting, target, refused>>
  BY DEF SkipChild
<1>3. TargetsOK' /\ target' \in [Leaves -> Targets] /\ refused' \in BOOLEAN
  BY <1>2, Fixed DEF Inv, TargetsOK, TypeOK
<1>4. Advances(n)
  BY <1>1, <1>2, <1>3 DEF Advances, SkipChild, Skips
<1> QED
  BY <1>4, AdvancesKeep

\* The next() of a node ends, without a child that runs.
NextEnds(n, reason) ==
    /\ frame[n].next = "running"
    /\ frame' = [frame EXCEPT ![n].next = reason]
    /\ reason \in {"ok", "aborted"}
    /\ reason = "aborted" => aborted
    /\ reason = "ok" => IsServed(n)
    /\ \A c \in Inner : Parent(c) = n => frame[c].body \notin {"running", "passing"}
    /\ UNCHANGED <<setting, target, refused, streamVars, aborted, outcome>>

LEMMA NextEndsKeeps ==
    ASSUME Inv, NEW n \in Nodes, NEW reason, NextEnds(n, reason)
    PROVE  Inv'
<1>1. /\ UNCHANGED setting /\ Onward /\ IsSetting(setting)
      /\ Nodes' = Nodes /\ Inner' = Inner /\ Leaves' = Leaves /\ <<>> \in Nodes
  BY Fixed, NodesAre DEF NextEnds, Onward, Inv
<1>2. /\ frame[n] \in Frames /\ frame[n].at \in Nat /\ frame[n].next = "running"
      /\ outcome # "none" => Hasty
      /\ n # <<>> => frame[n].body # "idle"
  BY ServesIs DEF NextEnds
<1> DEFINE f == [frame[n] EXCEPT !.next = reason]
<1>3. f \in Frames
  BY <1>2 DEF Frames, NextEnds, Failures
<1>4. /\ frame' \in [Nodes -> Frames] /\ frame'[n] = f
      /\ \A m \in Nodes : m # n => frame'[m] = frame[m]
  BY <1>3, OneFrame DEF NextEnds, Inv, TypeOK
<1>5. /\ f.next = reason /\ f.at = frame[n].at /\ f.body = frame[n].body
      /\ f.threw = frame[n].threw /\ f.end = frame[n].end /\ f.calls = frame[n].calls
      /\ f.produced = frame[n].produced /\ f.violated = frame[n].violated
      /\ f.started = frame[n].started /\ f.made = frame[n].made
  BY <1>2 DEF Frames
<1>6. /\ \A m \in Nodes : frame'[m].at = frame[m].at /\ frame'[m].violated = frame[m].violated
      /\ \A m \in Nodes : frame'[m].body = frame[m].body /\ frame'[m].end = frame[m].end
      /\ \A m \in Nodes : frame'[m].produced = frame[m].produced
      /\ \A m \in Nodes : frame'[m].started = frame[m].started
  BY <1>4, <1>5
<1> HIDE DEF f
<1>7. /\ reason \in {"ok", "aborted"} /\ (reason = "aborted" => aborted) /\ NoLeak(reason)
      /\ UNCHANGED <<target, refused, streamVars, aborted, outcome>>
  BY DEF NextEnds, NoLeak
<1>8. RootOK'
  <2>1. CASE n = <<>>
    <3>1. ~RefusesAtOnce /\ ~RefusesAtOnce'
      BY <1>1, <1>2, <2>1, Fixed DEF Inv, RootOK
    <3>2. NoLeak(reason)'
      BY <1>1, <1>7, Fixed
    <3>3. ~frame'[<<>>].violated
      BY <1>2, <1>4, <1>5, <2>1 DEF RootOK, Inv
    <3> QED
      BY <1>1, <1>4, <1>5, <1>7, <2>1, <3>1, <3>2, <3>3, Fixed DEF RootOK, Inv
  <2>2. CASE n # <<>>
    BY <1>1, <1>4, <2>2, SameRoot DEF Inv
  <2> QED
    BY <2>1, <2>2
<1>9. LocalOK'
  <2> SUFFICES ASSUME NEW m \in Inner PROVE NodeOK(m)'
    BY <1>1 DEF LocalOK
  <2>1. NodeOK(m) /\ m \in Nodes /\ m # <<>>
    BY DEF Inv, LocalOK, Inner
  <2>2. CASE m = n
    BY <1>1, <1>2, <1>4, <1>5, <1>7, <2>1, <2>2, SameNodeButNext DEF Failures
  <2>3. CASE m # n
    BY <1>1, <1>4, <2>1, <2>3, SameNode
  <2> QED
    BY <2>2, <2>3
<1>10. LinkOK'
  <2> SUFFICES ASSUME NEW c \in Inner PROVE ChildOK(c)'
    BY <1>1 DEF LinkOK
  <2>1. ChildOK(c) /\ Parent(c) \in Nodes /\ Parent(c) # c /\ c \in Nodes
    BY <1>1, ParentIs DEF Inv, LinkOK
  <2>2. ActiveLeaves(c)' = ActiveLeaves(c) /\ PassesThrough(Parent(c))' = PassesThrough(Parent(c))
    BY <1>1, Fixed
  <2>3. CASE Parent(c) = n
    <3>1. frame'[c].body \notin {"running", "passing"}
      BY <1>6, <2>1, <2>3 DEF NextEnds
    <3>2. frame'[n].next = reason /\ ~(frame[c].body = "done" /\ frame[c].end \in Failures)
      BY <1>2, <1>4, <1>5, <2>1, <2>3 DEF ChildOK, Failures
    <3> QED
      BY <1>6, <1>7, <2>1, <2>2, <2>3, <3>1, <3>2 DEF ChildOK, Failures
  <2>4. CASE Parent(c) # n
    <3>1. frame'[Parent(c)] = frame[Parent(c)]
      BY <1>4, <2>1, <2>4
    <3>2. IsServed(Parent(c))' = IsServed(Parent(c)) /\ Current(Parent(c))' = Current(Parent(c))
      BY <1>1, <3>1, SameCurrent
    <3>3. (Serves(Parent(c)) /\ ~IsLeafOf(Parent(c), Current(Parent(c)))
           /\ Child(Parent(c), Current(Parent(c))) = c)'
          = (Serves(Parent(c)) /\ ~IsLeafOf(Parent(c), Current(Parent(c)))
             /\ Child(Parent(c), Current(Parent(c))) = c)
      BY <1>1, <3>1, <3>2, Fixed DEF Serves
    <3> QED
      BY <1>6, <2>1, <2>2, <3>1, <3>3 DEF ChildOK
  <2> QED
    BY <2>3, <2>4
<1>11. ServedOK'
  <2> SUFFICES ASSUME NEW m \in Nodes PROVE EntriesOK(m)'
    BY <1>1 DEF ServedOK
  <2>1. StaysServed
    BY <1>6, <1>7 DEF StaysServed, Inner
  <2>2. EntriesOK(m) /\ frame[m].at \in Nat /\ frame'[m].at = frame[m].at
    BY <1>6 DEF Inv, ServedOK, TypeOK, Frames
  <2>3. CASE m = n
    <3>1. IsServed(n)' = IsServed(n)
      BY <1>1, <1>4, <1>5, SameCurrent
    <3>2. \A i \in Served(n) : i \in Nat
      BY <1>1, ServedIs
    <3>3. (frame'[m].next = "ok" => IsServed(m)') /\ (frame'[m].next = "aborted" => aborted')
      BY <1>4, <1>5, <1>7, <2>3, <3>1 DEF NextEnds
    <3> QED
      BY <1>1, <2>1, <2>2, <2>3, <3>2, <3>3, MoreEntries
  <2>4. CASE m # n
    BY <1>1, <1>4, <2>1, <2>2, <2>4, SameEntries
  <2> QED
    BY <2>3, <2>4
<1>12. TargetsOK'
  BY <1>1, <1>7, Fixed DEF Inv, TargetsOK
<1>13. OutcomeOK'
  <2>1. CASE n = <<>>
    <3>1. outcome = "none"
      BY <1>2, <2>1 DEF Inv, OutcomeOK
    <3> QED
      BY <1>1, <1>7, <3>1, Fixed DEF Inv, OutcomeOK, NoLeak
  <2>2. CASE n # <<>>
    BY <1>1, <1>4, <1>7, <2>2, SameOutcome DEF Inv
  <2> QED
    BY <2>1, <2>2
<1>14. StreamsOK'
  <2>1. \A m \in Nodes : frame[m].next # "none" => frame'[m].next # "none"
    BY <1>4, <1>5, <1>7
  <2> QED
    BY <1>1, <1>6, <1>7, <2>1, SameStreams DEF Inv, Inner
<1>15. TypeOK'
  BY <1>1, <1>4, <1>7, Fixed DEF Inv, TypeOK, streamVars, Streams
<1> QED
  BY <1>1, <1>8, <1>9, <1>10, <1>11, <1>12, <1>13, <1>14, <1>15, Fixed DEF Inv

LEMMA StopServingKeeps ==
    ASSUME Inv, NEW n \in Nodes, StopServing(n)
    PROVE  Inv'
<1>1. \A c \in Inner : Parent(c) = n => frame[c].body \notin {"running", "passing"}
  BY DEF StopServing, Inv, LinkOK, ChildOK
<1>2. NextEnds(n, "aborted")
  BY <1>1 DEF NextEnds, StopServing, Serves
<1> QED
  BY <1>2, NextEndsKeeps

LEMMA NextSettlesKeeps ==
    ASSUME Inv, NEW n \in Nodes, NextSettles(n)
    PROVE  Inv'
<1>1. \A c \in Inner : Parent(c) = n => frame[c].body \notin {"running", "passing"}
  BY DEF NextSettles, Inv, LinkOK, ChildOK, Serves
<1>2. NextEnds(n, "ok")
  BY <1>1 DEF NextEnds, NextSettles
<1> QED
  BY <1>2, NextEndsKeeps

LEMMA WalkChildKeeps ==
    ASSUME Inv, NEW n \in Nodes, WalkChild(n)
    PROVE  Inv'
<1>1. /\ UNCHANGED <<setting, target, refused, streamVars, aborted, outcome>>
      /\ UNCHANGED setting /\ Onward /\ IsSetting(setting)
      /\ Nodes' = Nodes /\ Inner' = Inner /\ Leaves' = Leaves /\ <<>> \in Nodes
  BY Fixed, NodesAre DEF WalkChild, Onward, Inv
<1>2. PICK c \in Inner : c = Child(n, Current(n)) /\ Parent(c) = n /\ c \in Nodes /\ c # <<>> /\ c # n
  BY <1>1, ServingIs, ChildIs, ParentIs DEF WalkChild, Inner
<1>3. /\ frame[n].next = "running" /\ frame[n].made \in Nodes /\ Serves(n)
      /\ n = <<>> \/ ~PassesThrough(n) => frame[n].made = n
      /\ ActiveLeaves(c) # {} /\ ~IsLeafOf(n, Current(n))
  BY <1>2, ServingIs DEF WalkChild, HasNothingToDo
<1>4. frame[c] = Idle /\ frame[c] \in Frames /\ frame[c].body = "idle"
  BY <1>2 DEF WalkChild, Inv, LocalOK, NodeOK, TypeOK
<1>5. ~PassesThrough(c) => frame[n].made = n
  BY <1>1, <1>2, <1>3, PassesDown
<1> DEFINE f == IF PassesThrough(c)
                THEN [frame[c] EXCEPT !.body = "passing", !.next = "running", !.made = frame[n].made]
                ELSE [frame[c] EXCEPT !.body = "running", !.made = frame[n].made]
<1>6. f \in Frames
  BY <1>3, <1>4 DEF Frames
<1>7. /\ f.at = 1 /\ f.calls = 0 /\ ~f.produced /\ ~f.violated /\ ~f.started
      /\ f.threw = "none" /\ f.end = "none" /\ f.made = frame[n].made
      /\ PassesThrough(c) => f.body = "passing" /\ f.next = "running"
      /\ ~PassesThrough(c) => f.body = "running" /\ f.next = "none"
  BY <1>4 DEF Idle
<1>8. frame' = [frame EXCEPT ![c] = f]
  BY <1>2 DEF WalkChild
<1> HIDE DEF f
<1>9. /\ frame' \in [Nodes -> Frames] /\ frame'[c] = f
      /\ \A m \in Nodes : m # c => frame'[m] = frame[m]
  BY <1>2, <1>6, <1>8, OneFrame DEF Inv, TypeOK
<1>10. RootOK'
  BY <1>1, <1>2, <1>9, SameRoot DEF Inv
<1>11. LocalOK'
  <2> SUFFICES ASSUME NEW m \in Inner PROVE NodeOK(m)'
    BY <1>1 DEF LocalOK
  <2>1. NodeOK(m) /\ m \in Nodes
    BY DEF Inv, LocalOK, Inner
  <2>2. CASE m = c
    <3>1. PassesThrough(c)' = PassesThrough(c)
      BY <1>1, Fixed
    <3>2. CASE PassesThrough(c)
      <4>1. NodeOK(c)'
        BY <1>7, <1>9, <3>1, <3>2 DEF NodeOK, PassingOK
      <4> QED
        BY <2>2, <4>1
    <3>3. CASE ~PassesThrough(c)
      <4>1. NodeOK(c)'
        BY <1>2, <1>5, <1>7, <1>9, <3>1, <3>3 DEF NodeOK, BodyOK
      <4> QED
        BY <2>2, <4>1
    <3> QED
      BY <3>2, <3>3
  <2>3. CASE m # c
    BY <1>1, <1>9, <2>1, <2>3, SameNode
  <2> QED
    BY <2>2, <2>3
<1>12. LinkOK'
  <2> SUFFICES ASSUME NEW d \in Inner PROVE ChildOK(d)'
    BY <1>1 DEF LinkOK
  <2>1. ChildOK(d) /\ Parent(d) \in Nodes /\ Parent(d) # d /\ d \in Nodes
    BY <1>1, ParentIs DEF Inv, LinkOK, Inner
  <2>2. ActiveLeaves(d)' = ActiveLeaves(d) /\ PassesThrough(Parent(d))' = PassesThrough(Parent(d))
    BY <1>1, Fixed
  <2>3. CASE d = c
    <3>1. frame'[n] = frame[n]
      BY <1>2, <1>9
    <3>2. IsServed(n)' = IsServed(n) /\ Current(n)' = Current(n)
      BY <1>1, <3>1, SameCurrent
    <3>3. (Serves(n) /\ ~IsLeafOf(n, Current(n)) /\ Child(n, Current(n)) = c)'
      BY <1>1, <1>2, <1>3, <3>1, <3>2, Fixed DEF Serves
    <3>4. f.body \in {"running", "passing"}
      BY <1>7
    <3>5. n = <<>> \/ PassesThrough(n) \/ frame[n].started
      BY <1>3, ServesIs
    <3> QED
      BY <1>2, <1>3, <1>9, <2>2, <2>3, <3>1, <3>3, <3>4, <3>5 DEF ChildOK
  <2>4. CASE d # c /\ Parent(d) = c
    <3>1. frame[d].body = "idle"
      <4>1. frame[d] \in Frames /\ frame[c].next = "none"
        BY <1>4, <2>1 DEF Inv, TypeOK, Idle
      <4> QED
        BY <2>1, <2>4, <4>1 DEF ChildOK, Frames
    <3> QED
      BY <1>9, <2>1, <2>4, <3>1 DEF ChildOK
  <2>5. CASE d # c /\ Parent(d) # c
    BY <1>1, <1>9, <2>1, <2>5, SameChild
  <2> QED
    BY <2>3, <2>4, <2>5
<1>13. ServedOK'
  <2> SUFFICES ASSUME NEW m \in Nodes PROVE EntriesOK(m)'
    BY <1>1 DEF ServedOK
  <2>1. StaysServed
    BY <1>1, <1>4, <1>9 DEF StaysServed, Inner
  <2>2. EntriesOK(m) /\ frame[m].at \in Nat
    BY DEF Inv, ServedOK, TypeOK, Frames
  <2>3. CASE m = c
    <3>1. frame'[m].at = frame[m].at /\ frame'[m].next \notin {"ok", "aborted"}
      BY <1>4, <1>7, <1>9, <2>3 DEF Idle
    <3> QED
      BY <1>1, <2>1, <2>2, <3>1, SameEntries
  <2>4. CASE m # c
    BY <1>1, <1>9, <2>1, <2>2, <2>4, SameEntries
  <2> QED
    BY <2>3, <2>4
<1>14. TargetsOK'
  BY <1>1, Fixed DEF Inv, TargetsOK
<1>15. OutcomeOK'
  BY <1>1, <1>2, <1>9, SameOutcome DEF Inv
<1>16. StreamsOK'
  <2>0. /\ f.produced = frame[c].produced /\ f.started = frame[c].started
        /\ f.end = frame[c].end
    <3>1. /\ frame[c].produced = FALSE /\ frame[c].started = FALSE /\ frame[c].end = "none"
      BY <1>4 DEF Idle
    <3>2. f.produced \in BOOLEAN /\ f.started \in BOOLEAN
      BY <1>6 DEF Frames
    <3> QED
      BY <1>7, <3>1, <3>2
  <2>1. \A m \in Inner : /\ frame'[m].produced = frame[m].produced
                         /\ frame'[m].started = frame[m].started /\ frame'[m].end = frame[m].end
    BY <1>9, <2>0 DEF Inner
  <2>2. \A m \in Nodes : frame[m].next # "none" => frame'[m].next # "none"
    BY <1>4, <1>9 DEF Idle
  <2> QED
    BY <1>1, <2>1, <2>2, SameStreams DEF Inv
<1>17. TypeOK'
  BY <1>1, <1>9, Fixed DEF Inv, TypeOK, streamVars, Streams
<1> QED
  BY <1>1, <1>10, <1>11, <1>12, <1>13, <1>14, <1>15, <1>16, <1>17, Fixed DEF Inv

----------------------------------------------------------------------------
(* the end of a body *)

\* The walk of a node ends, and the next() outside goes on or fails.
Departs(n, thrown, end) ==
    /\ frame[n].body \in {"running", "passing"}
    /\ LeavesFrame(n, thrown, end)
    /\ UNCHANGED <<setting, target, branch, read, aborted, outcome>>
    /\ thrown \in {"none", "passed"} \cup Failures
    /\ end \in {"ok", "skipped"} \cup Failures
    /\ end = "aborted" => aborted
    /\ NoLeak(end)
    /\ PassesThrough(n) => end \in {"ok", "aborted"}
    /\ NodeOK(n)'
    /\ refused' \in BOOLEAN /\ (refused => refused')
    /\ refused' => refused \/ (setting.throwOnDenied /\ Operation = "repair")
    /\ input' \in [Nodes -> Streams] /\ output' \in [Nodes -> Streams]
    /\ \A m \in Nodes : /\ input'[m] = "free" => input[m] = "free"
                        /\ output'[m] = "free" => output[m] = "free"
    /\ end = "skipped" => input'[n] # "free" /\ output'[n] # "free"
    /\ ~IsStream => UNCHANGED <<input, output>>

LEMMA DepartsKeep ==
    ASSUME Inv, NEW n \in Inner, NEW thrown, NEW end, Departs(n, thrown, end)
    PROVE  Inv'
<1>1. /\ UNCHANGED <<setting, target, branch, read, aborted, outcome>>
      /\ UNCHANGED setting /\ Onward /\ IsSetting(setting)
      /\ Nodes' = Nodes /\ Inner' = Inner /\ Leaves' = Leaves /\ <<>> \in Nodes
  BY Fixed, NodesAre DEF Departs, Onward, Inv
<1>2. PICK p \in Nodes : p = Parent(n) /\ p # n
  BY <1>1, ParentIs
<1>3. /\ Serves(p) /\ ~IsLeafOf(p, Current(p)) /\ Child(p, Current(p)) = n
      /\ frame[p].next = "running" /\ ActiveLeaves(n) # {} /\ n \in Nodes /\ n # <<>>
  BY <1>2 DEF Inv, LinkOK, ChildOK, Departs, Serves, Inner
<1>4. /\ frame[p] \in Frames /\ frame[p].at \in Nat
      /\ outcome # "none" => Hasty
      /\ p # <<>> => frame[p].body # "idle"
  BY <1>3, ServesIs
<1>5. PICK e \in Served(p) : /\ e = Current(p) /\ e \in Nat /\ e >= frame[p].at
                             /\ \A j \in Served(p) : j >= frame[p].at => e <= j
                             /\ e + 1 \in 1 .. Cardinality(Leaves) + 1
  BY <1>1, <1>3, <1>4, CurrentIs, AtIs DEF Serves, Inv, TypeOK
<1>6. /\ thrown \in {"none", "passed"} \cup Failures /\ end \in {"ok", "skipped"} \cup Failures
      /\ end = "aborted" => aborted
      /\ NoLeak(end)
  BY DEF Departs
<1>7. ~PassesThrough(n) => p = <<>> \/ ~PassesThrough(p)
  BY <1>1, <1>2, <1>3, PassesDown
<1> DEFINE goesOn == end \in {"ok", "skipped"}
           f == [frame[n] EXCEPT !.body = "done", !.end = end, !.threw = thrown]
           g == [frame[p] EXCEPT !.at = IF goesOn THEN e + 1 ELSE @,
                                 !.next = IF goesOn THEN @ ELSE end,
                                 !.violated = @ \/ (end = "contract" /\ frame[p].body # "passing")]
<1>8. frame \in [Nodes -> Frames] /\ frame[n] \in Frames
  BY <1>3 DEF Inv, TypeOK
<1>9. f \in Frames
  BY <1>6, <1>8 DEF Frames
<1>10. g \in Frames
  BY <1>4, <1>5, <1>6 DEF Frames
<1>11. /\ frame' \in [Nodes -> Frames] /\ frame'[n] = f /\ frame'[p] = g
       /\ \A m \in Nodes : m # n /\ m # p => frame'[m] = frame[m]
  <2>1. frame' = [[frame EXCEPT ![n] = f] EXCEPT ![p] = g]
    BY <1>2, <1>3, <1>5, <1>8 DEF Departs, LeavesFrame
  <2> HIDE DEF f, g
  <2> QED
    BY <1>2, <1>3, <1>8, <1>9, <1>10, <2>1
<1>12. /\ f.body = "done" /\ f.end = end /\ f.threw = thrown /\ f.next = frame[n].next
       /\ f.at = frame[n].at /\ f.violated = frame[n].violated
       /\ f.produced = frame[n].produced /\ f.started = frame[n].started
  BY <1>8 DEF Frames
<1>13. /\ g.at = IF goesOn THEN e + 1 ELSE frame[p].at
       /\ g.next = IF goesOn THEN "running" ELSE end
       /\ g.violated = (frame[p].violated \/ (end = "contract" /\ frame[p].body # "passing"))
       /\ g.body = frame[p].body /\ g.threw = frame[p].threw /\ g.end = frame[p].end
       /\ g.calls = frame[p].calls /\ g.produced = frame[p].produced
       /\ g.started = frame[p].started /\ g.made = frame[p].made
  BY <1>3, <1>4 DEF Frames
<1> HIDE DEF f, g
<1>14. /\ \A m \in Nodes : m # n => frame'[m].body = frame[m].body /\ frame'[m].end = frame[m].end
       /\ \A m \in Nodes : m # p => /\ frame'[m].next = frame[m].next /\ frame'[m].at = frame[m].at
                                    /\ frame'[m].violated = frame[m].violated
       /\ \A m \in Nodes : frame'[m].produced = frame[m].produced
       /\ \A m \in Nodes : frame'[m].started = frame[m].started
       /\ frame[n].body \in {"running", "passing"}
  BY <1>11, <1>12, <1>13 DEF Departs
<1>15. g.next \in {"running"} \cup Failures /\ NoLeak(g.next) /\ g.next # "ok"
  BY <1>6, <1>13 DEF NoLeak, Failures
<1>16. /\ frame[p].violated => g.violated
       /\ p # <<>> /\ PassesThrough(p) =>
             g.next \in {"running", "aborted"} /\ g.violated = frame[p].violated
  <2>1. frame[p].violated \in BOOLEAN
    BY <1>4 DEF Frames
  <2>2. p # <<>> /\ PassesThrough(p) => end \in {"ok", "aborted"}
    BY <1>7 DEF Departs
  <2> QED
    BY <1>13, <2>1, <2>2
<1>17. end = "contract" => g.violated
  <2>1. end = "contract" => p = <<>> \/ ~PassesThrough(p)
    BY <1>7 DEF Departs
  <2>2. CASE p = <<>>
    BY <1>13, <2>2 DEF Inv, RootOK
  <2>3. CASE p # <<>> /\ ~PassesThrough(p)
    <3>1. NodeOK(p)
      BY <2>3 DEF Inv, LocalOK, Inner
    <3> QED
      BY <1>13, <2>3, <3>1 DEF NodeOK, BodyOK
  <2> QED
    BY <2>1, <2>2, <2>3
<1>18. RootOK'
  <2>1. CASE p = <<>>
    <3>1. ~RefusesAtOnce /\ ~RefusesAtOnce'
      BY <1>1, <1>3, <2>1, Fixed DEF Inv, RootOK
    <3>2. frame'[<<>>].next = g.next /\ NoLeak(frame[<<>>].next)'
      <4>1. frame'[<<>>].next = g.next
        BY <1>11, <2>1
      <4>2. Operation' = Operation /\ IsRepair' = IsRepair
        BY <1>1, Fixed
      <4> QED
        BY <1>1, <1>15, <4>1, <4>2 DEF NoLeak
    <3>3. frame'[<<>>].violated => frame'[<<>>].next = "contract"
      <4>1. ~frame[<<>>].violated
        BY <1>3, <2>1 DEF RootOK, Inv
      <4>2. g.violated => end = "contract"
        BY <1>13, <2>1, <4>1
      <4>3. end = "contract" => g.next = "contract"
        BY <1>13
      <4> QED
        BY <1>11, <2>1, <4>2, <4>3
    <3> QED
      BY <1>1, <1>11, <1>13, <1>15, <2>1, <3>1, <3>2, <3>3, Fixed DEF RootOK, Inv, Failures
  <2>2. CASE p # <<>>
    BY <1>1, <1>3, <1>11, <2>2, SameRoot DEF Inv
  <2> QED
    BY <2>1, <2>2
<1>19. LocalOK'
  <2> SUFFICES ASSUME NEW m \in Inner PROVE NodeOK(m)'
    BY <1>1 DEF LocalOK
  <2>1. NodeOK(m) /\ m \in Nodes /\ m # <<>>
    BY DEF Inv, LocalOK, Inner
  <2>2. CASE m = n
    <3>1. NodeOK(n)'
      BY DEF Departs
    <3> QED
      BY <2>2, <3>1
  <2>3. CASE m = p
    BY <1>1, <1>3, <1>4, <1>11, <1>13, <1>15, <1>16, <2>1, <2>3, SameNodeButNext
  <2>4. CASE m # n /\ m # p
    BY <1>1, <1>11, <2>1, <2>4, SameNode
  <2> QED
    BY <2>2, <2>3, <2>4
<1>20. LinkOK'
  <2> SUFFICES ASSUME NEW d \in Inner PROVE ChildOK(d)'
    BY <1>1 DEF LinkOK
  <2>1. ChildOK(d) /\ Parent(d) \in Nodes /\ Parent(d) # d /\ d \in Nodes
    BY <1>1, ParentIs DEF Inv, LinkOK, Inner
  <2>2. ActiveLeaves(d)' = ActiveLeaves(d) /\ PassesThrough(Parent(d))' = PassesThrough(Parent(d))
    BY <1>1, Fixed
  <2>3. CASE d = n
    <3>1. p = <<>> \/ PassesThrough(p) \/ frame[p].started
      BY <1>2, <1>14, <2>1, <2>3 DEF ChildOK
    <3> QED
      BY <1>2, <1>3, <1>11, <1>12, <1>13, <1>15, <1>17, <2>2, <2>3, <3>1 DEF ChildOK, Failures
  <2>4. CASE d # n /\ Parent(d) = p
    <3>1. frame[d].body \notin {"running", "passing"}
      BY <1>2, <1>3, <2>1, <2>4 DEF ChildOK
    <3>2. ~(frame[d].body = "done" /\ frame[d].end \in Failures)
      BY <1>2, <1>3, <2>1, <2>4 DEF ChildOK, Failures
    <3> QED
      BY <1>11, <1>14, <1>15, <2>1, <2>2, <2>4, <3>1, <3>2 DEF ChildOK, Failures
  <2>5. CASE d # n /\ Parent(d) # p
    BY <1>1, <1>14, <2>1, <2>5, SameChild
  <2> QED
    BY <2>3, <2>4, <2>5
<1>21. ServedOK'
  <2> SUFFICES ASSUME NEW m \in Nodes PROVE EntriesOK(m)'
    BY <1>1 DEF ServedOK
  <2>1. StaysServed
    BY <1>1, <1>14 DEF StaysServed, Inner
  <2>2. EntriesOK(m) /\ frame[m].at \in Nat
    BY DEF Inv, ServedOK, TypeOK, Frames
  <2>3. CASE m = p
    <3>1. \A i \in Served(p) : i >= frame[p].at /\ i < frame'[p].at => goesOn /\ i = e
      <4>1. \A i \in Served(p) : i \in Nat
        BY <1>1, ServedIs
      <4>2. frame'[p].at = IF goesOn THEN e + 1 ELSE frame[p].at
        BY <1>11, <1>13
      <4>3. CASE goesOn
        <5>1. frame'[p].at = e + 1
          BY <4>2, <4>3
        <5>2. \A j \in Served(p) : j >= frame[p].at => e <= j
          BY <1>5
        <5>3. e \in Nat /\ frame[p].at \in Nat
          BY <1>4, <4>1
        <5>4. ASSUME NEW i \in Served(p), i >= frame[p].at, i < frame'[p].at
              PROVE  i = e
          <6>1. i \in Nat /\ e <= i
            BY <4>1, <5>2, <5>4, Zenon
          <6>2. i < e + 1
            BY <5>1, <5>4, Zenon
          <6> QED
            BY <5>3, <6>1, <6>2
        <5> HIDE DEF goesOn
        <5> QED
          BY <4>3, <5>4, Zenon
      <4>4. CASE ~goesOn
        <5>1. frame'[p].at = frame[p].at
          BY <4>2, <4>4
        <5> HIDE DEF goesOn
        <5> QED
          BY <1>4, <4>1, <5>1
      <4> QED
        BY <4>3, <4>4
    <3>2. goesOn => ChildServed(n)'
      BY <1>11, <1>12 DEF ChildServed
    <3>3. frame'[p].next # "ok" /\ (frame'[p].next = "aborted" => aborted')
      BY <1>1, <1>6, <1>11, <1>13, <1>15
    <3> QED
      BY <1>1, <1>3, <1>5, <2>1, <2>2, <2>3, <3>1, <3>2, <3>3, MoreEntries
  <2>4. CASE m # p
    BY <1>1, <1>14, <2>1, <2>2, <2>4, SameEntries
  <2> QED
    BY <2>3, <2>4
<1>22. TargetsOK'
  BY <1>1, Fixed DEF Inv, TargetsOK
<1>23. OutcomeOK'
  <2>1. outcome # "none" => frame'[<<>>].next # "running"
    <3>1. p = <<>> => outcome = "none"
      BY <1>3 DEF Inv, OutcomeOK
    <3> QED
      BY <1>1, <1>14, <3>1 DEF Inv, OutcomeOK
  <2>2. outcome = "ok" => frame'[<<>>].next = "ok"
    <3>1. p = <<>> => outcome = "none"
      BY <1>3 DEF Inv, OutcomeOK
    <3> QED
      BY <1>1, <1>14, <3>1 DEF Inv, OutcomeOK
  <2>3. refused' => setting.throwOnDenied /\ Operation = "repair"
    BY DEF Departs, Inv, OutcomeOK
  <2> QED
    BY <1>1, <1>4, <2>1, <2>2, <2>3, Fixed DEF Inv, OutcomeOK
<1>24. StreamsOK'
  <2>1. \A m \in Nodes : frame[m].next # "none" => frame'[m].next # "none"
    BY <1>11, <1>14, <1>15 DEF Failures
  <2>2. \A m \in Inner :
           frame'[m].end = "skipped" =>
              frame[m].end = "skipped" \/ (input'[m] # "free" /\ output'[m] # "free")
    BY <1>11, <1>12, <1>14 DEF Departs, Inner
  <2> QED
    BY <1>1, <1>14, <2>1, <2>2, FewerStreams DEF Inv, Departs, Inner
<1>25. TypeOK'
  BY <1>1, <1>11, Fixed DEF Inv, TypeOK, Departs, Streams
<1> QED
  BY <1>1, <1>18, <1>19, <1>20, <1>21, <1>22, <1>23, <1>24, <1>25, Fixed DEF Inv

\* What a body may leave with.
Leaving(n, thrown, rethrown) ==
    /\ Running(n)
    /\ thrown \in {"none"} \cup Failures
    /\ rethrown \in BOOLEAN
    /\ rethrown => thrown = frame[n].next /\ thrown # "none"
    /\ thrown = "aborted" => aborted
    /\ frame[n].next = "running" => Hasty

\* The boundary of encode and decodeStream.
LEMMA EndsPlainlyIs ==
    ASSUME Inv, NEW n \in Inner, NEW thrown, NEW rethrown, Leaving(n, thrown, rethrown), Plain
    PROVE  LET end == Ends(n, thrown, rethrown)
           IN  /\ end \in {"ok"} \cup Failures
               /\ end = "aborted" => aborted
               /\ thrown # "none" => end = thrown
               /\ end = "ok" => /\ frame[n].next \in {"ok"} \cup Failures
                                /\ IsStream => frame[n].next = "ok"
<1>1. Ends(n, thrown, rethrown) = EndsPlainly(n, thrown)
  BY DEF Ends, Plain
<1>2. frame[n].next \in {"none", "running", "ok"} \cup Failures
  BY RunningIs DEF Leaving, Frames
<1>3. frame[n].next = "aborted" => aborted
  BY DEF Inv, ServedOK, EntriesOK, Inner
<1>4. IsStream => Operation = "decodeStream"
  BY DEF IsStream, Plain
<1>5. CASE thrown # "none"
  <2>1. Ends(n, thrown, rethrown) = thrown
    BY <1>1, <1>5 DEF EndsPlainly
  <2> QED
    BY <1>5, <2>1 DEF Leaving, Failures
<1>6. CASE thrown = "none" /\ aborted
  <2>1. Ends(n, thrown, rethrown) = "aborted"
    BY <1>1, <1>6 DEF EndsPlainly
  <2> QED
    BY <1>6, <2>1 DEF Failures
<1>7. CASE thrown = "none" /\ ~aborted /\ Broken(n)
  <2>1. Ends(n, thrown, rethrown) = "contract"
    BY <1>1, <1>7 DEF EndsPlainly
  <2> QED
    BY <1>7, <2>1 DEF Failures
<1>8. CASE thrown = "none" /\ ~aborted /\ ~Broken(n)
  <2>1. frame[n].next \in {"ok"} \cup Failures
    BY <1>2, <1>8 DEF Broken
  <2>2. CASE Operation = "decodeStream" /\ frame[n].next \in Failures
    <3>1. Ends(n, thrown, rethrown) = frame[n].next
      BY <1>1, <1>8, <2>2 DEF EndsPlainly
    <3> QED
      BY <1>3, <1>8, <2>2, <3>1 DEF Failures
  <2>3. CASE ~(Operation = "decodeStream" /\ frame[n].next \in Failures)
    <3>1. Ends(n, thrown, rethrown) = "ok"
      BY <1>1, <1>8, <2>3 DEF EndsPlainly
    <3> QED
      BY <1>4, <1>8, <2>1, <2>3, <3>1
  <2> QED
    BY <2>2, <2>3
<1> QED
  BY <1>5, <1>6, <1>7, <1>8

\* The boundary of repair.
LEMMA EndsRepairIs ==
    ASSUME Inv, NEW n \in Inner, NEW thrown, NEW rethrown, Leaving(n, thrown, rethrown),
           Operation = "repair"
    PROVE  LET end == Ends(n, thrown, rethrown)
           IN  /\ end \in {"ok", "aborted", "contract", "denied"}
               /\ end = "aborted" => aborted
               /\ end = "denied" => setting.throwOnDenied
               /\ frame[n].violated => end = "contract" \/ aborted
               /\ rethrown /\ frame[n].started => end \in Failures \/ aborted
               /\ thrown = "denied" /\ setting.throwOnDenied =>
                     end \in Failures \/ aborted \/ RefusesRepair(n, thrown)
               /\ end = "ok" /\ thrown = "none" => frame[n].next \in {"ok"} \cup Failures \/ aborted
<1>1. Ends(n, thrown, rethrown) = EndsRepair(n, thrown)
  BY DEF Ends
<1>2. /\ frame[n].next \in {"none", "running", "ok"} \cup Failures
      /\ frame[n].started => NoLeak(frame[n].next)
      /\ ActiveLeaves(n) # {} /\ n \in Nodes
  BY RunningIs DEF Leaving, Frames, BodyOK
<1>3. Cardinality(ActiveLeaves(n)) \in Nat /\ Cardinality(ActiveLeaves(n)) # 0
  <2>1. PICK k \in Nat \ {0} : Leaves = 1 .. k
    BY LeavesAre DEF Inv
  <2>2. IsFiniteSet(Leaves)
    BY <2>1, FS_Interval
  <2>3. ActiveLeaves(n) \subseteq Leaves
    BY DEF ActiveLeaves, AllLeaves
  <2>4. IsFiniteSet(ActiveLeaves(n))
    BY <2>2, <2>3, FS_Subset
  <2> QED
    BY <1>2, <2>4, FS_CardinalityType, FS_EmptySet
<1>4. Cardinality(ActiveLeaves(n)) >= 2 \/ Cardinality(ActiveLeaves(n)) = 1
  BY <1>3
<1>5. frame[n].started => frame[n].next # "error" /\ (frame[n].next = "denied" => setting.throwOnDenied)
  BY <1>2 DEF NoLeak, IsRepair
<1>6. setting.throwOnDenied \in BOOLEAN
  BY DEF Inv, IsSetting
<1>7. CASE aborted
  <2>1. Ends(n, thrown, rethrown) \in {"ok", "aborted"}
    BY <1>1, <1>7 DEF EndsRepair
  <2> QED
    BY <1>7, <2>1
<1> DEFINE denies == /\ thrown = "denied" /\ setting.throwOnDenied
                     /\ frame[n].started \/ Cardinality(ActiveLeaves(n)) >= 2
<1>8. CASE ~aborted /\ BreaksRules(n, thrown)
  <2>1. Ends(n, thrown, rethrown) = "contract"
    BY <1>1, <1>8 DEF EndsRepair
  <2> QED
    BY <1>8, <2>1 DEF Failures
<1>9. CASE ~aborted /\ ~BreaksRules(n, thrown) /\ denies
  <2>1. Ends(n, thrown, rethrown) = "denied"
    BY <1>1, <1>9 DEF EndsRepair
  <2> QED
    BY <1>9, <2>1 DEF Failures, BreaksRules
<1>10. CASE ~aborted /\ ~BreaksRules(n, thrown) /\ ~denies
  <2>1. Ends(n, thrown, rethrown) = "ok"
    BY <1>1, <1>10 DEF EndsRepair
  <2>2. thrown = "none" => frame[n].next \in {"ok"} \cup Failures
    BY <1>2, <1>10 DEF Broken, BreaksRules
  <2>3. ~(rethrown /\ frame[n].started)
    BY <1>5, <1>10 DEF Leaving, Failures, BreaksRules
  <2>4. thrown = "denied" /\ setting.throwOnDenied => RefusesRepair(n, thrown)
    BY <1>4, <1>10 DEF RefusesRepair, BreaksRules
  <2> QED
    BY <1>10, <2>1, <2>2, <2>3, <2>4 DEF BreaksRules
<1> QED
  BY <1>7, <1>8, <1>9, <1>10

\* The boundary of a tree of streams.
LEMMA EndsTreeIs ==
    ASSUME Inv, NEW n \in Inner, NEW thrown, NEW rethrown, Leaving(n, thrown, rethrown),
           Operation \in {"streamSet", "streamRepair"}
    PROVE  LET end == Ends(n, thrown, rethrown)
           IN  /\ end \in {"ok", "skipped"} \cup Failures
               /\ end = "aborted" => aborted
               /\ Operation = "streamRepair" /\ ~setting.throwOnDenied => end # "denied"
               /\ end = "skipped" =>
                     Operation = "streamRepair" /\ thrown = "denied" /\ ~frame[n].started
               /\ frame[n].violated => end = "contract" \/ aborted
               /\ rethrown /\ frame[n].started => end \in Failures
               /\ thrown = "denied" /\ Operation = "streamRepair" /\ setting.throwOnDenied =>
                     end \in Failures
               /\ end = "ok" /\ thrown = "none" => frame[n].next \in {"ok"} \cup Failures
               /\ end = "ok" /\ thrown # "none" => frame[n].started /\ ~rethrown
<1>1. Ends(n, thrown, rethrown) = EndsTree(n, thrown, rethrown)
  BY DEF Ends
<1>2. /\ frame[n].next \in {"none", "running", "ok"} \cup Failures
      /\ frame[n].started => NoLeak(frame[n].next)
  BY RunningIs DEF Leaving, Frames, BodyOK
<1>3. frame[n].started => ~(frame[n].next = "denied" /\ Operation = "streamRepair" /\ ~setting.throwOnDenied)
  BY <1>2 DEF NoLeak, IsRepair
<1>4. setting.throwOnDenied \in BOOLEAN /\ frame[n].started \in BOOLEAN
  BY RunningIs DEF Inv, IsSetting, Leaving, Frames
<1>5. Denies(thrown) => thrown = "denied" /\ Operation = "streamRepair" /\ ~setting.throwOnDenied
  BY DEF Denies
<1> DEFINE inner == frame[n].started /\ rethrown
<1>6. CASE aborted
  <2>1. Ends(n, thrown, rethrown) = "aborted"
    BY <1>1, <1>6 DEF EndsTree
  <2> QED
    BY <1>6, <2>1 DEF Failures
<1>7. CASE ~aborted /\ BreaksRules(n, thrown)
  <2>1. Ends(n, thrown, rethrown) = "contract"
    BY <1>1, <1>7 DEF EndsTree
  <2> QED
    BY <1>7, <2>1 DEF Failures
<1>8. CASE ~aborted /\ ~BreaksRules(n, thrown) /\ thrown = "none"
  <2>1. Ends(n, thrown, rethrown) = "ok"
    BY <1>1, <1>8 DEF EndsTree
  <2>2. frame[n].next \in {"ok"} \cup Failures
    BY <1>2, <1>8 DEF Broken, BreaksRules
  <2> QED
    BY <1>8, <2>1, <2>2 DEF Leaving, BreaksRules
<1>9. CASE ~aborted /\ ~BreaksRules(n, thrown) /\ thrown # "none" /\ inner
  <2>1. Ends(n, thrown, rethrown) = thrown
    BY <1>1, <1>9 DEF EndsTree
  <2> QED
    BY <1>3, <1>9, <2>1 DEF Leaving, Failures, BreaksRules
<1>10. CASE ~aborted /\ ~BreaksRules(n, thrown) /\ thrown # "none" /\ ~inner /\ Operation = "streamSet"
  <2>1. Ends(n, thrown, rethrown) = thrown
    BY <1>1, <1>10 DEF EndsTree
  <2> QED
    BY <1>10, <2>1 DEF Leaving, Failures, BreaksRules
<1>11. CASE ~aborted /\ ~BreaksRules(n, thrown) /\ thrown # "none" /\ ~inner /\ Operation = "streamRepair"
  <2>1. CASE frame[n].started /\ (thrown = "error" \/ Denies(thrown))
    <3>1. Ends(n, thrown, rethrown) = "ok"
      BY <1>1, <1>11, <2>1 DEF EndsTree
    <3> QED
      BY <1>5, <1>11, <2>1, <3>1 DEF BreaksRules
  <2>2. CASE ~frame[n].started /\ Denies(thrown)
    <3>1. Ends(n, thrown, rethrown) = "skipped"
      BY <1>1, <1>11, <2>2 DEF EndsTree
    <3> QED
      BY <1>5, <1>11, <2>2, <3>1 DEF BreaksRules
  <2>3. CASE /\ ~(frame[n].started /\ (thrown = "error" \/ Denies(thrown)))
             /\ ~(~frame[n].started /\ Denies(thrown))
    <3>1. Ends(n, thrown, rethrown) = thrown
      BY <1>1, <1>11, <2>3 DEF EndsTree
    <3>2. ~Denies(thrown)
      BY <2>3
    <3> QED
      BY <1>11, <3>1, <3>2 DEF Leaving, Failures, Denies, BreaksRules
  <2> QED
    BY <2>1, <2>2, <2>3
<1> QED
  BY <1>6, <1>7, <1>8, <1>9, <1>10, <1>11

LEMMA LeaveKeeps ==
    ASSUME Inv, NEW n \in Inner, NEW thrown, NEW rethrown, Leaving(n, thrown, rethrown),
           Leave(n, thrown, rethrown)
    PROVE  Inv'
<1> DEFINE told == IF rethrown THEN "passed" ELSE thrown
<1>1. PICK end : end = Ends(n, thrown, rethrown)
  OBVIOUS
<1>2. /\ UNCHANGED <<setting, target, branch, read, aborted, outcome>> /\ UNCHANGED setting
      /\ LeavesFrame(n, told, end) /\ Abandons(n, end)
      /\ refused' = (refused \/ (Operation = "repair" /\ RefusesRepair(n, thrown)))
  BY <1>1 DEF Leave
<1>3. /\ n \in Nodes /\ frame[n] \in Frames /\ ~PassesThrough(n) /\ BodyOK(n)
      /\ frame[n].next # "refused" /\ Parent(n) \in Nodes /\ Parent(n) # n
      /\ frame \in [Nodes -> Frames]
  BY RunningIs, ParentIs DEF Leaving, Inv, TypeOK
<1>4. /\ Operation \in {"encode", "repair", "streamSet", "streamRepair", "decodeStream"}
      /\ setting.throwOnDenied \in BOOLEAN /\ refused \in BOOLEAN /\ rethrown \in BOOLEAN
      /\ told \in {"none", "passed"} \cup Failures
  BY DEF Inv, IsSetting, TypeOK, Leaving, Operation
<1>5. /\ end \in {"ok", "skipped"} \cup Failures
      /\ end = "aborted" => aborted
      /\ NoLeak(end)
  <2>1. CASE Plain
    BY <1>1, <2>1, EndsPlainlyIs DEF Plain, NoLeak, IsRepair
  <2>2. CASE Operation = "repair"
    BY <1>1, <2>2, EndsRepairIs DEF NoLeak, Failures
  <2>3. CASE Operation \in {"streamSet", "streamRepair"}
    BY <1>1, <2>3, EndsTreeIs DEF NoLeak, IsRepair
  <2> QED
    BY <1>4, <2>1, <2>2, <2>3 DEF Plain
<1>6. /\ frame'[n].body = "done" /\ frame'[n].end = end /\ frame'[n].threw = told
      /\ frame'[n].next = frame[n].next /\ frame'[n].started = frame[n].started
      /\ frame'[n].calls = frame[n].calls /\ frame'[n].produced = frame[n].produced
      /\ frame'[n].made = frame[n].made /\ frame'[n].violated = frame[n].violated
  <2> HIDE DEF told
  <2>1. frame'[n] = [frame[n] EXCEPT !.body = "done", !.end = end, !.threw = told]
    BY <1>2, <1>3 DEF LeavesFrame
  <2> QED
    BY <1>3, <2>1 DEF Frames
<1>7. /\ PassesThrough(n)' = PassesThrough(n) /\ Hasty' = Hasty
      /\ Operation' = Operation /\ IsStream' = IsStream /\ IsRepair' = IsRepair /\ Plain' = Plain
  BY <1>2, Fixed
<1>8. BodyOK(n)'
  BY <1>3, <1>6, <1>7, <1>2, Fixed DEF BodyOK, Leaving, NoLeak
<1>9. EndingOK(n)'
  <2>1. Swallows(n)' <=> frame[n].next \in Failures /\ told # "passed"
    BY <1>3, <1>6, ParentIs DEF Swallows, Inv, Inner
  <2>2. IsDenied(n)' <=> told = "denied" \/ (frame[n].next = "denied" /\ ~frame[n].started)
    BY <1>6 DEF IsDenied
  <2>3. NoLeak(frame[n].end)'
    BY <1>5, <1>6, <1>7, <1>2 DEF NoLeak
  <2>4. "passed" \notin {"none"} \cup Failures /\ "denied" \in Failures
    BY DEF Failures
  <2>5. /\ told = "none" => thrown = "none" /\ ~rethrown
        /\ told = "passed" => rethrown
        /\ told = "denied" => thrown = "denied"
        /\ rethrown => told = "passed"
        /\ thrown # "none" => told # "none"
    BY <1>4, <2>4 DEF Leaving
  <2>6. frame[n].next = "denied" /\ ~frame[n].started =>
           thrown = "denied" \/ Swallows(n)'
    BY <1>4, <2>1, <2>4, <2>5 DEF Leaving
  <2> HIDE DEF told
  <2>7. CASE Plain
    <3>1. end \in {"ok"} \cup Failures /\ (thrown # "none" => end = thrown)
          /\ (end = "ok" => frame[n].next \in {"ok"} \cup Failures /\ (IsStream => frame[n].next = "ok"))
      BY <1>1, <2>7, EndsPlainlyIs
    <3>2. ~IsRepair /\ "skipped" \notin {"ok"} \cup Failures /\ "none" \notin {"ok"} \cup Failures
      BY <2>7 DEF Plain, IsRepair, Failures
    <3>3. end = "ok" => ~rethrown /\ thrown = "none"
      BY <3>1 DEF Leaving, Failures
    <3>4. end = "ok" /\ IsStream => frame[n].started
      BY <1>3, <3>1 DEF BodyOK
    <3>5. told = "passed" => end \in Failures
      BY <2>5, <3>1 DEF Leaving
    <3> QED
      BY <1>6, <1>7, <2>3, <2>5, <2>7, <3>1, <3>2, <3>3, <3>4, <3>5 DEF EndingOK
  <2>8. CASE Operation = "repair"
    <3>1. /\ end \in {"ok", "aborted", "contract", "denied"}
          /\ frame[n].violated => end = "contract" \/ aborted
          /\ rethrown /\ frame[n].started => end \in Failures \/ aborted
          /\ thrown = "denied" /\ setting.throwOnDenied =>
                end \in Failures \/ aborted \/ RefusesRepair(n, thrown)
          /\ end = "ok" /\ thrown = "none" => frame[n].next \in {"ok"} \cup Failures \/ aborted
      BY <1>1, <2>8, EndsRepairIs
    <3>2. IsRepair /\ ~Plain /\ ~IsStream
      BY <2>8 DEF IsRepair, Plain, IsStream
    <3>3. setting.throwOnDenied /\ IsDenied(n)' => end \in Failures \/ refused' \/ aborted \/ Swallows(n)'
      BY <1>2, <1>4, <2>2, <2>5, <2>6, <2>8, <3>1
    <3> QED
      BY <1>2, <1>6, <1>7, <2>3, <2>5, <2>8, <3>1, <3>2, <3>3 DEF EndingOK
  <2>9. CASE Operation \in {"streamSet", "streamRepair"}
    <3>1. /\ end \in {"ok", "skipped"} \cup Failures
          /\ end = "skipped" =>
                Operation = "streamRepair" /\ thrown = "denied" /\ ~frame[n].started
          /\ frame[n].violated => end = "contract" \/ aborted
          /\ rethrown /\ frame[n].started => end \in Failures
          /\ thrown = "denied" /\ Operation = "streamRepair" /\ setting.throwOnDenied =>
                end \in Failures
          /\ end = "ok" /\ thrown = "none" => frame[n].next \in {"ok"} \cup Failures
          /\ end = "ok" /\ thrown # "none" => frame[n].started /\ ~rethrown
      BY <1>1, <2>9, EndsTreeIs
    <3>2. (IsRepair <=> Operation = "streamRepair") /\ IsStream
          /\ "none" \notin {"ok", "skipped"} \cup Failures
      BY <2>9 DEF IsRepair, IsStream, Failures
    <3>3. IsRepair /\ setting.throwOnDenied /\ IsDenied(n)' => end \in Failures \/ Swallows(n)'
      BY <2>2, <2>5, <2>6, <2>9, <3>1, <3>2
    <3>4. end = "ok" => Swallows(n)' \/ (frame[n].started /\ (frame[n].next = "ok" \/ Hasty))
      <4>1. frame[n].next \in {"none", "running", "ok"} \cup Failures /\ (frame[n].next = "none" => ~frame[n].started)
            /\ (frame[n].next = "ok" => frame[n].started)
        BY <1>3 DEF BodyOK, Frames
      <4>2. frame[n].next = "running" => Hasty
        BY DEF Leaving
      <4>3. end = "ok" => told # "passed"
        BY <1>4, <2>4, <2>5, <3>1 DEF Leaving
      <4> QED
        BY <2>1, <3>1, <4>1, <4>2, <4>3
    <3> QED
      BY <1>2, <1>6, <1>7, <2>3, <2>5, <2>9, <3>1, <3>2, <3>3, <3>4 DEF EndingOK
  <2> QED
    BY <1>4, <2>7, <2>8, <2>9 DEF Plain
<1>10. NodeOK(n)'
  BY <1>2, <1>3, <1>5, <1>6, <1>7, <1>8, <1>9 DEF NodeOK
<1>11. /\ input' \in [Nodes -> Streams] /\ output' \in [Nodes -> Streams]
       /\ \A m \in Nodes : /\ input'[m] = "free" => input[m] = "free"
                           /\ output'[m] = "free" => output[m] = "free"
       /\ end = "skipped" => input'[n] # "free" /\ output'[n] # "free"
       /\ ~IsStream => UNCHANGED <<input, output>>
  <2>1. input \in [Nodes -> Streams] /\ output \in [Nodes -> Streams]
    BY DEF Inv, TypeOK
  <2>2. CASE end = "skipped"
    <3>1. /\ input' = [input EXCEPT ![n] = IF @ = "free" THEN "cancelled" ELSE @]
          /\ output' = [output EXCEPT ![n] = IF @ = "free" THEN "cancelled" ELSE @]
      BY <1>2, <2>2 DEF Abandons
    <3>2. IsStream
      <4>1. ~Plain /\ Operation # "repair"
        <5>1. CASE Plain
          <6>1. end \in {"ok"} \cup Failures
            BY <1>1, <5>1, EndsPlainlyIs
          <6> QED
            BY <2>2, <6>1 DEF Failures
        <5>2. CASE Operation = "repair"
          BY <1>1, <2>2, <5>2, EndsRepairIs
        <5> QED
          BY <2>2, <5>1, <5>2
      <4> QED
        BY <1>4, <4>1 DEF Plain, IsStream
    <3> QED
      BY <1>3, <2>1, <3>1, <3>2 DEF Streams
  <2>3. CASE end # "skipped"
    BY <1>2, <2>1, <2>3 DEF Abandons
  <2> QED
    BY <2>2, <2>3
<1>12. refused' => refused \/ (setting.throwOnDenied /\ Operation = "repair")
  BY <1>2 DEF RefusesRepair
<1>13. refused' \in BOOLEAN /\ (refused => refused')
  BY <1>2, <1>4
<1>14. Departs(n, told, end)
  BY <1>2, <1>3, <1>4, <1>5, <1>10, <1>11, <1>12, <1>13 DEF Departs, Leaving, Running
<1> QED
  BY <1>14, DepartsKeep

LEMMA ReturnsKeeps ==
    ASSUME Inv, NEW n \in Inner, Returns(n)
    PROVE  Inv'
<1>1. Running(n) /\ Leave(n, "none", FALSE)
  BY DEF Returns
<1>2. frame[n].next = "running" => Hasty
  BY RunningIs DEF Returns, HasAwaited, Hasty, Inner, BodyOK
<1>3. Leaving(n, "none", FALSE)
  BY <1>1, <1>2 DEF Leaving, Failures
<1> QED
  BY <1>1, <1>3, LeaveKeeps

LEMMA ThrowsKeeps ==
    ASSUME Inv, NEW n \in Inner, Throws(n)
    PROVE  Inv'
<1>1. Running(n)
  BY DEF Throws
<1>2. frame[n].next = "running" => Hasty
  BY RunningIs DEF Throws, HasAwaited, Hasty, Inner, BodyOK
<1>3. frame[n].next = "aborted" => aborted
  BY DEF Inv, ServedOK, EntriesOK, Inner
<1>4. ASSUME NEW thrown \in Failures, thrown = "aborted" => aborted, Leave(n, thrown, FALSE)
      PROVE  Inv'
  <2>1. Leaving(n, thrown, FALSE)
    BY <1>1, <1>2, <1>4 DEF Leaving
  <2> QED
    BY <1>4, <2>1, LeaveKeeps
<1>5. ASSUME frame[n].next \in Failures, Leave(n, frame[n].next, TRUE)
      PROVE  Inv'
  <2>1. Leaving(n, frame[n].next, TRUE)
    BY <1>1, <1>2, <1>3, <1>5 DEF Leaving, Failures
  <2> QED
    BY <1>5, <2>1, LeaveKeeps
<1> QED
  BY <1>4, <1>5 DEF Throws, Failures

LEMMA PassOnKeeps ==
    ASSUME Inv, NEW n \in Inner, PassOn(n)
    PROVE  Inv'
<1>1. /\ n \in Nodes /\ frame[n] \in Frames /\ frame[n].body = "passing" /\ NodeOK(n)
      /\ UNCHANGED <<setting, target, refused, streamVars, aborted, outcome>> /\ UNCHANGED setting
      /\ Parent(n) \in Nodes /\ Parent(n) # n /\ frame \in [Nodes -> Frames]
  BY ParentIs DEF PassOn, Inv, TypeOK, LocalOK, Inner
<1>2. PassesThrough(n) /\ PassingOK(n)
  BY <1>1 DEF NodeOK, BodyOK
<1>3. PICK end : end = frame[n].next /\ end \in {"ok", "aborted"} /\ (end = "aborted" => aborted)
  BY <1>1, <1>2 DEF PassingOK, PassOn, Inv, ServedOK, EntriesOK
<1>4. LeavesFrame(n, "none", end)
  BY <1>3 DEF PassOn
<1>5. /\ frame'[n].body = "done" /\ frame'[n].end = end /\ frame'[n].threw = "none"
      /\ frame'[n].next = frame[n].next /\ frame'[n].started = frame[n].started
      /\ frame'[n].calls = frame[n].calls /\ frame'[n].produced = frame[n].produced
      /\ frame'[n].violated = frame[n].violated
  BY <1>1, <1>4 DEF LeavesFrame, Frames
<1>6. PassesThrough(n)'
  BY <1>1, <1>2, Fixed
<1>7. NodeOK(n)'
  BY <1>1, <1>2, <1>3, <1>5, <1>6 DEF NodeOK, PassingOK
<1>8. NoLeak(end)
  BY <1>3 DEF NoLeak
<1>9. input' \in [Nodes -> Streams] /\ output' \in [Nodes -> Streams] /\ refused' \in BOOLEAN
  BY <1>1 DEF Inv, TypeOK, streamVars
<1>10. Departs(n, "none", end)
  BY <1>1, <1>3, <1>4, <1>7, <1>8, <1>9 DEF Departs, streamVars, Failures
<1> QED
  BY <1>10, DepartsKeep

----------------------------------------------------------------------------
(* the operation *)

\* The walks are where they were.
LEMMA SameFrames ==
    ASSUME Inv, Onward, frame' = frame,
           \A i \in Leaves : target[i].state # "none" => target'[i].state # "none",
           TypeOK', TargetsOK', OutcomeOK', StreamsOK'
    PROVE  Inv'
<1>1. /\ UNCHANGED setting /\ IsSetting(setting) /\ IsSetting(setting)'
      /\ Nodes' = Nodes /\ Inner' = Inner
  BY Fixed DEF Onward, Inv
<1>2. RootOK'
  BY <1>1, SameRoot DEF Inv
<1>3. LocalOK'
  BY <1>1, SameNode DEF Inv, LocalOK
<1>4. LinkOK'
  <2> SUFFICES ASSUME NEW c \in Inner PROVE ChildOK(c)'
    BY <1>1 DEF LinkOK
  <2> QED
    BY <1>1, SameChild DEF Inv, LinkOK
<1>5. ServedOK'
  <2> SUFFICES ASSUME NEW m \in Nodes PROVE EntriesOK(m)'
    BY <1>1 DEF ServedOK
  <2>1. StaysServed
    BY DEF StaysServed
  <2>2. EntriesOK(m) /\ frame[m].at \in Nat
    BY DEF Inv, ServedOK, TypeOK, Frames
  <2> QED
    BY <1>1, <2>1, <2>2, SameEntries
<1> QED
  BY <1>1, <1>2, <1>3, <1>4, <1>5 DEF Inv

LEMMA WriteSettlesKeeps ==
    ASSUME Inv, NEW i \in Leaves, WriteSettles(i)
    PROVE  Inv'
<1>1. /\ UNCHANGED <<setting, frame, refused, streamVars, aborted, outcome>> /\ UNCHANGED setting
      /\ Onward /\ target \in [Leaves -> Targets] /\ target[i].state = "writing"
  BY DEF WriteSettles, Onward, Inv, TypeOK
<1>2. PICK state \in {"written", "failed", "denied"} : target' = [target EXCEPT ![i].state = state]
  BY DEF WriteSettles, Inv, IsSetting
<1>3. /\ target' \in [Leaves -> Targets]
      /\ target'[i].state = state /\ target'[i].made = target[i].made
      /\ \A j \in Leaves : j # i => target'[j] = target[j]
  BY <1>1, <1>2 DEF Targets
<1>4. Leaves' = Leaves
  BY <1>1, Fixed
<1>5. TypeOK'
  BY <1>1, <1>3, Fixed DEF Inv, TypeOK, streamVars, Streams
<1>6. TargetsOK'
  BY <1>1, <1>3, Fixed DEF Inv, TargetsOK
<1>7. OutcomeOK'
  <2>1. outcome # "none" => Hasty
    BY <1>1 DEF Inv, OutcomeOK
  <2> QED
    BY <1>1, <2>1, Fixed DEF Inv, OutcomeOK
<1>8. StreamsOK'
  BY <1>1, SameStreams DEF Inv
<1>9. \A j \in Leaves : target[j].state # "none" => target'[j].state # "none"
  BY <1>3
<1> QED
  BY <1>1, <1>5, <1>6, <1>7, <1>8, <1>9, SameFrames

LEMMA AbortKeeps ==
    ASSUME Inv, Abort
    PROVE  Inv'
<1>1. /\ UNCHANGED <<setting, frame, target, refused, streamVars, outcome>> /\ UNCHANGED setting
      /\ Onward /\ aborted' = TRUE /\ outcome = "none"
  BY DEF Abort, Onward
<1>2. TypeOK'
  BY <1>1, Fixed DEF Inv, TypeOK, streamVars, Streams
<1>3. TargetsOK'
  BY <1>1, Fixed DEF Inv, TargetsOK
<1>4. OutcomeOK'
  BY <1>1, Fixed DEF Inv, OutcomeOK
<1>5. StreamsOK'
  BY <1>1, SameStreams DEF Inv
<1> QED
  BY <1>1, <1>2, <1>3, <1>4, <1>5, SameFrames

\* The operation ends as the walk of the root says, or with the signal or a
\* denial.
Concludes(end) ==
    /\ outcome = "none" /\ outcome' = end /\ end \in {"ok"} \cup Failures
    /\ UNCHANGED <<setting, frame, target, refused, aborted>>
    /\ frame[<<>>].next # "running"
    /\ end = "ok" => frame[<<>>].next = "ok" /\ ~refused /\ (Operation # "encode" => ~aborted)
    /\ end = "ok" /\ setting.throwOnDenied => \A i \in Leaves : target[i].state # "denied"
    /\ \A i \in Leaves : target[i].state # "writing"
    /\ NoLeak(end)
    /\ IF end \in Failures /\ IsStream THEN CancelsAll ELSE UNCHANGED streamVars

LEMMA ConcludesKeeps ==
    ASSUME Inv, NEW end, Concludes(end)
    PROVE  Inv'
<1>1. /\ UNCHANGED <<setting, frame, target, refused, aborted>> /\ UNCHANGED setting
      /\ Onward /\ outcome' = end /\ end \in {"ok"} \cup Failures
      /\ Leaves' = Leaves /\ Nodes' = Nodes
  BY Fixed DEF Concludes, Onward
<1>2. /\ input \in [Nodes -> Streams] /\ output \in [Nodes -> Streams]
      /\ branch \in [Leaves -> Streams] /\ read \in Streams /\ StreamsOK
  BY DEF Inv, TypeOK
<1>3. /\ input' \in [Nodes -> Streams] /\ output' \in [Nodes -> Streams]
      /\ branch' \in [Leaves -> Streams] /\ read' \in Streams
      /\ \A m \in Nodes : /\ input'[m] = "free" => input[m] = "free"
                          /\ output'[m] = "free" => output[m] = "free"
      /\ \A i \in Leaves : branch'[i] = "free" => branch[i] = "free"
      /\ read' = "free" => read = "free"
      /\ ~IsStream => UNCHANGED <<input, output, branch>>
      /\ Operation # "streamRepair" => UNCHANGED read
      /\ end \in Failures => NothingIsFree'
  <2>1. CASE end \in Failures /\ IsStream
    <3>1. CancelsAll
      BY <2>1 DEF Concludes
    <3>2. \A s \in Streams : /\ Cancelled(s) \in Streams /\ Cancelled(s) # "free"
                             /\ s # "free" => Cancelled(s) = s
      BY DEF Cancelled, Streams
    <3>3. /\ \A m \in Nodes : input'[m] = Cancelled(input[m]) /\ output'[m] = Cancelled(output[m])
          /\ \A i \in Leaves : branch'[i] = Cancelled(branch[i])
          /\ read' = Cancelled(read)
          /\ input' \in [Nodes -> Streams] /\ output' \in [Nodes -> Streams]
          /\ branch' \in [Leaves -> Streams]
      BY <1>2, <3>1, <3>2 DEF CancelsAll
    <3>4. Operation # "streamRepair" => read' = read
      BY <1>2, <3>2, <3>3 DEF StreamsOK
    <3> QED
      BY <1>1, <1>2, <2>1, <3>2, <3>3, <3>4 DEF NothingIsFree
  <2>2. CASE ~(end \in Failures /\ IsStream)
    <3>1. UNCHANGED <<input, output, branch, read>>
      BY <2>2 DEF Concludes, streamVars
    <3>2. end \in Failures => NothingIsFree
      <4>1. ~IsStream => Operation # "streamRepair"
        BY DEF IsStream
      <4> QED
        BY <1>2, <2>2, <4>1 DEF StreamsOK, NothingIsFree
    <3> QED
      BY <1>1, <1>2, <3>1, <3>2 DEF NothingIsFree
  <2> QED
    BY <2>1, <2>2
<1>4. TypeOK'
  BY <1>1, <1>3, Fixed DEF Inv, TypeOK, Streams
<1>5. TargetsOK'
  BY <1>1, Fixed DEF Inv, TargetsOK
<1>6. OutcomeOK'
  BY <1>1, Fixed DEF Inv, OutcomeOK, Concludes, NoLeak
<1>7. StreamsOK'
  BY <1>1, <1>2, <1>3, FewerStreams DEF Inv
<1> QED
  BY <1>1, <1>4, <1>5, <1>6, <1>7, SameFrames

\* How the walk of the root has ended.
LEMMA RootEnds ==
    ASSUME Inv, WalkIsOver
    PROVE  /\ frame[<<>>].next \in {"ok"} \cup Failures /\ NoLeak(frame[<<>>].next)
           /\ outcome = "none"
           /\ frame[<<>>].next = "aborted" => aborted
<1>1. <<>> \in Nodes
  BY NodesAre DEF Inv
<1> QED
  BY <1>1 DEF WalkIsOver, Inv, TypeOK, Frames, RootOK, ServedOK, EntriesOK

LEMMA EncodeEndsKeeps ==
    ASSUME Inv, EncodeEnds
    PROVE  Inv'
<1>1. /\ Operation = "encode" /\ WalkIsOver /\ outcome' = frame[<<>>].next
      /\ UNCHANGED <<setting, frame, target, refused, streamVars, aborted>>
  BY DEF EncodeEnds
<1>2. /\ ~refused /\ ~IsStream
      /\ \A i \in Leaves : target[i].state # "writing" /\ target[i].state # "denied"
  BY <1>1 DEF Inv, OutcomeOK, TargetsOK, IsStream
<1>3. Concludes(frame[<<>>].next)
  BY <1>1, <1>2, RootEnds DEF Concludes, WalkIsOver, Failures
<1> QED
  BY <1>3, ConcludesKeeps

LEMMA RepairEndsKeeps ==
    ASSUME Inv, RepairEnds
    PROVE  Inv'
<1>1. /\ Operation = "repair" /\ WalkIsOver /\ WritesAreSettled
      /\ UNCHANGED <<setting, frame, target, refused, streamVars, aborted>>
  BY DEF RepairEnds
<1>2. ~IsStream /\ (refused => setting.throwOnDenied)
  BY <1>1 DEF Inv, OutcomeOK, IsStream
<1> DEFINE denied == refused \/ (setting.throwOnDenied /\ \E i \in Leaves : target[i].state = "denied")
<1>3. CASE frame[<<>>].next # "ok"
  <2>1. outcome' = frame[<<>>].next
    BY <1>3 DEF RepairEnds
  <2>2. Concludes(frame[<<>>].next)
    BY <1>1, <1>2, <1>3, <2>1, RootEnds DEF Concludes, WalkIsOver, WritesAreSettled, Failures
  <2> QED
    BY <2>2, ConcludesKeeps
<1>4. CASE frame[<<>>].next = "ok" /\ denied
  <2>1. outcome' = "denied"
    BY <1>4 DEF RepairEnds
  <2>2. NoLeak("denied")
    BY <1>2, <1>4 DEF NoLeak
  <2>3. Concludes("denied")
    BY <1>1, <1>2, <2>1, <2>2 DEF Concludes, WalkIsOver, WritesAreSettled, Failures
  <2> QED
    BY <2>3, ConcludesKeeps
<1>5. CASE frame[<<>>].next = "ok" /\ ~denied /\ aborted
  <2>1. outcome' = "aborted"
    BY <1>5 DEF RepairEnds
  <2>2. Concludes("aborted")
    BY <1>1, <1>2, <2>1 DEF Concludes, WalkIsOver, WritesAreSettled, Failures, NoLeak
  <2> QED
    BY <2>2, ConcludesKeeps
<1>6. CASE frame[<<>>].next = "ok" /\ ~denied /\ ~aborted
  <2>1. outcome' = "ok"
    BY <1>6 DEF RepairEnds
  <2>2. Concludes("ok")
    BY <1>1, <1>2, <1>6, <2>1 DEF Concludes, WalkIsOver, WritesAreSettled, Failures, NoLeak
  <2> QED
    BY <2>2, ConcludesKeeps
<1> QED
  BY <1>3, <1>4, <1>5, <1>6

\* Nothing is written and nothing is refused behind a stream.
LEMMA StreamWrites ==
    ASSUME Inv, IsStream
    PROVE  /\ ~refused /\ Operation # "encode"
           /\ \A i \in Leaves : target[i].state # "writing" /\ target[i].state # "denied"
  BY DEF Inv, OutcomeOK, TargetsOK, IsStream

LEMMA StreamEndsKeeps ==
    ASSUME Inv, StreamEnds
    PROVE  Inv'
<1>1. /\ IsStream /\ WalkIsOver
      /\ UNCHANGED <<setting, frame, target, refused, aborted>>
  BY DEF StreamEnds
<1>2. CASE frame[<<>>].next = "ok" /\ aborted
  <2>1. outcome' = "aborted" /\ CancelsAll
    BY <1>2 DEF StreamEnds
  <2>2. Concludes("aborted")
    BY <1>1, <2>1, StreamWrites DEF Concludes, WalkIsOver, NoLeak, Failures
  <2> QED
    BY <2>2, ConcludesKeeps
<1>3. CASE frame[<<>>].next = "ok" /\ ~aborted
  <2>1. outcome' = "ok" /\ UNCHANGED streamVars
    BY <1>3 DEF StreamEnds
  <2>2. Concludes("ok")
    BY <1>1, <1>3, <2>1, StreamWrites DEF Concludes, WalkIsOver, NoLeak, Failures
  <2> QED
    BY <2>2, ConcludesKeeps
<1>4. CASE frame[<<>>].next # "ok"
  <2>1. outcome' = frame[<<>>].next /\ CancelsAll
    BY <1>4 DEF StreamEnds
  <2>2. Concludes(frame[<<>>].next)
    BY <1>1, <1>4, <2>1, StreamWrites, RootEnds DEF Concludes, WalkIsOver
  <2> QED
    BY <2>2, ConcludesKeeps
<1> QED
  BY <1>2, <1>3, <1>4

LEMMA StreamRefusesKeeps ==
    ASSUME Inv, StreamRefuses
    PROVE  Inv'
<1>1. /\ outcome = "none" /\ frame[<<>>].next = "refused" /\ CancelsAll
      /\ UNCHANGED <<setting, frame, target, refused, aborted>>
  BY DEF StreamRefuses
<1>2. Operation = "streamRepair" /\ setting.throwOnDenied /\ IsStream
  BY <1>1 DEF Inv, RootOK, RefusesAtOnce, IsStream
<1>3. PICK end : end = outcome' /\ end \in {"aborted", "denied"}
  BY DEF StreamRefuses
<1>4. NoLeak(end)
  BY <1>2, <1>3 DEF NoLeak
<1>5. Concludes(end)
  BY <1>1, <1>2, <1>3, <1>4, StreamWrites DEF Concludes, Failures
<1> QED
  BY <1>5, ConcludesKeeps

----------------------------------------------------------------------------
(* every step *)

LEMMA StillInv ==
    ASSUME Inv, UNCHANGED vars
    PROVE  Inv'
<1>1. Onward /\ frame' = frame /\ UNCHANGED <<setting, target, refused, streamVars, aborted, outcome>>
      /\ UNCHANGED setting
  BY DEF vars, Onward, streamVars
<1>2. TypeOK'
  BY <1>1, Fixed DEF Inv, TypeOK, streamVars, Streams
<1>3. TargetsOK'
  BY <1>1, Fixed DEF Inv, TargetsOK
<1>4. OutcomeOK'
  BY <1>1, Fixed DEF Inv, OutcomeOK
<1>5. StreamsOK'
  BY <1>1, SameStreams DEF Inv
<1> QED
  BY <1>1, <1>2, <1>3, <1>4, <1>5, SameFrames

LEMMA NextInv ==
    ASSUME Inv, [Next]_vars
    PROVE  Inv'
<1>1. CASE \E n \in Nodes : \/ GiveLeaf(n) \/ SkipLeaf(n) \/ SkipChild(n) \/ WalkChild(n)
                            \/ StopServing(n) \/ NextSettles(n)
  BY <1>1, GiveLeafKeeps, SkipLeafKeeps, SkipChildKeeps, WalkChildKeeps, StopServingKeeps,
     NextSettlesKeeps
<1>2. CASE \E n \in Nodes \ {<<>>} :
          \/ SetDestination(n) \/ NextWithoutDestination(n) \/ NextFails(n) \/ NextRuns(n)
          \/ CallNextAgain(n) \/ Returns(n) \/ Throws(n) \/ PassOn(n)
  BY <1>2, SetDestinationKeeps, NextWithoutDestinationKeeps, NextFailsKeeps, NextRunsKeeps,
     CallNextAgainKeeps, ReturnsKeeps, ThrowsKeeps, PassOnKeeps DEF Inner
<1>3. CASE \E i \in Leaves : WriteSettles(i)
  BY <1>3, WriteSettlesKeeps
<1>4. CASE Abort \/ EncodeEnds \/ RepairEnds \/ StreamEnds \/ StreamRefuses \/ Quiet
  BY <1>4, AbortKeeps, EncodeEndsKeeps, RepairEndsKeeps, StreamEndsKeeps, StreamRefusesKeeps,
     StillInv DEF Quiet
<1>5. CASE UNCHANGED vars
  BY <1>5, StillInv
<1> QED
  BY <1>1, <1>2, <1>3, <1>4, <1>5 DEF Next

\* Every state of a walk has the inductive invariant, which relates the frames of
\* the nodes, what their leaves were handed, and who owns each stream.
THEOREM Invariance ==
    ASSUME \A s \in Settings : IsSetting(s)
    PROVE  Spec => []Inv
<1>1. Init => Inv
  BY InitInv
<1>2. Inv /\ [Next]_vars => Inv'
  BY NextInv
<1> QED
  BY <1>1, <1>2, PTL DEF Spec

\* The state of a walk has its type, for every graph and every middleware.
THEOREM TypeCorrect ==
    ASSUME \A s \in Settings : IsSetting(s)
    PROVE  Spec => []TypeOK
<1>1. Inv => TypeOK
  BY DEF Inv
<1> QED
  BY <1>1, Invariance, PTL

\* A leaf is handed what all the middleware on its path have made, and only a
\* leaf that is to be repaired, and may be (PipelineGraph.encode, repair,
\* buildEncodeTree).
THEOREM LeavesGetWhatTheirPathMade ==
    ASSUME \A s \in Settings : IsSetting(s)
    PROVE  Spec => []TargetsAreWhole
<1>1. Inv => TargetsAreWhole
  BY DEF Inv, TargetsOK, TargetsAreWhole
<1> QED
  BY <1>1, Invariance, PTL

\* When the operation has ended no middleware runs and no leaf is being
\* written: what the lock of the key protects is over when it is released.
THEOREM NothingRunsBehindTheLock ==
    ASSUME \A s \in Settings : IsSetting(s)
    PROVE  Spec => []NothingRunsAfterwards
<1>1. ASSUME Inv, outcome # "none", ~Hasty
      PROVE  /\ \A n \in Nodes : frame[n].body \notin {"running", "passing"}
             /\ \A i \in Leaves : target[i].state # "writing"
  <2>1. frame[<<>>].next # "running" /\ \A i \in Leaves : target[i].state # "writing"
    BY <1>1 DEF Inv, OutcomeOK
  <2>2. \A n \in Inner : frame[n].body \notin {"running", "passing"}
    BY <1>1, <2>1, NothingRuns
  <2>3. frame[<<>>].body = "done"
    BY <1>1 DEF Inv, RootOK
  <2> QED
    BY <2>1, <2>2, <2>3 DEF Inner
<1>2. Inv => NothingRunsAfterwards
  BY <1>1 DEF NothingRunsAfterwards
<1> QED
  BY <1>2, Invariance, PTL

----------------------------------------------------------------------------
(* what an operation that succeeds has done *)

\* A child that is served, below a next() that has succeeded.
LEMMA ChildOfServed ==
    ASSUME Inv, NEW c \in Inner, ActiveLeaves(c) # {}, frame[Parent(c)].next = "ok"
    PROVE  frame[c].body = "done" /\ frame[c].end \in {"ok", "skipped"}
<1>1. PICK j \in Served(Parent(c)) : ~IsLeafOf(Parent(c), j) /\ Child(Parent(c), j) = c
  BY EntryOfChild DEF Inv
<1>2. EntriesOK(Parent(c))
  BY ParentIs DEF Inv, ServedOK
<1>3. ChildServed(c)
  BY <1>1, <1>2 DEF EntriesOK, IsServed
<1> QED
  BY <1>3 DEF ChildServed

\* An active leaf of an operation that has succeeded was served, unless a
\* middleware on its path threw or swallowed a failure.
LEMMA Descends ==
    ASSUME Inv, outcome = "ok", NEW i \in Leaves, IsActive(i),
           \A n \in Nodes : IsPrefix(n, Path(i)) => frame[n].threw = "none" /\ ~Swallows(n)
    PROVE  LeafServed(i)
<1>1. /\ IsSetting(setting) /\ Path(i) \in Seq(Names) /\ Len(Path(i)) \in Nat
      /\ frame[<<>>].next = "ok" /\ (Operation # "encode" => ~aborted)
  BY LeavesAre DEF Inv, OutcomeOK
<1> DEFINE N(d) == SubSeq(Path(i), 1, d)
           Short == {d \in 0 .. Len(Path(i)) : frame[N(d)].next # "ok"}
<1>2. ASSUME NEW d \in Short, \A e \in Short : d <= e
      PROVE  FALSE
  <2>1. d \in 0 .. Len(Path(i)) /\ frame[N(d)].next # "ok"
    OBVIOUS
  <2>2. d # 0
    BY <1>1, <2>1, Prefixes
  <2>3. d \in Nat /\ d - 1 \in 0 .. Len(Path(i)) /\ d - 1 \notin Short
    BY <1>1, <1>2, <2>1, <2>2
  <2>4. frame[N(d - 1)].next = "ok"
    BY <2>3
  <2>5. PICK c \in Inner : c = N(d) /\ i \in AllLeaves(c)
    <3>1. N(d) \in Nodes /\ N(d) # <<>>
      BY <1>1, <2>1, <2>2, NodesAre, Prefixes
    <3>2. i \in AllLeaves(N(d))
      BY <1>1, <2>1, <3>1, BelowIs
    <3> QED
      BY <3>1, <3>2 DEF Inner
  <2>6. Parent(c) = N(d - 1)
    <3>1. Len(c) = d
      BY <1>1, <2>1, <2>5, Prefixes
    <3>2. SubSeq(SubSeq(Path(i), 1, d), 1, d - 1) = SubSeq(Path(i), 1, d - 1)
      <4>1. d - 1 \in 0 .. d
        BY <2>2, <2>3
      <4> QED
        BY <1>1, <2>1, <4>1, PrefixOfPrefix
    <3> QED
      BY <2>5, <3>1, <3>2 DEF Parent
  <2>7. frame[c].body = "done" /\ frame[c].end \in {"ok", "skipped"}
    <3>1. i \in ActiveLeaves(c)
      BY <2>5 DEF ActiveLeaves
    <3> HIDE DEF N
    <3> QED
      BY <2>4, <2>6, <3>1, ChildOfServed
  <2>8. frame[c].threw = "none" /\ ~Swallows(c) /\ NodeOK(c) /\ c # <<>>
    <3>1. IsPrefix(c, Path(i)) /\ c \in Nodes /\ c # <<>>
      BY <2>5 DEF AllLeaves, Inner
    <3> QED
      BY <3>1 DEF Inv, LocalOK
  <2>9. frame[c].next = "ok"
    <3>1. CASE PassesThrough(c)
      BY <2>7, <2>8, <3>1 DEF NodeOK, PassingOK
    <3>2. CASE ~PassesThrough(c)
      <4>1. EndingOK(c)
        BY <2>7, <2>8, <3>2 DEF NodeOK
      <4>2. frame[c].end = "ok"
        BY <2>7, <2>8, <4>1 DEF EndingOK
      <4>3. ~(aborted /\ Operation = "repair")
        BY <1>1
      <4>4. frame[c].next \in {"ok"} \cup Failures
        BY <2>8, <4>1, <4>2, <4>3 DEF EndingOK
      <4> QED
        BY <2>8, <4>4 DEF Swallows
    <3> QED
      BY <3>1, <3>2
  <2> QED
    BY <2>1, <2>5, <2>9
<1>3. Short = {}
  <2>1. Short \subseteq Nat
    BY <1>1
  <2> HIDE DEF Short
  <2> QED
    BY <1>2, <2>1, LeastOf
<1>4. frame[Path(i)].next = "ok"
  <2>1. N(Len(Path(i))) = Path(i)
    BY <1>1, Prefixes
  <2>2. Len(Path(i)) \in 0 .. Len(Path(i))
    BY <1>1
  <2> QED
    BY <1>3, <2>1, <2>2
<1>5. Path(i) \in Nodes /\ IsLeafOf(Path(i), i) /\ i \in Served(Path(i))
  BY <1>1, EntryOfLeaf
<1> QED
  BY <1>4, <1>5 DEF Inv, ServedOK, EntriesOK, IsServed

\* The parents of a node are its beginnings.
LEMMA PrefixOfParent ==
    ASSUME IsSetting(setting), NEW n \in Nodes, NEW m \in Inner, IsPrefix(m, n)
    PROVE  IsPrefix(Parent(m), n)
<1>1. n \in Seq(Names) /\ m \in Seq(Names) /\ Len(m) \in Nat /\ Len(Parent(m)) = Len(m) - 1
      /\ Len(n) \in Nat /\ Parent(m) = SubSeq(m, 1, Len(m) - 1) /\ m # <<>>
  <2>1. n \in Seq(Names) /\ m \in Seq(Names) /\ m # <<>>
    BY NodesAre DEF Inner
  <2>2. Len(n) \in Nat /\ Len(m) \in Nat
    BY <2>1
  <2> QED
    BY <2>1, <2>2, ParentIs DEF Parent
<1>2. Len(m) <= Len(n) /\ SubSeq(n, 1, Len(m)) = m
  BY DEF IsPrefix
<1>3. Len(m) \in 1 .. Len(n) /\ Len(m) - 1 \in 0 .. Len(m)
  BY <1>1, <1>2
<1>4. SubSeq(SubSeq(n, 1, Len(m)), 1, Len(m) - 1) = SubSeq(n, 1, Len(m) - 1)
  BY <1>1, <1>3, PrefixOfPrefix
<1> QED
  BY <1>1, <1>2, <1>3, <1>4 DEF IsPrefix

LEMMA PrefixOfItself ==
    ASSUME IsSetting(setting), NEW n \in Nodes
    PROVE  IsPrefix(n, n)
<1>1. n \in Seq(Names)
  BY NodesAre
<1> QED
  BY <1>1 DEF IsPrefix

\* A node whose walk has failed has failed the operation, unless a middleware
\* before it swallowed that.
LEMMA Climbs ==
    ASSUME Inv, outcome = "ok", ~aborted, NEW n \in Inner,
           frame[n].body = "done", frame[n].end \in Failures
    PROVE  \E m \in Nodes : IsPrefix(m, n) /\ Swallows(m)
<1> SUFFICES ASSUME \A m \in Nodes : IsPrefix(m, n) => ~Swallows(m) PROVE FALSE
  OBVIOUS
<1>1. IsSetting(setting) /\ frame[<<>>].next = "ok" /\ n \in Nodes
  BY DEF Inv, OutcomeOK, Inner
<1> DEFINE Failed == {m \in Inner : IsPrefix(m, n) /\ frame[m].body = "done" /\ frame[m].end \in Failures}
           Lengths == {Len(m) : m \in Failed}
<1>2. n \in Failed
  BY <1>1, PrefixOfItself
<1>3. Lengths \subseteq Nat /\ Lengths # {}
  BY <1>1, <1>2, ParentIs
<1>4. PICK k \in Lengths : \A l \in Lengths : k <= l
  <2> HIDE DEF Lengths
  <2> QED
    BY <1>3, LeastOf
<1>5. PICK m \in Failed : Len(m) = k
  OBVIOUS
<1>6. PICK p \in Nodes : /\ p = Parent(m) /\ Len(m) \in Nat /\ Len(p) = Len(m) - 1
                         /\ IsPrefix(p, n)
  BY <1>1, ParentIs, PrefixOfParent
<1>7. frame[p].next \in Failures /\ (p = <<>> \/ PassesThrough(p) \/ frame[p].started)
      /\ ~Swallows(p)
  <2>1. ChildOK(m)
    BY DEF Inv, LinkOK
  <2> QED
    BY <1>6, <2>1 DEF ChildOK
<1>8. p # <<>>
  BY <1>1, <1>7 DEF Failures
<1>9. frame[p].threw = "passed" /\ p \in Inner
  BY <1>7, <1>8 DEF Swallows, Inner
<1>10. NodeOK(p)
  BY <1>9 DEF Inv, LocalOK
<1>11. ~PassesThrough(p)
  BY <1>9, <1>10 DEF NodeOK, PassingOK
<1>12. frame[p].body = "done" /\ EndingOK(p) /\ frame[p].started
  BY <1>7, <1>8, <1>9, <1>10, <1>11 DEF NodeOK
<1>13. frame[p].end \in Failures
  BY <1>9, <1>12 DEF EndingOK
<1>14. p \in Failed
  BY <1>6, <1>9, <1>12, <1>13
<1>15. Len(p) \in Lengths
  BY <1>14
<1> QED
  <2> HIDE DEF Lengths, Failed
  <2> QED
    BY <1>4, <1>5, <1>6, <1>15

\* When the operation has succeeded, the walk of a node has ended, or has never
\* begun.
LEMMA AllEnded ==
    ASSUME Inv, outcome = "ok", ~Hasty, NEW n \in Inner
    PROVE  /\ frame[n].body = "idle" \/ frame[n].body = "done"
           /\ frame[n].body = "idle" => frame[n] = Idle
           /\ NodeOK(n) /\ n \in Nodes
<1>1. frame[<<>>].next # "running"
  BY DEF Inv, OutcomeOK
<1>2. frame[n] \in Frames /\ n \in Nodes /\ NodeOK(n)
  BY DEF Inv, TypeOK, LocalOK, Inner
<1>3. frame[n].body \notin {"running", "passing"}
  BY <1>1, NothingRuns
<1> QED
  BY <1>2, <1>3 DEF NodeOK, Frames

\* A walk that succeeds has handed every leaf its data, unless a middleware
\* threw or swallowed a failure: neither a shared node nor a skipped entry
\* leaves out a destination.
THEOREM NoLeafIsLeftOut ==
    ASSUME \A s \in Settings : IsSetting(s)
    PROVE  Spec => []NobodyIsSkipped
<1>1. ASSUME Inv, outcome = "ok", NEW i \in Leaves, IsActive(i), IsRepair => CanRepair(i)
      PROVE  \/ target[i].state # "none"
             \/ \E n \in Nodes : IsPrefix(n, Path(i)) /\ (frame[n].threw # "none" \/ Swallows(n))
  <2> SUFFICES ASSUME \A n \in Nodes : IsPrefix(n, Path(i)) => frame[n].threw = "none" /\ ~Swallows(n)
               PROVE  target[i].state # "none"
    OBVIOUS
  <2>1. LeafServed(i)
    BY <1>1, Descends
  <2> QED
    BY <1>1, <2>1 DEF LeafServed, IsRepair
<1>2. Inv => NobodyIsSkipped
  BY <1>1 DEF NobodyIsSkipped
<1> QED
  BY <1>2, Invariance, PTL

\* A middleware that breaks a rule of next() fails the operation, whatever the
\* middleware around it swallow (MiddlewareContractTracker).
THEOREM BrokenRulesSurface ==
    ASSUME \A s \in Settings : IsSetting(s)
    PROVE  Spec => []ViolationSurfaces
<1>1. ASSUME Inv, outcome = "ok", ~Hasty, ~Plain, NEW n \in Nodes, frame[n].violated
      PROVE  FALSE
  <2>0. IsSetting(setting) /\ frame[<<>>].next = "ok" /\ ~aborted
    BY <1>1 DEF Inv, OutcomeOK, Plain
  <2> DEFINE Broke == {m \in Nodes : frame[m].violated}
             Lengths == {Len(m) : m \in Broke}
  <2>1. ASSUME NEW m \in Broke
        PROVE  m \in Inner /\ Len(m) \in Nat /\ \E l \in Lengths : l < Len(m)
    <3>1. m \in Inner
      BY <1>1, <2>0 DEF Inv, RootOK, Inner
    <3>2. NodeOK(m) /\ frame[m].body = "done"
      BY <1>1, <3>1, AllEnded DEF Idle
    <3>3. EndingOK(m)
      BY <3>2 DEF NodeOK, PassingOK
    <3>4. frame[m].end = "contract"
      BY <1>1, <2>0, <3>3 DEF EndingOK
    <3>5. frame[Parent(m)].violated
      BY <1>1, <3>1, <3>2, <3>4 DEF Inv, LinkOK, ChildOK
    <3>6. Parent(m) \in Broke /\ Len(Parent(m)) = Len(m) - 1 /\ Len(m) \in Nat
      BY <2>0, <3>1, <3>5, ParentIs
    <3>7. Len(Parent(m)) \in Lengths /\ Len(Parent(m)) < Len(m)
      BY <3>6
    <3> QED
      BY <3>1, <3>6, <3>7
  <2>2. Lengths \subseteq Nat /\ Lengths # {}
    BY <1>1, <2>1
  <2>3. PICK k \in Lengths : \A l \in Lengths : k <= l
    <3> HIDE DEF Lengths
    <3> QED
      BY <2>2, LeastOf
  <2>4. PICK m \in Broke : Len(m) = k
    OBVIOUS
  <2>5. \E l \in Lengths : l < k
    BY <2>1, <2>4
  <2> QED
    <3> HIDE DEF Lengths
    <3> QED
      BY <2>2, <2>3, <2>5
<1>2. Inv => ViolationSurfaces
  BY <1>1 DEF ViolationSurfaces, Plain
<1> QED
  BY <1>2, Invariance, PTL

\* What goes wrong in a repair does not fail the read, except for a denial
\* that the caller wants to know of; and such a denial, of a leaf, of a body or
\* of a mapping, is lost only in a middleware that swallows it.
THEOREM DenialsAreTold ==
    ASSUME \A s \in Settings : IsSetting(s)
    PROVE  Spec => []DenialsSurface
<1>1. Inv => /\ Operation = "repair" => outcome # "error"
             /\ IsRepair /\ ~setting.throwOnDenied => outcome # "denied"
  BY DEF Inv, OutcomeOK, NoLeak
<1>2. ASSUME Inv, IsRepair, setting.throwOnDenied, outcome = "ok", ~Hasty
      PROVE  /\ \A i \in Leaves : target[i].state # "denied"
             /\ \A i \in setting.missing : CanRepair(i) \/
                   \E n \in Nodes : IsPrefix(n, Path(i)) /\ (frame[n].threw # "none" \/ Swallows(n))
             /\ \A n \in Nodes : IsDenied(n) => \E m \in Nodes : IsPrefix(m, n) /\ Swallows(m)
  <2>1. /\ \A i \in Leaves : target[i].state # "denied"
        /\ ~refused /\ ~aborted /\ frame[<<>>].next = "ok" /\ IsSetting(setting)
    BY <1>2 DEF Inv, OutcomeOK, IsRepair
  <2>2. ASSUME NEW i \in setting.missing, ~CanRepair(i),
               \A n \in Nodes : IsPrefix(n, Path(i)) => frame[n].threw = "none" /\ ~Swallows(n)
        PROVE  FALSE
    <3>1. i \in Leaves
      BY <2>1 DEF IsSetting, Leaves
    <3>2. CASE Operation = "streamRepair"
      BY <1>2, <2>1, <2>2, <3>2 DEF Inv, RootOK, RefusesAtOnce
    <3>3. CASE Operation = "repair"
      <4>1. IsActive(i)
        BY <3>3 DEF IsActive
      <4>2. LeafServed(i)
        BY <1>2, <2>2, <3>1, <4>1, Descends
      <4> QED
        BY <1>2, <2>1, <2>2, <3>3, <4>1, <4>2 DEF LeafServed
    <3> QED
      BY <1>2, <3>2, <3>3 DEF IsRepair
  <2>3. ASSUME NEW n \in Nodes, IsDenied(n)
        PROVE  \E m \in Nodes : IsPrefix(m, n) /\ Swallows(m)
    <3>1. n \in Inner
      BY <1>2, <2>1, <2>3 DEF Inv, RootOK, IsDenied, Inner
    <3>2. NodeOK(n) /\ frame[n].body = "done"
      BY <1>2, <2>3, <3>1, AllEnded DEF Idle, IsDenied
    <3>3. EndingOK(n)
      BY <2>3, <3>2 DEF NodeOK, PassingOK, IsDenied
    <3>4. frame[n].end \in Failures \/ Swallows(n)
      BY <1>2, <2>1, <2>3, <3>3 DEF EndingOK
    <3>5. CASE Swallows(n)
      BY <2>1, <3>5, PrefixOfItself
    <3>6. CASE frame[n].end \in Failures
      BY <1>2, <2>1, <3>1, <3>2, <3>6, Climbs
    <3> QED
      BY <3>4, <3>5, <3>6
  <2> QED
    BY <2>1, <2>2, <2>3
<1>3. Inv => DenialsSurface
  BY <1>1, <1>2 DEF DenialsSurface
<1> QED
  BY <1>3, Invariance, PTL

\* No half of a split stream and no output of a middleware is left to nobody.
THEOREM StreamsAreUsedOrCancelled ==
    ASSUME \A s \in Settings : IsSetting(s)
    PROVE  Spec => []NoStreamIsForgotten
<1>1. ASSUME Inv, outcome \in Failures, ~Hasty
      PROVE  "free" \notin {input[n] : n \in Nodes} \cup {output[n] : n \in Nodes}
                           \cup {branch[i] : i \in Leaves} \cup {read}
  BY <1>1 DEF Inv, StreamsOK, NothingIsFree
<1>2. ASSUME Inv, outcome = "ok", ~Hasty, ~(\E n \in Nodes : Swallows(n))
      PROVE  /\ "free" \notin {input[n] : n \in Nodes} \cup {output[n] : n \in Nodes}
             /\ \A i \in Leaves : branch[i] = "free" => target[i].state = "given"
  <2>0. IsSetting(setting) /\ frame[<<>>].next = "ok" /\ StreamsOK
    BY <1>2 DEF Inv, OutcomeOK
  <2>1. CASE ~IsStream
    BY <2>0, <2>1 DEF StreamsOK
  <2>2. CASE IsStream
    <3>0. ~aborted /\ Operation # "repair" /\ \A n : ~PassesThrough(n)
      BY <1>2, <2>2 DEF Inv, OutcomeOK, IsStream, PassesThrough
    <3>1. ASSUME NEW n \in Inner, frame[n].body = "done"
          PROVE  /\ frame[n].end \in {"ok", "skipped"}
                 /\ frame[n].end = "ok" => frame[n].started /\ frame[n].next = "ok" /\ frame[n].produced
                 /\ frame[n].end = "skipped" => ~frame[n].started
      <4>1. NodeOK(n) /\ frame[n] \in Frames /\ n \in Nodes
        BY <1>2 DEF Inv, LocalOK, TypeOK, Inner
      <4>2. BodyOK(n) /\ EndingOK(n)
        BY <3>0, <3>1, <4>1 DEF NodeOK
      <4>3. frame[n].end \notin Failures
        BY <1>2, <3>0, <3>1, Climbs
      <4>4. frame[n].end \in {"ok", "skipped"}
        BY <4>1, <4>2, <4>3 DEF EndingOK, Frames
      <4> QED
        BY <1>2, <2>2, <4>1, <4>2, <4>4 DEF EndingOK, BodyOK
    <3>2. ASSUME NEW n \in Inner, frame[n].started
          PROVE  frame[n].next = "ok"
      <4>1. frame[n].body = "done"
        BY <1>2, <3>2, AllEnded DEF Idle
      <4> QED
        BY <3>1, <3>2, <4>1
    <3>3. ASSUME NEW n \in Inner PROVE input[n] # "free" /\ output[n] # "free"
      <4>1. StreamOK(n)
        BY <2>0 DEF StreamsOK
      <4>2. ASSUME input[n] = "free" PROVE FALSE
        <5>1. frame[Parent(n)].next = "ok"
          BY <2>0, <3>2, <4>1, <4>2, ParentIs DEF StreamOK, Inner
        <5>2. frame[n].body = "done" /\ frame[n].end # "skipped" /\ ~frame[n].produced
          BY <1>2, <4>1, <4>2, <5>1, ChildOfServed DEF StreamOK
        <5> QED
          BY <3>1, <5>2
      <4>3. ASSUME output[n] = "free" PROVE FALSE
        <5>1. frame[n].body = "done" /\ frame[n].end # "skipped" /\ ~frame[n].started
          BY <1>2, <4>1, <4>3, AllEnded DEF StreamOK, Idle
        <5> QED
          BY <3>1, <5>1
      <4> QED
        BY <4>2, <4>3
    <3>4. ASSUME NEW i \in Leaves, branch[i] = "free"
          PROVE  target[i].state = "given"
      <4>1. PICK m \in Nodes : m = Path(i) /\ i \in Served(m) /\ IsLeafOf(m, i)
                               /\ (m = <<>> \/ frame[m].started)
        BY <2>0, <3>4, EntryOfLeaf DEF StreamsOK
      <4>2. frame[m].next = "ok"
        BY <2>0, <3>2, <4>1 DEF Inner
      <4>3. LeafServed(i)
        BY <1>2, <4>1, <4>2 DEF Inv, ServedOK, EntriesOK, IsServed
      <4>4. IsActive(i)
        BY <2>2, <4>1 DEF Served, BranchEntries
      <4>5. target[i].state # "none" /\ target[i] \in Targets
        BY <1>2, <3>0, <4>3, <4>4 DEF LeafServed, Inv, TypeOK
      <4> QED
        BY <1>2, <3>0, <4>5 DEF Inv, TargetsOK, Targets
    <3> QED
      BY <2>0, <3>3, <3>4 DEF StreamsOK, Inner
  <2> QED
    BY <2>1, <2>2
<1>3. Inv => NoStreamIsForgotten
  BY <1>1, <1>2 DEF NoStreamIsForgotten
<1> QED
  BY <1>3, Invariance, PTL
=============================================================================
