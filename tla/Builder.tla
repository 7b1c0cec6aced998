------------------------------- MODULE Builder -------------------------------
(***************************************************************************)
(* The builder of clients, its branches, and the compilation of the        *)
(* registered pipelines into the graph of a client.                        *)
(*                                                                         *)
(* A builder and a branch collect middleware in an array that grows, and   *)
(* register storages with a copy of it.  Arrays are objects here, as in    *)
(* the code, so that an array which is shared instead of copied shows.     *)
(*                                                                         *)
(* Left out: branch.fork(branch), which appends to the array that it walks *)
(* and does not end, and the variables, which are values that are copied.  *)
(***************************************************************************)
EXTENDS Naturals, Sequences, FiniteSets, SequencesExt

CONSTANTS
    Branches,     \* the branches
    Middlewares,  \* the middleware
    Gates,        \* those of them with the name AllowRepair
    Before,       \* those that build may put first or last
    MaxCalls,     \* how many calls are made (a bound)
    MaxChain,     \* how long a chain grows (a bound)
    MaxStorages   \* how many storages a builder or a branch has (a bound)

VARIABLES
    arrays,     \* the arrays of middleware; their indexes are references
    own,        \* own[o]: the reference to the array that use() appends to
    dests,      \* dests[o]: the references to the chains of its destinations
    promised,   \* promised[o]: what these chains were when they were registered
    unbound,    \* middleware of the builder has no storage yet
    client,     \* the client that was built last
    answer,     \* how the last call ended
    calls       \* how many calls were made

vars == <<arrays, own, dests, promised, unbound, client, answer, calls>>

Objects == Branches \cup {"builder"}
Chain(o) == arrays[own[o]]
ChainsOf(o) == [i \in DOMAIN dests[o] |-> arrays[dests[o][i]]]

----------------------------------------------------------------------------
(* the graph that is compiled *)

\* A node is known by its place in the order of creation; 0 is the root.
NoGraph == [nodes |-> <<>>, leaves |-> <<>>, middlewares |-> <<>>]

\* Mutant: any node of the middleware will do.
ChildOf_Anywhere(graph, parent, m) ==
    {n \in DOMAIN graph.nodes : graph.nodes[n].middleware = m}

ChildOf(graph, parent, m) ==
    {n \in DOMAIN graph.nodes : graph.nodes[n] = [parent |-> parent, middleware |-> m]}

\* One more middleware of the chain of leaf.
Descend(graph, leaf, m) ==
    LET found == ChildOf(graph, leaf.parent, m)
        n == IF found = {} THEN Len(graph.nodes) + 1 ELSE CHOOSE n \in found : TRUE
        grown == IF found # {} THEN graph
                 ELSE [graph EXCEPT !.nodes = Append(@, [parent |-> leaf.parent, middleware |-> m]),
                                    !.middlewares = IF m \in ToSet(@) THEN @ ELSE Append(@, m)]
    IN  [graph |-> grown,
         leaf |-> [parent |-> n, path |-> Append(leaf.path, n),
                   canRepair |-> leaf.canRepair \/ m \in Gates]]

AddLeaf(graph, chain) ==
    LET end == FoldLeft(LAMBDA at, m : Descend(at.graph, at.leaf, m),
                        [graph |-> graph, leaf |-> [parent |-> 0, path |-> <<>>, canRepair |-> FALSE]],
                        chain)
    IN  [end.graph EXCEPT !.leaves = Append(@, end.leaf)]

Compile(chains) == FoldLeft(AddLeaf, NoGraph, chains)

Children(graph, n) == {c \in DOMAIN graph.nodes : graph.nodes[c].parent = n}
LeavesAt(graph, n) == {i \in DOMAIN graph.leaves : graph.leaves[i].parent = n}

\* finalize: the leaves of a node and of the nodes below it.
AllLeaves(graph) ==
    LET below[n \in 0 .. Len(graph.nodes)] ==
            LeavesAt(graph, n) \cup UNION {below[c] : c \in Children(graph, n)}
    IN  below

First(S) == CHOOSE i \in S : \A j \in S : i <= j

\* createEntries: the leaves and the children of a node in the order of their
\* first leaves.
Entries(graph, n) ==
    LET below == AllLeaves(graph)
        entries == {[leaf |-> i, child |-> 0] : i \in LeavesAt(graph, n)}
                   \cup {[leaf |-> First(below[c]), child |-> c] : c \in Children(graph, n)}
    IN  SetToSortSeq(entries, LAMBDA e, f : e.leaf < f.leaf)

\* collectLeafIndexes: the leaves that are reached through a middleware.
LeafIndexes(graph, m) ==
    UNION {AllLeaves(graph)[n] : n \in {n \in DOMAIN graph.nodes : graph.nodes[n].middleware = m}}

\* Mutant: the key of a node that was mapped before is not looked up.
MapKey_Again(graph, at, n) ==
    [key |-> Append(at.key, graph.nodes[n].middleware),
     cache |-> [at.cache EXCEPT ![n] = Append(at.key, graph.nodes[n].middleware)],
     mapped |-> Append(at.mapped, n)]

\* LeafResolver: the key of a leaf is mapped by the middleware of its path; a
\* node maps it once, and its result is kept for the other leaves.
MapKey(graph, at, n) ==
    IF at.cache[n] # <<>> THEN [at EXCEPT !.key = at.cache[n]]
    ELSE LET key == Append(at.key, graph.nodes[n].middleware)
         IN  [key |-> key, cache |-> [at.cache EXCEPT ![n] = key], mapped |-> Append(at.mapped, n)]

Resolve(graph, at, leaf) ==
    FoldLeft(LAMBDA x, n : MapKey(graph, x, n), [at EXCEPT !.key = <<>>], leaf.path)

\* The resolver after it has resolved the leaves 1 .. i.
Resolved(graph, i) ==
    FoldLeft(LAMBDA at, leaf : Resolve(graph, at, leaf),
             [key |-> <<>>, cache |-> [n \in DOMAIN graph.nodes |-> <<>>], mapped |-> <<>>],
             SubSeq(graph.leaves, 1, i))

----------------------------------------------------------------------------
(* the calls *)

NoClient == [graph |-> NoGraph, chains |-> <<>>]

Init ==
    /\ own = CHOOSE f \in [Objects -> 1 .. Cardinality(Objects)] : IsInjective(f)
    /\ arrays = [r \in 1 .. Cardinality(Objects) |-> <<>>]
    /\ dests = [o \in Objects |-> <<>>]
    /\ promised = [o \in Objects |-> <<>>]
    /\ unbound = FALSE
    /\ client = NoClient
    /\ answer = "ok"
    /\ calls = 0

Call == calls < MaxCalls /\ calls' = calls + 1

Use(o, m) ==
    /\ Call
    /\ Len(Chain(o)) < MaxChain
    /\ arrays' = [arrays EXCEPT ![own[o]] = Append(@, m)]
    /\ unbound' = (unbound \/ o = "builder")
    /\ answer' = "ok"
    /\ UNCHANGED <<own, dests, promised, client>>

\* Mutant: the array is shared, not copied.
Persist_Shared(o) ==
    /\ Call
    /\ Len(dests[o]) < MaxStorages
    /\ arrays' = arrays
    /\ dests' = [dests EXCEPT ![o] = Append(@, own[o])]
    /\ promised' = [promised EXCEPT ![o] = Append(@, Chain(o))]
    /\ unbound' = (unbound /\ o # "builder")
    /\ answer' = "ok"
    /\ UNCHANGED <<own, client>>

Persist(o) ==
    /\ Call
    /\ Len(dests[o]) < MaxStorages
    /\ arrays' = Append(arrays, Chain(o))
    /\ dests' = [dests EXCEPT ![o] = Append(@, Len(arrays) + 1)]
    /\ promised' = [promised EXCEPT ![o] = Append(@, Chain(o))]
    /\ unbound' = (unbound /\ o # "builder")
    /\ answer' = "ok"
    /\ UNCHANGED <<own, client>>

\* Mutant: the prefix is left out.
Forked_Bare(o, branch) == [i \in DOMAIN dests[branch] |-> arrays[dests[branch][i]]]

\* The chain of o now is put before every chain that the branch has now; what
\* the branch has used since its last persist is left behind.
Forked(o, branch) == [i \in DOMAIN dests[branch] |-> Chain(o) \o arrays[dests[branch][i]]]

Fork(o, branch) ==
    /\ Call
    /\ dests[branch] # <<>>
    /\ Len(dests[o]) + Len(dests[branch]) <= MaxStorages
    /\ arrays' = arrays \o Forked(o, branch)
    /\ dests' = [dests EXCEPT ![o] = @ \o [i \in DOMAIN dests[branch] |-> Len(arrays) + i]]
    /\ promised' = [promised EXCEPT ![o] =
          @ \o [i \in DOMAIN dests[branch] |-> Chain(o) \o promised[branch][i]]]
    /\ unbound' = (unbound /\ o # "builder")
    /\ answer' = "ok"
    /\ UNCHANGED <<own, client>>

Refuses(error) ==
    /\ Call
    /\ answer' = error
    /\ UNCHANGED <<arrays, own, dests, promised, unbound, client>>

ForkNothing(branch) == dests[branch] = <<>> /\ Refuses("InvalidForkError")

\* isValid and build agree on what can be built.
IsValid == dests["builder"] # <<>> /\ ~unbound

BuildNothing ==
    \/ dests["builder"] = <<>> /\ Refuses("MissingStorageError")
    \/ dests["builder"] # <<>> /\ unbound /\ Refuses("UnterminatedPipelineError")

Around(first, chain, last) == first \o chain \o last

Build(first, last) ==
    /\ Call
    /\ IsValid
    /\ client' = [graph |-> Compile([i \in DOMAIN dests["builder"] |->
                                        Around(first, ChainsOf("builder")[i], last)]),
                  chains |-> [i \in DOMAIN dests["builder"] |->
                                 Around(first, promised["builder"][i], last)]]
    /\ answer' = "ok"
    /\ UNCHANGED <<arrays, own, dests, promised, unbound>>

Done == calls = MaxCalls /\ UNCHANGED vars

Next ==
    \/ \E o \in Objects : (\E m \in Middlewares : Use(o, m)) \/ Persist(o)
    \/ \E o \in Objects : \E branch \in Branches \ {o} : Fork(o, branch)
    \/ \E branch \in Branches : ForkNothing(branch)
    \/ BuildNothing
    \/ \E first, last \in {<<>>} \cup {<<m>> : m \in Before} : Build(first, last)
    \/ Done

Spec == Init /\ [][Next]_vars

----------------------------------------------------------------------------
(* properties *)

TypeOK ==
    /\ \A r \in DOMAIN arrays : arrays[r] \in Seq(Middlewares)
    /\ \A o \in Objects : own[o] \in DOMAIN arrays /\ ToSet(dests[o]) \subseteq DOMAIN arrays
    /\ unbound \in BOOLEAN
    /\ answer \in {"ok", "InvalidForkError", "MissingStorageError", "UnterminatedPipelineError"}
    /\ calls \in 0 .. MaxCalls

\* A storage keeps the pipeline that it was registered with, whatever its
\* builder or its branch uses or registers later (persist, fork: "additions on
\* a branch do not leak to the parent pipeline").
PipelinesAreKept == \A o \in Objects : ChainsOf(o) = promised[o]

\* In the graph of a client every storage is reached through its pipeline, in
\* the order of its middleware, and storages share the nodes of exactly the
\* beginnings that their pipelines have in common (PipelineGraph.compile).
GraphIsFaithful ==
    LET g == client.graph
        chains == client.chains
        At(i) == [d \in DOMAIN g.leaves[i].path |-> g.nodes[g.leaves[i].path[d]].middleware]
        Same(i, j, d) == SubSeq(chains[i], 1, d) = SubSeq(chains[j], 1, d)
    IN  /\ Len(g.leaves) = Len(chains)
        /\ \A i \in DOMAIN chains :
              /\ At(i) = chains[i]
              /\ g.leaves[i].canRepair = (ToSet(chains[i]) \cap Gates # {})
              /\ \A j \in DOMAIN chains : \A d \in DOMAIN chains[i] \cap DOMAIN chains[j] :
                    (g.leaves[i].path[d] = g.leaves[j].path[d]) = Same(i, j, d)
        /\ \A m \in Middlewares :
              LeafIndexes(g, m) = {i \in DOMAIN chains : m \in ToSet(chains[i])}

\* The entries of a node are a partition of its leaves, in the order in which
\* the walks and the lists of the leaves want them.
EntriesAreOrdered ==
    LET g == client.graph
        below == AllLeaves(g)
        Covers(e) == IF e.child = 0 THEN {e.leaf} ELSE below[e.child]
    IN  \A n \in DOMAIN below :
           LET entries == Entries(g, n)
           IN  /\ UNION {Covers(entries[x]) : x \in DOMAIN entries} = below[n]
               /\ \A x, y \in DOMAIN entries : x < y =>
                     /\ Covers(entries[x]) \cap Covers(entries[y]) = {}
                     /\ First(Covers(entries[x])) < First(Covers(entries[y]))

\* A leaf is resolved to the key that its whole path has mapped, and no node is
\* asked twice in one operation (LeafResolver): a mapping that is not a
\* function of the key still gives all leaves of a node one and the same key.
KeysFollowPaths ==
    LET g == client.graph
    IN  \A i \in DOMAIN g.leaves :
           /\ Resolved(g, i).key = client.chains[i]
           /\ IsInjective(Resolved(g, i).mapped)
=============================================================================
